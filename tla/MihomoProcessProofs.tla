------------------------- MODULE MihomoProcessProofs -------------------------
(***************************************************************************)
(* Proofs about MihomoProcess, for any number of callers and of kernels    *)
(* and for every bound.                                                    *)
(***************************************************************************)
EXTENDS MihomoProcess, TLAPS

(* The bounds are numbers. *)
LEMMA BoundTypes ==
  /\ MaxKernels \in Nat /\ MaxToggles \in Nat
  /\ MaxDeaths \in Nat /\ MaxRestoreFaults \in Nat
  BY ProcessAssumption

(* The steps of a call. *)
LEMMA StepNames ==
  /\ \A s \in {"idle", "start", "prepare", "spawn", "rollback", "settle", "stop",
               "term", "wait term", "kill", "wait kill", "ok", "error",
               "not running"} : s \in Steps
  BY DEF Steps, StartSteps, StopSteps, Outcomes

(* The idle records are of the right types. *)
LEMMA IdleTypes ==
  /\ NoOp \in Op /\ NoOp.step = "idle" /\ ~NoOp.guards
  /\ NoKernel \in Kernel /\ NoKernel.life = "unborn"
<1>1. 0 \in 0..MaxKernels
  BY BoundTypes
<1> QED
  BY <1>1, StepNames DEF NoOp, Op, NoKernel, Kernel, Lives

(* A call that goes on to another step stays a call. *)
LEMMA StepType ==
  ASSUME op \in [Callers -> Op], NEW c \in Callers, NEW s \in Steps,
         op' = [op EXCEPT ![c].step = s]
  PROVE  op' \in [Callers -> Op]
  BY DEF Op

(* The idle call, or the first step of one. *)
LEMMA BeginType ==
  ASSUME op \in [Callers -> Op], NEW c \in Callers,
         NEW kind \in {"start", "stop", "restart"}, NEW s \in Steps
  PROVE  [op EXCEPT ![c] = [NoOp EXCEPT !.kind = kind, !.step = s]] \in [Callers -> Op]
<1>1. [NoOp EXCEPT !.kind = kind, !.step = s] \in Op
  BY IdleTypes DEF Op
<1> QED
  BY <1>1

(* A goroutine that goes on leaves a kernel. *)
LEMMA AdvanceType ==
  ASSUME kernel \in [Kernels -> Kernel], NEW k \in Kernels, NEW this,
         NEW that \in Lives, Advance(k, this, that)
  PROVE  kernel' \in [Kernels -> Kernel]
  BY DEF Advance, Kernel

(* Restoring the routes keeps the types of what it touches. *)
LEMMA RestoreType ==
  ASSUME rules \in Routes, restoreFaults \in 0..MaxRestoreFaults, Restore
  PROVE  rules' \in Routes /\ restoreFaults' \in 0..MaxRestoreFaults
<1>1. CASE rules' = "none" /\ UNCHANGED restoreFaults
  BY <1>1 DEF Routes
<1>2. CASE restoreFaults < MaxRestoreFaults /\ restoreFaults' = restoreFaults + 1
           /\ UNCHANGED rules
  BY <1>2, BoundTypes
<1> QED
  BY <1>1, <1>2 DEF Restore

(* The calls' types, step by step. *)
LEMMA CallerType ==
  ASSUME TypeOK, NEW c \in Callers,
         BeginStart(c) \/ BeginStop(c) \/ BeginRestart(c) \/ Return(c) \/ CallerStep(c)
  PROVE  TypeOK'
<1> USE DEF TypeOK
<1>1. CASE BeginStart(c) \/ BeginStop(c) \/ BeginRestart(c) \/ Return(c)
  <2>1. op' \in [Callers -> Op]
    <3>1. CASE Return(c)
      BY <3>1, IdleTypes DEF Return
    <3>2. ASSUME NEW kind \in {"start", "stop", "restart"}, NEW s \in Steps,
                 Begin(c, kind, s)
          PROVE  op' \in [Callers -> Op]
      BY <3>2, BeginType DEF Begin
    <3> QED
      BY <1>1, <3>1, <3>2, StepNames DEF BeginStart, BeginStop, BeginRestart
  <2> QED
    BY <1>1, <2>1
    DEF BeginStart, BeginStop, BeginRestart, Begin, Return, bounds
<1>2. CASE LockStart(c)
  <2>1. op' \in [Callers -> Op]
    <3>1. PICK s \in Steps : op' = [op EXCEPT ![c].step = s]
      BY <1>2, StepNames DEF LockStart, Go
    <3> QED
      BY <3>1, StepType
  <2> QED
    BY <1>2, <2>1 DEF LockStart, bounds
<1>3. CASE Refuse(c)
  <2>1. op' \in [Callers -> Op]
    <3>1. PICK s \in Steps : op' = [op EXCEPT ![c].step = s]
      BY <1>3, StepNames DEF Refuse, Go
    <3> QED
      BY <3>1, StepType
  <2> QED
    BY <1>3, <2>1 DEF Refuse, bounds
<1>4. CASE Prepare(c)
  <2>1. op' \in [Callers -> Op]
    BY <1>4, StepNames DEF Prepare, Op
  <2>2. rules' \in Routes /\ UNCHANGED restoreFaults
    BY <1>4 DEF Prepare, Setup, Routes
  <2> QED
    BY <1>4, <2>1, <2>2 DEF Prepare
<1>5. CASE PrepareFails(c)
  <2>1. op' \in [Callers -> Op]
    <3>1. PICK s \in Steps : op' = [op EXCEPT ![c].step = s]
      BY <1>5, StepNames DEF PrepareFails, Go
    <3> QED
      BY <3>1, StepType
  <2> QED
    BY <1>5, <2>1 DEF PrepareFails, SetupFails, Routes
<1>6. CASE Spawn(c)
  <2>1. cmd' \in Kernels /\ cmd' \in 0..MaxKernels
    BY <1>6, BoundTypes DEF Spawn, Kernels
  <2>2. op' \in [Callers -> Op]
    BY <1>6, <2>1, StepNames DEF Spawn, Op
  <2>3. op[c].guards \in BOOLEAN
    BY DEF Op
  <2>4. kernel' \in [Kernels -> Kernel]
    BY <1>6, <2>1, <2>3 DEF Spawn, Kernel, Lives
  <2> QED
    BY <1>6, <2>1, <2>2, <2>4 DEF Spawn, bounds
<1>7. CASE SpawnFails(c)
  <2>1. op' \in [Callers -> Op]
    <3>1. PICK s \in Steps : op' = [op EXCEPT ![c].step = s]
      BY <1>7, StepNames DEF SpawnFails, Go
    <3> QED
      BY <3>1, StepType
  <2> QED
    BY <1>7, <2>1 DEF SpawnFails, bounds
<1>8. CASE Rollback(c)
  <2>1. op' \in [Callers -> Op]
    BY <1>8, StepNames DEF Rollback, Op
  <2>2. rules' \in Routes /\ restoreFaults' \in 0..MaxRestoreFaults
    BY <1>8, RestoreType DEF Rollback
  <2> QED
    BY <1>8, <2>1, <2>2 DEF Rollback
<1>9. CASE SettleExited(c) \/ SettleOver(c)
  <2>1. op' \in [Callers -> Op]
    <3>1. PICK s \in Steps : op' = [op EXCEPT ![c].step = s]
      BY <1>9, StepNames DEF SettleExited, SettleOver, Go
    <3> QED
      BY <3>1, StepType
  <2>2. exited' \subseteq Kernels
    BY <1>9 DEF SettleExited, SettleOver
  <2> QED
    BY <1>9, <2>1, <2>2 DEF SettleExited, SettleOver, bounds
<1>10. CASE LookUp(c)
  <2>1. op' \in [Callers -> Op]
    <3>1. CASE running
      <4>1. op' = [op EXCEPT ![c].step = "term", ![c].target = cmd]
        BY <1>10, <3>1 DEF LookUp
      <4> QED
        BY <4>1, StepNames DEF Op
    <3>2. CASE ~running
      <4>1. PICK s \in {"start", "not running"} :
              op' = [op EXCEPT ![c].step = s]
        BY <1>10, <3>2 DEF LookUp
      <4> QED
        BY <4>1, StepType, StepNames
    <3> QED
      BY <3>1, <3>2
  <2> QED
    BY <1>10, <2>1 DEF LookUp, bounds
<1>11. CASE Term(c) \/ Kill(c)
  <2>1. op' \in [Callers -> Op]
    <3>1. PICK s \in Steps : op' = [op EXCEPT ![c].step = s]
      BY <1>11, StepNames DEF Term, Kill, Signal, Go
    <3> QED
      BY <3>1, StepType
  <2>2. kernel' \in [Kernels -> Kernel]
    <3>1. \/ UNCHANGED kernel
          \/ \E k, sig : /\ sig \in {"term", "kill"}
                        /\ kernel' = [kernel EXCEPT ![k].signal =
                                        IF @ = "kill" THEN @ ELSE sig]
      BY <1>11 DEF Term, Kill, Signal
    <3> QED
      BY <3>1 DEF Kernel
  <2> QED
    BY <1>11, <2>1, <2>2 DEF Term, Kill, Signal, bounds
<1>12. CASE Receive(c) \/ TermTimesOut(c) \/ KillTimesOut(c)
  <2>1. op' \in [Callers -> Op]
    <3>1. PICK s \in Steps : op' = [op EXCEPT ![c].step = s]
      BY <1>12, StepNames DEF Receive, TermTimesOut, KillTimesOut, Stopped, Go
    <3> QED
      BY <3>1, StepType
  <2>2. exited' \subseteq Kernels
    BY <1>12 DEF Receive, TermTimesOut, KillTimesOut
  <2> QED
    BY <1>12, <2>1, <2>2 DEF Receive, TermTimesOut, KillTimesOut, bounds
<1> QED
  BY <1>1, <1>2, <1>3, <1>4, <1>5, <1>6, <1>7, <1>8, <1>9, <1>10, <1>11, <1>12
  DEF CallerStep

(* The kernels' types, step by step. *)
LEMMA KernelType ==
  ASSUME TypeOK, NEW k \in Kernels, WaiterStep(k) \/ KernelStep(k)
  PROVE  TypeOK'
<1> USE DEF TypeOK
<1>1. CASE Reap(k) \/ Mark(k) \/ Killed(k) \/ Terminated(k)
  <2>1. kernel' \in [Kernels -> Kernel]
    BY <1>1, AdvanceType DEF Reap, Mark, Killed, Terminated, Die, Lives
  <2> QED
    BY <1>1, <2>1 DEF Reap, Mark, Killed, Terminated, Die, bounds
<1>2. CASE Dies(k)
  <2>1. kernel' \in [Kernels -> Kernel]
    BY <1>2, AdvanceType DEF Dies, Lives
  <2>2. deaths' \in 0..MaxDeaths
    BY <1>2, BoundTypes DEF Dies
  <2> QED
    BY <1>2, <2>1, <2>2 DEF Dies
<1>3. CASE Cleanup(k)
  <2>1. kernel' \in [Kernels -> Kernel]
    BY <1>3, AdvanceType DEF Cleanup, Lives
  <2>2. rules' \in Routes /\ restoreFaults' \in 0..MaxRestoreFaults
    BY <1>3, RestoreType DEF Cleanup
  <2> QED
    BY <1>3, <2>1, <2>2 DEF Cleanup
<1>4. CASE Notify(k)
  <2>1. kernel' \in [Kernels -> Kernel]
    BY <1>4 DEF Notify, NoKernel, Kernel, Lives
  <2> QED
    BY <1>4, <2>1 DEF Notify, bounds
<1> QED
  BY <1>1, <1>2, <1>3, <1>4 DEF WaiterStep, KernelStep

(* The initial states have the types. *)
LEMMA TypeInit == Init => TypeOK
<1> SUFFICES ASSUME Init PROVE TypeOK
  OBVIOUS
<1>1. op \in [Callers -> Op] /\ kernel \in [Kernels -> Kernel]
  BY IdleTypes DEF Init
<1>2. 0 \in 0..MaxKernels /\ 0 \in 0..MaxToggles /\ 0 \in 0..MaxDeaths
      /\ 0 \in 0..MaxRestoreFaults
  BY BoundTypes
<1> QED
  BY <1>1, <1>2 DEF Init, TypeOK, Routes, Syncs

(* Every step keeps the types. *)
LEMMA TypeStep ==
  ASSUME TypeOK, [Next]_vars
  PROVE  TypeOK'
<1>1. CASE Toggle
  BY <1>1, BoundTypes DEF Toggle, TypeOK, processVars, Syncs
<1>2. CASE UNCHANGED vars
  BY <1>2 DEF vars, processVars, TypeOK
<1>3. CASE SyncStep
  <2>1. rules' \in Routes /\ sync' \in Syncs /\ restoreFaults' \in 0..MaxRestoreFaults
    BY <1>3, RestoreType
    DEF SyncStep, WorkerChecks, WorkerInstalls, WorkerRemoves, WorkerGivesUp,
        SetupForRunning, TypeOK, Routes, Syncs
  <2>2. UNCHANGED <<processVars, tun, toggles, deaths>>
    BY <1>3 DEF SyncStep, WorkerChecks, WorkerInstalls, WorkerRemoves, WorkerGivesUp
  <2> QED
    BY <2>1, <2>2 DEF TypeOK, processVars
<1> QED
  BY <1>1, <1>2, <1>3, CallerType, KernelType DEF Next

(* Every variable keeps its type. *)
THEOREM TypeCorrect == Spec => []TypeOK
  BY TypeInit, TypeStep, PTL DEF Spec

-----------------------------------------------------------------------------
(* What the steps leave alone. *)

(* A step of c's call is no step of another's. *)
LEMMA OthersKeep ==
  ASSUME op \in [Callers -> Op], NEW c \in Callers,
         BeginStart(c) \/ BeginStop(c) \/ BeginRestart(c) \/ Return(c) \/ CallerStep(c),
         NEW d \in Callers, d # c
  PROVE  op'[d] = op[d]
<1>1. CASE BeginStart(c) \/ BeginStop(c) \/ BeginRestart(c) \/ Return(c)
  BY <1>1 DEF BeginStart, BeginStop, BeginRestart, Begin, Return
<1>2. CASE LockStart(c) \/ Refuse(c) \/ Prepare(c) \/ PrepareFails(c) \/ Spawn(c)
  BY <1>2 DEF LockStart, Refuse, Prepare, PrepareFails, Spawn, Go
<1>3. CASE SpawnFails(c) \/ Rollback(c) \/ SettleExited(c) \/ SettleOver(c)
  BY <1>3 DEF SpawnFails, Rollback, SettleExited, SettleOver, Go
<1>4. CASE LookUp(c) \/ Term(c) \/ Kill(c)
  BY <1>4 DEF LookUp, Term, Kill, Signal, Go
<1>5. CASE Receive(c) \/ TermTimesOut(c) \/ KillTimesOut(c)
  BY <1>5 DEF Receive, TermTimesOut, KillTimesOut, Go
<1> QED
  BY <1>1, <1>2, <1>3, <1>4, <1>5 DEF CallerStep

(* The steps of a call that stay outside Start's critical section. *)
Outside(c) ==
  \/ BeginStart(c) \/ BeginStop(c) \/ BeginRestart(c) \/ Return(c)
  \/ Rollback(c) \/ SettleExited(c) \/ SettleOver(c)
  \/ LookUp(c) \/ Term(c) \/ Kill(c)
  \/ Receive(c) \/ TermTimesOut(c) \/ KillTimesOut(c)

(* They neither enter it nor touch its lock, the running flag or p.cmd. *)
LEMMA OutsideSteps ==
  ASSUME TypeOK, NEW c \in Callers, Outside(c)
  PROVE  /\ op'[c].step \notin {"prepare", "spawn"}
         /\ UNCHANGED <<mu, running, cmd>>
<1> USE DEF TypeOK
<1>1. CASE BeginStart(c) \/ BeginStop(c) \/ BeginRestart(c)
  <2>1. ASSUME NEW kind, NEW s \in {"start", "stop"}, Begin(c, kind, s)
        PROVE  op'[c].step = s
    BY <2>1 DEF Begin, NoOp
  <2> QED
    BY <1>1, <2>1 DEF BeginStart, BeginStop, BeginRestart, Begin
<1>2. CASE Return(c)
  BY <1>2, IdleTypes DEF Return
<1>3. CASE Rollback(c) \/ SettleExited(c) \/ SettleOver(c)
  <2>1. op'[c].step \in {"error", "ok"}
    BY <1>3 DEF Rollback, SettleExited, SettleOver, Go, Op
  <2> QED
    BY <1>3, <2>1 DEF Rollback, SettleExited, SettleOver
<1>4. CASE LookUp(c)
  <2>1. op'[c].step \in {"term", "start", "not running"}
    BY <1>4 DEF LookUp, Op
  <2> QED
    BY <1>4, <2>1 DEF LookUp
<1>5. CASE Term(c) \/ Kill(c)
  <2>0. ASSUME NEW this, NEW that, Go(c, this, that) PROVE op'[c].step = that
    BY <2>0 DEF Go, Op
  <2>1. op'[c].step \in {"wait term", "wait kill", "error"}
    BY <1>5, <2>0 DEF Term, Kill, Signal
  <2> QED
    BY <1>5, <2>1 DEF Term, Kill, Signal
<1>6. CASE Receive(c) \/ TermTimesOut(c) \/ KillTimesOut(c)
  <2>1. op'[c].step \in {"start", "ok", "kill"}
    BY <1>6 DEF Receive, TermTimesOut, KillTimesOut, Stopped, Go, Op
  <2> QED
    BY <1>6, <2>1 DEF Receive, TermTimesOut, KillTimesOut
<1> QED
  BY <1>1, <1>2, <1>3, <1>4, <1>5, <1>6 DEF Outside

(* The steps of Next, grouped for the proofs below. *)
LEMMA NextCases ==
  ASSUME [Next]_vars
  PROVE  \/ \E c \in Callers :
              \/ Outside(c) \/ LockStart(c) \/ Refuse(c) \/ Prepare(c)
              \/ PrepareFails(c) \/ Spawn(c) \/ SpawnFails(c)
         \/ \E k \in Kernels : WaiterStep(k) \/ KernelStep(k)
         \/ Toggle \/ SyncStep
         \/ UNCHANGED vars
  BY DEF Next, CallerStep, Outside

(* Neither a commit nor the worker touches calls and kernels. *)
LEMMA SyncKeeps ==
  ASSUME Toggle \/ SyncStep \/ UNCHANGED vars
  PROVE  UNCHANGED <<mu, running, cmd, kernel, exited, op>>
  BY DEF Toggle, SyncStep, WorkerChecks, WorkerInstalls, WorkerRemoves,
         WorkerGivesUp, vars, processVars

-----------------------------------------------------------------------------
(* The inductive invariant, conjunct by conjunct. *)

(* p.mu and the running check keep starters apart. *)
LEMMA StarterStep ==
  ASSUME TypeOK, StarterHoldsLock, [Next]_vars
  PROVE  StarterHoldsLock'
<1> USE DEF TypeOK
<1>1. ASSUME NEW c \in Callers, Outside(c) PROVE StarterHoldsLock'
  <2>1. \A d \in Callers : d # c => op'[d] = op[d]
    BY <1>1, OthersKeep DEF Outside, CallerStep
  <2> QED
    BY <1>1, <2>1, OutsideSteps DEF StarterHoldsLock
<1>2. ASSUME NEW c \in Callers, LockStart(c) PROVE StarterHoldsLock'
  <2>1. \A d \in Callers : d # c => op'[d] = op[d]
    BY <1>2, OthersKeep DEF CallerStep
  <2>2. mu = None /\ \A d \in Callers : op[d].step \notin {"prepare", "spawn"}
    BY <1>2, ProcessAssumption DEF LockStart, Free, StarterHoldsLock
  <2>3. CASE running
    <3>1. op'[c].step = "error"
      BY <1>2, <2>3 DEF LockStart, AlreadyRunning, Go, Op
    <3> QED
      BY <2>1, <2>2, <3>1 DEF StarterHoldsLock
  <2>4. CASE ~running
    <3>1. mu' = c /\ ~running'
      BY <1>2, <2>4 DEF LockStart, AlreadyRunning
    <3> QED
      BY <2>1, <2>2, <3>1 DEF StarterHoldsLock
  <2> QED
    BY <2>3, <2>4
<1>3. ASSUME NEW c \in Callers,
             Refuse(c) \/ PrepareFails(c) \/ Spawn(c) \/ SpawnFails(c)
      PROVE  StarterHoldsLock'
  <2>1. \A d \in Callers : d # c => op'[d] = op[d]
    BY <1>3, OthersKeep DEF CallerStep
  <2>2. op[c].step \in {"prepare", "spawn"}
    BY <1>3 DEF Refuse, PrepareFails, Spawn, SpawnFails, Go
  <2>3. op'[c].step \in {"error", "settle", "rollback"}
    BY <1>3 DEF Refuse, PrepareFails, Spawn, SpawnFails, Go, Op
  <2>4. \A d \in Callers : d # c => op[d].step \notin {"prepare", "spawn"}
    BY <2>2 DEF StarterHoldsLock
  <2> QED
    BY <2>1, <2>3, <2>4 DEF StarterHoldsLock
<1>4. ASSUME NEW c \in Callers, Prepare(c) PROVE StarterHoldsLock'
  <2>1. \A d \in Callers : d # c => op'[d] = op[d]
    BY <1>4, OthersKeep DEF CallerStep
  <2>2. mu' = c /\ ~running'
    BY <1>4 DEF Prepare, StarterHoldsLock
  <2>3. \A d \in Callers : d # c => op[d].step \notin {"prepare", "spawn"}
    BY <1>4 DEF Prepare, StarterHoldsLock
  <2> QED
    BY <2>1, <2>2, <2>3 DEF StarterHoldsLock
<1>5. ASSUME NEW k \in Kernels, WaiterStep(k) \/ KernelStep(k)
      PROVE  StarterHoldsLock'
  <2>1. UNCHANGED <<mu, op>> /\ (running' = running \/ ~running')
    BY <1>5 DEF WaiterStep, KernelStep, Reap, Mark, Cleanup, Notify, Killed,
                Terminated, Dies, Die
  <2> QED
    BY <2>1 DEF StarterHoldsLock
<1>6. CASE Toggle \/ SyncStep \/ UNCHANGED vars
  BY <1>6, SyncKeeps DEF StarterHoldsLock
<1> QED
  BY <1>1, <1>2, <1>3, <1>4, <1>5, <1>6, NextCases

(* A caller's step other than Spawn keeps the kernels' lives and their      *)
(* routes, and posts no exit.                                               *)
LEMMA CallersKeepKernels ==
  ASSUME TypeOK, NEW c \in Callers,
         \/ Outside(c) \/ LockStart(c) \/ Refuse(c) \/ Prepare(c)
         \/ PrepareFails(c) \/ SpawnFails(c)
  PROVE  /\ \A k \in Kernels : /\ kernel'[k].life = kernel[k].life
                              /\ kernel'[k].guarded = kernel[k].guarded
         /\ UNCHANGED <<cmd, running>>
         /\ exited' \subseteq exited
<1> USE DEF TypeOK
<1>1. CASE Term(c) \/ Kill(c)
  <2>1. \/ UNCHANGED kernel
        \/ \E j, s : kernel' = [kernel EXCEPT ![j].signal = s]
    BY <1>1 DEF Term, Kill, Signal
  <2>2. \A k \in Kernels : /\ kernel'[k].life = kernel[k].life
                          /\ kernel'[k].guarded = kernel[k].guarded
    BY <2>1 DEF Kernel
  <2> QED
    BY <1>1, <2>2 DEF Term, Kill, Signal
<1>2. CASE BeginStart(c) \/ BeginStop(c) \/ BeginRestart(c) \/ Return(c)
  BY <1>2 DEF BeginStart, BeginStop, BeginRestart, Begin, Return
<1>3. CASE Rollback(c) \/ SettleExited(c) \/ SettleOver(c) \/ LookUp(c)
  BY <1>3 DEF Rollback, SettleExited, SettleOver, LookUp
<1>4. CASE Receive(c) \/ TermTimesOut(c) \/ KillTimesOut(c)
  BY <1>4 DEF Receive, TermTimesOut, KillTimesOut
<1>5. CASE LockStart(c) \/ Refuse(c) \/ Prepare(c) \/ PrepareFails(c) \/ SpawnFails(c)
  BY <1>5 DEF LockStart, Refuse, Prepare, PrepareFails, SpawnFails
<1> QED
  BY <1>1, <1>2, <1>3, <1>4, <1>5 DEF Outside

(* What the goroutine and the process of k do to k and to the others. *)
LEMMA KernelMoves ==
  ASSUME TypeOK, NEW k \in Kernels, WaiterStep(k) \/ KernelStep(k)
  PROVE  /\ \A j \in Kernels : j # k => kernel'[j] = kernel[j]
         /\ \/ kernel[k].life = "alive" /\ kernel'[k].life = "dead"
            \/ kernel[k].life = "dead" /\ kernel'[k].life = "waited"
            \/ kernel[k].life = "waited" /\ kernel'[k].life = "marked"
            \/ kernel[k].life = "marked" /\ kernel'[k].life = "cleaned"
            \/ kernel[k].life = "cleaned" /\ kernel'[k].life = "done"
         /\ kernel'[k].life = "done" \/ kernel'[k].guarded = kernel[k].guarded
         /\ UNCHANGED <<cmd, op, mu>>
<1> USE DEF TypeOK
<1>1. ASSUME NEW this, NEW that, Advance(k, this, that)
      PROVE  /\ \A j \in Kernels : j # k => kernel'[j] = kernel[j]
             /\ kernel[k].life = this /\ kernel'[k].life = that
             /\ kernel'[k].guarded = kernel[k].guarded
  BY <1>1 DEF Advance, Kernel
<1>2. CASE Killed(k) \/ Terminated(k) \/ Dies(k)
  BY <1>1, <1>2 DEF Killed, Terminated, Dies, Die
<1>3. CASE Reap(k)
  BY <1>1, <1>3 DEF Reap
<1>4. CASE Mark(k)
  BY <1>1, <1>4 DEF Mark
<1>5. CASE Cleanup(k)
  BY <1>1, <1>5 DEF Cleanup
<1>6. CASE Notify(k)
  <2>1. kernel'[k].life = "done" /\ \A j \in Kernels : j # k => kernel'[j] = kernel[j]
    BY <1>6 DEF Notify, NoKernel
  <2> QED
    BY <1>6, <2>1 DEF Notify
<1> QED
  BY <1>2, <1>3, <1>4, <1>5, <1>6 DEF WaiterStep, KernelStep

(* The spawned kernel is the next one. *)
LEMMA SpawnMoves ==
  ASSUME TypeOK, StarterHoldsLock, LiveIsTracked, NEW c \in Callers, Spawn(c)
  PROVE  /\ cmd' = cmd + 1 /\ cmd' \in Kernels /\ running'
         /\ kernel'[cmd'].life = "alive" /\ kernel'[cmd'].guarded = op[c].guards
         /\ \A k \in Kernels : k # cmd' => kernel'[k] = kernel[k]
         /\ \A k \in Kernels : ~Unpublished(k)
         /\ UNCHANGED exited
<1> USE DEF TypeOK
<1>1. cmd' = cmd + 1 /\ cmd' \in Kernels
  BY BoundTypes DEF Spawn, Kernels
<1>2. kernel' = [kernel EXCEPT ![cmd'] =
         [life |-> "alive", guarded |-> op[c].guards, signal |-> "none"]]
  BY <1>1 DEF Spawn
<1>3. ~running
  BY DEF Spawn, StarterHoldsLock
<1> QED
  BY <1>1, <1>2, <1>3 DEF Spawn, LiveIsTracked

(* The manager tracks whatever still runs. *)
LEMMA TrackedStep ==
  ASSUME TypeOK, StarterHoldsLock, LiveIsTracked, UnbornAfterCmd, [Next]_vars
  PROVE  LiveIsTracked' /\ UnbornAfterCmd'
<1> USE DEF TypeOK
<1>1. ASSUME NEW c \in Callers, Spawn(c) PROVE LiveIsTracked' /\ UnbornAfterCmd'
  <2>1. LiveIsTracked'
    BY <1>1, SpawnMoves DEF LiveIsTracked, Unpublished
  <2>2. \A k \in Kernels : k > cmd' <=> k > cmd /\ k # cmd'
    BY <1>1, SpawnMoves, BoundTypes DEF Kernels
  <2>3. UnbornAfterCmd'
    BY <1>1, <2>2, SpawnMoves DEF UnbornAfterCmd
  <2> QED
    BY <2>1, <2>3
<1>2. ASSUME NEW c \in Callers,
             \/ Outside(c) \/ LockStart(c) \/ Refuse(c) \/ Prepare(c)
             \/ PrepareFails(c) \/ SpawnFails(c)
      PROVE  LiveIsTracked' /\ UnbornAfterCmd'
  BY <1>2, CallersKeepKernels DEF LiveIsTracked, UnbornAfterCmd, Unpublished
<1>3. ASSUME NEW k \in Kernels, WaiterStep(k) \/ KernelStep(k)
      PROVE  LiveIsTracked' /\ UnbornAfterCmd'
  <2>1. CASE Mark(k)
    <3>1. k = cmd
      BY <2>1 DEF Mark, Advance, LiveIsTracked, Unpublished
    <3>2. \A j \in Kernels : ~Unpublished(j)'
      BY <1>3, <2>1, <3>1, KernelMoves DEF Mark, Advance, LiveIsTracked, Unpublished
    <3> QED
      BY <1>3, <3>2, KernelMoves DEF LiveIsTracked, UnbornAfterCmd
  <2>2. CASE ~Mark(k)
    <3>1. UNCHANGED running
      BY <1>3, <2>2 DEF WaiterStep, KernelStep, Reap, Cleanup, Notify, Killed,
                        Terminated, Dies, Die
    <3> QED
      BY <1>3, <3>1, KernelMoves DEF LiveIsTracked, UnbornAfterCmd, Unpublished
  <2> QED
    BY <2>1, <2>2
<1>4. CASE Toggle \/ SyncStep \/ UNCHANGED vars
  BY <1>4, SyncKeeps DEF LiveIsTracked, UnbornAfterCmd, Unpublished
<1> QED
  BY <1>1, <1>2, <1>3, <1>4, NextCases

(* Routes are held only on the way to a spawn. *)
LEMMA HeldStep ==
  ASSUME TypeOK, HeldOnTheWay, [Next]_vars
  PROVE  HeldOnTheWay'
<1> USE DEF TypeOK
<1>1. ASSUME NEW c \in Callers,
             Outside(c) \/ LockStart(c) \/ Refuse(c) \/ PrepareFails(c)
      PROVE  HeldOnTheWay'
  <2>1. \A d \in Callers : d # c => op'[d] = op[d]
    BY <1>1, OthersKeep DEF Outside, CallerStep
  <2>2. op'[c].guards => op[c].guards /\ op[c].step \notin {"rollback", "spawn"}
    <3>1. CASE BeginStart(c) \/ BeginStop(c) \/ BeginRestart(c) \/ Return(c)
      <4>1. ASSUME NEW kind, NEW s, Begin(c, kind, s) PROVE ~op'[c].guards
        BY <4>1 DEF Begin, NoOp
      <4>2. CASE Return(c)
        BY <4>2, IdleTypes DEF Return
      <4> QED
        BY <3>1, <4>1, <4>2 DEF BeginStart, BeginStop, BeginRestart
    <3>2. CASE Rollback(c)
      BY <3>2 DEF Rollback, Op
    <3>3. CASE SettleExited(c) \/ SettleOver(c) \/ LookUp(c)
      <4>1. op[c].step \in {"settle", "stop"}
        BY <3>3 DEF SettleExited, SettleOver, LookUp, Go
      <4>2. op'[c].guards = op[c].guards
        BY <3>3 DEF SettleExited, SettleOver, LookUp, Go, Op
      <4> QED
        BY <4>1, <4>2
    <3>4. CASE Term(c) \/ Kill(c)
      <4>1. op[c].step \in {"term", "kill"}
        BY <3>4 DEF Term, Kill, Signal
      <4>2. ASSUME NEW this, NEW that, Go(c, this, that)
            PROVE  op'[c].guards = op[c].guards
        BY <4>2 DEF Go, Op
      <4>3. op'[c].guards = op[c].guards
        BY <3>4, <4>2 DEF Term, Kill, Signal
      <4> QED
        BY <4>1, <4>3
    <3>5. CASE Receive(c) \/ TermTimesOut(c) \/ KillTimesOut(c)
      BY <3>5 DEF Receive, TermTimesOut, KillTimesOut, Go, Op
    <3>6. CASE LockStart(c) \/ Refuse(c) \/ PrepareFails(c)
      BY <3>6 DEF LockStart, Refuse, PrepareFails, Go, Op
    <3> QED
      BY <1>1, <3>1, <3>2, <3>3, <3>4, <3>5, <3>6 DEF Outside
  <2> QED
    BY <2>1, <2>2 DEF HeldOnTheWay
<1>2. ASSUME NEW c \in Callers, Prepare(c) \/ Spawn(c) \/ SpawnFails(c)
      PROVE  HeldOnTheWay'
  <2>1. \A d \in Callers : d # c => op'[d] = op[d]
    BY <1>2, OthersKeep DEF CallerStep
  <2>2. op'[c].guards => op'[c].step \in {"spawn", "rollback"}
    <3>1. CASE Prepare(c)
      BY <3>1 DEF Prepare, Op
    <3>2. CASE Spawn(c)
      BY <3>2 DEF Spawn, Op
    <3>3. CASE SpawnFails(c)
      BY <3>3 DEF SpawnFails, Go, Op
    <3> QED
      BY <1>2, <3>1, <3>2, <3>3
  <2> QED
    BY <2>1, <2>2 DEF HeldOnTheWay
<1>3. ASSUME NEW k \in Kernels, WaiterStep(k) \/ KernelStep(k)
      PROVE  HeldOnTheWay'
  BY <1>3, KernelMoves DEF HeldOnTheWay
<1>4. CASE Toggle \/ SyncStep \/ UNCHANGED vars
  BY <1>4, SyncKeeps DEF HeldOnTheWay
<1> QED
  BY <1>1, <1>2, <1>3, <1>4, NextCases

(* An exit is posted last. *)
LEMMA PostedStep ==
  ASSUME TypeOK, StarterHoldsLock, LiveIsTracked, UnbornAfterCmd, PostedWhenDone,
         [Next]_vars
  PROVE  PostedWhenDone'
<1> USE DEF TypeOK
<1>1. ASSUME NEW c \in Callers, Spawn(c) PROVE PostedWhenDone'
  <2>1. kernel[cmd'].life = "unborn"
    BY <1>1, SpawnMoves, BoundTypes DEF UnbornAfterCmd, Kernels
  <2> QED
    BY <1>1, <2>1, SpawnMoves DEF PostedWhenDone
<1>2. ASSUME NEW c \in Callers,
             \/ Outside(c) \/ LockStart(c) \/ Refuse(c) \/ Prepare(c)
             \/ PrepareFails(c) \/ SpawnFails(c)
      PROVE  PostedWhenDone'
  BY <1>2, CallersKeepKernels DEF PostedWhenDone
<1>3. ASSUME NEW k \in Kernels, WaiterStep(k) \/ KernelStep(k)
      PROVE  PostedWhenDone'
  <2>1. exited' \subseteq exited \cup (IF kernel'[k].life = "done" THEN {k} ELSE {})
    <3>1. CASE Notify(k)
      BY <1>3, <3>1, KernelMoves DEF Notify
    <3>2. CASE ~Notify(k)
      BY <1>3, <3>2 DEF WaiterStep, KernelStep, Reap, Mark, Cleanup, Killed,
                        Terminated, Dies, Die
    <3> QED
      BY <3>1, <3>2
  <2> QED
    BY <1>3, <2>1, KernelMoves DEF PostedWhenDone
<1>4. CASE Toggle \/ SyncStep \/ UNCHANGED vars
  BY <1>4, SyncKeeps DEF PostedWhenDone
<1> QED
  BY <1>1, <1>2, <1>3, <1>4, NextCases

(* Routes of a Start have an owner, as long as no removal has failed. *)
LEMMA OwnedStep ==
  ASSUME TypeOK, StarterHoldsLock, LiveIsTracked, UnbornAfterCmd, HeldOnTheWay,
         RulesAreOwned, [Next]_vars
  PROVE  RulesAreOwned'
<1> USE DEF TypeOK
<1> SUFFICES ASSUME restoreFaults' = 0, rules' = "start"
             PROVE  \/ \E k \in Kernels : Owes(k)'
                    \/ \E c \in Callers : Holds(c)'
  BY DEF RulesAreOwned
<1>1. ASSUME NEW c \in Callers, Prepare(c)
      PROVE  (\E k \in Kernels : Owes(k)') \/ (\E d \in Callers : Holds(d)')
  <2>1. CASE tun
    <3>1. op'[c].guards
      BY <1>1, <2>1 DEF Prepare, Op
    <3> QED
      BY <3>1 DEF Holds
  <2>2. CASE ~tun
    <3>1. rules = "start" /\ restoreFaults = 0 /\ UNCHANGED kernel
      BY <1>1, <2>2 DEF Prepare
    <3>2. ~op[c].guards
      BY <1>1 DEF Prepare, HeldOnTheWay
    <3>3. \A d \in Callers : d # c => op'[d] = op[d]
      BY <1>1, OthersKeep DEF CallerStep
    <3> QED
      BY <3>1, <3>2, <3>3 DEF RulesAreOwned, Owes, Holds, Unpublished
  <2> QED
    BY <2>1, <2>2
<1>2. ASSUME NEW c \in Callers, Spawn(c)
      PROVE  (\E k \in Kernels : Owes(k)') \/ (\E d \in Callers : Holds(d)')
  <2>1. rules = "start" /\ restoreFaults = 0
    BY <1>2 DEF Spawn, bounds
  <2>2. \A d \in Callers : d # c => op'[d] = op[d]
    BY <1>2, OthersKeep DEF CallerStep
  <2>3. CASE op[c].guards
    BY <1>2, <2>3, SpawnMoves DEF Owes, Unpublished
  <2>4. CASE ~op[c].guards
    <3>1. ASSUME NEW k \in Kernels, Owes(k) PROVE Owes(k)'
      <4>1. kernel[cmd'].life = "unborn"
        BY <1>2, SpawnMoves, BoundTypes DEF UnbornAfterCmd, Kernels
      <4>2. k # cmd'
        BY <3>1, <4>1 DEF Owes, Unpublished
      <4> QED
        BY <1>2, <3>1, <4>2, SpawnMoves DEF Owes, Unpublished
    <3> QED
      BY <2>1, <2>2, <2>4, <3>1 DEF RulesAreOwned, Holds
  <2> QED
    BY <2>3, <2>4
<1>3. ASSUME NEW c \in Callers, Rollback(c)
      PROVE  (\E k \in Kernels : Owes(k)') \/ (\E d \in Callers : Holds(d)')
  BY <1>3 DEF Rollback, Restore
<1>4. ASSUME NEW c \in Callers, ~Rollback(c),
             \/ Outside(c) \/ LockStart(c) \/ Refuse(c)
             \/ PrepareFails(c) \/ SpawnFails(c)
      PROVE  (\E k \in Kernels : Owes(k)') \/ (\E d \in Callers : Holds(d)')
  <2>1. rules = "start" /\ restoreFaults = 0
    BY <1>4 DEF Outside, BeginStart, BeginStop, BeginRestart, Begin, Return,
                SettleExited, SettleOver, LookUp, Term, Kill, Signal, Receive,
                TermTimesOut, KillTimesOut, LockStart, Refuse, PrepareFails,
                SetupFails, SpawnFails, bounds
  <2>2. ASSUME NEW k \in Kernels, Owes(k) PROVE Owes(k)'
    BY <1>4, <2>2, CallersKeepKernels DEF Owes, Unpublished
  <2>3. op[c].guards => op'[c].guards
    <3>1. CASE SpawnFails(c)
      BY <3>1 DEF SpawnFails, Go, Op
    <3>2. CASE ~SpawnFails(c)
      <4>1. op[c].step \notin {"spawn", "rollback"}
        BY <1>4, <3>2
        DEF Outside, BeginStart, BeginStop, BeginRestart, Begin, Return,
            SettleExited, SettleOver, LookUp, Term, Kill, Signal, Receive,
            TermTimesOut, KillTimesOut, LockStart, Refuse, PrepareFails, Go,
            Outcomes
      <4> QED
        BY <4>1 DEF HeldOnTheWay
    <3> QED
      BY <3>1, <3>2
  <2>4. \A d \in Callers : d # c => op'[d] = op[d]
    BY <1>4, OthersKeep DEF Outside, CallerStep
  <2> QED
    BY <2>1, <2>2, <2>3, <2>4 DEF RulesAreOwned, Holds
<1>5. ASSUME NEW k \in Kernels, WaiterStep(k) \/ KernelStep(k)
      PROVE  (\E j \in Kernels : Owes(j)') \/ (\E d \in Callers : Holds(d)')
  <2>1. CASE Cleanup(k) /\ kernel[k].guarded
    BY <2>1 DEF Cleanup, Restore
  <2>2. CASE ~(Cleanup(k) /\ kernel[k].guarded)
    <3>1. rules = "start" /\ restoreFaults = 0
      BY <1>5, <2>2 DEF WaiterStep, KernelStep, Reap, Mark, Cleanup, Notify,
                        Killed, Terminated, Dies, Die, bounds
    <3>2. kernel[k].life = "marked" => Cleanup(k)
      BY <1>5 DEF WaiterStep, KernelStep, Reap, Mark, Notify, Killed,
                  Terminated, Dies, Die, Advance
    <3>3. ASSUME NEW j \in Kernels, Owes(j) PROVE Owes(j)'
      BY <1>5, <2>2, <3>2, <3>3, KernelMoves DEF Owes, Unpublished
    <3>4. UNCHANGED op
      BY <1>5, KernelMoves
    <3> QED
      BY <3>1, <3>3, <3>4 DEF RulesAreOwned, Holds
  <2> QED
    BY <2>1, <2>2
<1>6. CASE Toggle \/ SyncStep \/ UNCHANGED vars
  <2>1. rules = "start" /\ restoreFaults = 0
    BY <1>6, BoundTypes
    DEF Toggle, SyncStep, WorkerChecks, WorkerInstalls, WorkerRemoves,
        WorkerGivesUp, SetupForRunning, Restore, vars
  <2> QED
    BY <1>6, <2>1, SyncKeeps DEF RulesAreOwned, Owes, Holds, Unpublished
<1>7. ASSUME NEW c \in Callers,
             \/ Outside(c) \/ LockStart(c) \/ Refuse(c) \/ Prepare(c)
             \/ PrepareFails(c) \/ Spawn(c) \/ SpawnFails(c)
      PROVE  (\E k \in Kernels : Owes(k)') \/ (\E d \in Callers : Holds(d)')
  BY <1>1, <1>2, <1>3, <1>4, <1>7
<1> QED
  BY <1>5, <1>6, <1>7, NextCases

-----------------------------------------------------------------------------

(* The inductive invariant holds initially and is kept by every step. *)
THEOREM Inductive == Spec => []IInv
<1>1. Init => IInv
  <2> SUFFICES ASSUME Init PROVE IInv
    OBVIOUS
  <2>2. StarterHoldsLock /\ HeldOnTheWay
    BY IdleTypes DEF Init, StarterHoldsLock, HeldOnTheWay
  <2>3. LiveIsTracked /\ UnbornAfterCmd
    BY IdleTypes, BoundTypes DEF Init, LiveIsTracked, UnbornAfterCmd, Unpublished, Kernels
  <2> QED
    BY <2>2, <2>3, TypeInit DEF Init, IInv, PostedWhenDone, RulesAreOwned
<1>2. IInv /\ [Next]_vars => IInv'
  <2> SUFFICES ASSUME IInv, [Next]_vars PROVE IInv'
    OBVIOUS
  <2> QED
    BY TypeStep, StarterStep, TrackedStep, HeldStep, PostedStep, OwnedStep DEF IInv
<1> QED
  BY <1>1, <1>2, PTL DEF Spec

(* The daemon never runs two kernels, whatever calls and exits interleave. *)
THEOREM OneKernelAtATime == Spec => []OneKernel
<1>1. IInv => OneKernel
  BY DEF IInv, LiveIsTracked, OneKernel, Unpublished
<1> QED
  BY <1>1, Inductive, PTL

(* The routes that a Start has installed always have an owner that is going *)
(* to remove them, whatever the worker does beside it.                      *)
THEOREM RoutesAreOwned == Spec => []RulesAreOwned
<1>1. IInv => RulesAreOwned
  BY DEF IInv
<1> QED
  BY <1>1, Inductive, PTL
=============================================================================
