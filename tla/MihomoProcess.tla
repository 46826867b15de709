---------------------------- MODULE MihomoProcess ----------------------------
(***************************************************************************)
(* The kernel process manager of the daemon (mihomo_process.go): Start,    *)
(* Stop and Restart, called by request handlers and by the reconcile       *)
(* worker at the same time, and the goroutine that waits for the exit of   *)
(* each kernel they start.                                                 *)
(*                                                                         *)
(* Start holds p.mu from the running check to the spawn, then waits out    *)
(* the settle window without it.  Stop takes p.mu only to look the process *)
(* up.  The waiting goroutine publishes the exit, releases the TUN return  *)
(* routes that this Start installed, and posts one value to the kernel's   *)
(* exited channel, which Start and Stop both receive from.                 *)
(*                                                                         *)
(* A commit may turn TUN on or off while a kernel runs: the reconcile      *)
(* worker then installs or removes the same routes (reconcile.go), which   *)
(* no goroutine of a kernel started without TUN will ever remove.          *)
(***************************************************************************)
EXTENDS Integers

CONSTANTS Callers,          \* goroutines that call Start, Stop and Restart
          None,             \* nobody holds p.mu
          MaxKernels,       \* bound: kernels spawned
          MaxToggles,       \* bound: commits that flip system.tun
          MaxDeaths,        \* bound: kernels that die unasked
          MaxRestoreFaults, \* bound: failures of RestoreTUNRouting
          Slow              \* whether a stopped kernel may outlast the timeouts

Kernels == 1..MaxKernels

ASSUME ProcessAssumption ==
  /\ None \notin Callers
  /\ {MaxKernels, MaxToggles, MaxDeaths, MaxRestoreFaults} \subseteq Nat
  /\ Slow \in BOOLEAN

VARIABLES
  mu,        \* the Start that holds p.mu across steps
  running,   \* p.running
  cmd,       \* p.cmd: the kernel spawned last, 0 before the first
  kernel,    \* each kernel process with its waiting goroutine
  exited,    \* the kernels whose exited channel holds its value
  op,        \* the call each caller is in
  tun,       \* system.tun in the committed configuration
  rules,     \* the TUN return routes on the host: "none", or who installed them
  sync,      \* what the reconcile worker has to do about a changed system.tun
  toggles, deaths, restoreFaults  \* the bounded counters

processVars == <<mu, running, cmd, kernel, exited, op>>

vars == <<processVars, tun, rules, toggles, sync, deaths, restoreFaults>>

bounds == <<toggles, sync, deaths, restoreFaults>>

(* Of a kernel: the process runs; it is dead; cmd.Wait returned; running   *)
(* is false; the routes are released; the exit is posted.                  *)
Lives == {"unborn", "alive", "dead", "waited", "marked", "cleaned", "done"}

Kernel == [life : Lives, guarded : BOOLEAN, signal : {"none", "term", "kill"}]

NoKernel == [life |-> "unborn", guarded |-> FALSE, signal |-> "none"]

StartSteps == {"start", "prepare", "spawn", "rollback", "settle"}

StopSteps == {"stop", "term", "wait term", "kill", "wait kill"}

Outcomes == {"ok", "error", "not running"}

Routes == {"none", "start", "worker"}

Syncs == {"none", "check", "setup", "cleanup"}

Steps == {"idle"} \cup StartSteps \cup StopSteps \cup Outcomes

Op == [kind   : {"start", "stop", "restart"},
       step   : Steps,
       target : 0..MaxKernels,
       guards : BOOLEAN]

NoOp == [kind |-> "stop", step |-> "idle", target |-> 0, guards |-> FALSE]

Free == mu = None

(* Caller c, whose call is at this step, goes on to that one. *)
Go(c, this, that) ==
  /\ op[c].step = this
  /\ op' = [op EXCEPT ![c].step = that]

-----------------------------------------------------------------------------
(* SetupTUNRouting and RestoreTUNRouting, each under the routing file lock. *)

Setup ==
  /\ rules' = "start"
  /\ UNCHANGED restoreFaults

(* The preflight refuses, or a later step fails and rolls back. *)
SetupFails ==
  /\ rules' \in {rules, "none"}
  /\ UNCHANGED restoreFaults

(* By the worker: what a Start has installed remains with its kernel.       *)
SetupForRunning == rules' = IF rules = "start" THEN rules ELSE "worker"

Restore ==
  \/ /\ rules' = "none"
     /\ UNCHANGED restoreFaults
  \/ /\ restoreFaults < MaxRestoreFaults
     /\ restoreFaults' = restoreFaults + 1
     /\ UNCHANGED rules

-----------------------------------------------------------------------------
(* A call begins and returns. *)

Begin(c, kind, step) ==
  /\ op[c].step = "idle"
  /\ op' = [op EXCEPT ![c] = [NoOp EXCEPT !.kind = kind, !.step = step]]
  /\ UNCHANGED <<mu, running, cmd, kernel, exited, tun, rules, bounds>>

BeginStart(c) == Begin(c, "start", "start")

BeginStop(c) == Begin(c, "stop", "stop")

BeginRestart(c) == Begin(c, "restart", "stop")

Return(c) ==
  /\ op[c].step \in Outcomes
  /\ op' = [op EXCEPT ![c] = NoOp]
  /\ UNCHANGED <<mu, running, cmd, kernel, exited, tun, rules, bounds>>

-----------------------------------------------------------------------------
(* Start. *)

(* Mutant: Start does not look whether a kernel runs. *)
AlreadyRunning_Never == FALSE

AlreadyRunning == running

LockStart(c) ==
  /\ Free
  /\ \/ /\ AlreadyRunning
        /\ Go(c, "start", "error")
        /\ UNCHANGED mu
     \/ /\ ~AlreadyRunning
        /\ Go(c, "start", "prepare")
        /\ mu' = c
  /\ UNCHANGED <<running, cmd, kernel, exited, tun, rules, bounds>>

(* No binary, no directory, no generated configuration. *)
Refuse(c) ==
  /\ Go(c, "prepare", "error")
  /\ mu' = None
  /\ UNCHANGED <<running, cmd, kernel, exited, tun, rules, bounds>>

Prepare(c) ==
  /\ op[c].step = "prepare"
  /\ op' = [op EXCEPT ![c].step = "spawn", ![c].guards = tun]
  /\ IF tun THEN Setup ELSE UNCHANGED <<rules, restoreFaults>>
  /\ UNCHANGED <<mu, running, cmd, kernel, exited, tun, toggles, sync, deaths>>

PrepareFails(c) ==
  /\ tun
  /\ Go(c, "prepare", "error")
  /\ mu' = None
  /\ SetupFails
  /\ UNCHANGED <<running, cmd, kernel, exited, tun, toggles, sync, deaths>>

Spawn(c) ==
  /\ op[c].step = "spawn"
  /\ cmd < MaxKernels
  /\ cmd' = cmd + 1
  /\ kernel' = [kernel EXCEPT ![cmd + 1] =
                  [life |-> "alive", guarded |-> op[c].guards, signal |-> "none"]]
  /\ op' = [op EXCEPT ![c].step = "settle", ![c].target = cmd + 1,
                       ![c].guards = FALSE]
  /\ running' = TRUE
  /\ mu' = None
  /\ UNCHANGED <<exited, tun, rules, bounds>>

(* Mutant: a failed spawn leaves the routes it installed. *)
SpawnFails_Leaks(c) ==
  /\ op[c].step = "spawn"
  /\ op' = [op EXCEPT ![c].step = "error", ![c].guards = FALSE]
  /\ mu' = None
  /\ UNCHANGED <<running, cmd, kernel, exited, tun, rules, bounds>>

SpawnFails(c) ==
  /\ Go(c, "spawn", IF op[c].guards THEN "rollback" ELSE "error")
  /\ mu' = None
  /\ UNCHANGED <<running, cmd, kernel, exited, tun, rules, bounds>>

Rollback(c) ==
  /\ op[c].step = "rollback"
  /\ op' = [op EXCEPT ![c].step = "error", ![c].guards = FALSE]
  /\ Restore
  /\ UNCHANGED <<mu, running, cmd, kernel, exited, tun, toggles, sync, deaths>>

(* The kernel exited within the window. *)
SettleExited(c) ==
  /\ op[c].target \in exited
  /\ Go(c, "settle", "error")
  /\ exited' = exited \ {op[c].target}
  /\ UNCHANGED <<mu, running, cmd, kernel, tun, rules, bounds>>

(* The window is over first; select may also prefer it to a posted exit. *)
SettleOver(c) ==
  /\ Go(c, "settle", "ok")
  /\ UNCHANGED <<mu, running, cmd, kernel, exited, tun, rules, bounds>>

-----------------------------------------------------------------------------
(* Stop, and the stopping half of Restart. *)

Stopped(c) == IF op[c].kind = "restart" THEN "start" ELSE "ok"

LookUp(c) ==
  /\ Free
  /\ op[c].step = "stop"
  /\ \/ /\ running
        /\ op' = [op EXCEPT ![c].step = "term", ![c].target = cmd]
     \/ /\ ~running
        /\ op' = [op EXCEPT ![c].step =
                    IF op[c].kind = "restart" THEN "start" ELSE "not running"]
  /\ UNCHANGED <<mu, running, cmd, kernel, exited, tun, rules, bounds>>

(* A process that cmd.Wait has reaped can no longer be signalled. *)
Signalable(k) == kernel[k].life \in {"alive", "dead"}

Signal(c, this, sig, that) ==
  LET k == op[c].target IN
  /\ op[c].step = this
  /\ \/ /\ Signalable(k)
        /\ Go(c, this, that)
        /\ kernel' = [kernel EXCEPT ![k].signal = IF @ = "kill" THEN @ ELSE sig]
     \/ /\ ~Signalable(k)
        /\ Go(c, this, "error")
        /\ UNCHANGED kernel
  /\ UNCHANGED <<mu, running, cmd, exited, tun, rules, bounds>>

Term(c) == Signal(c, "term", "term", "wait term")

Kill(c) == Signal(c, "kill", "kill", "wait kill")

Receive(c) ==
  /\ op[c].target \in exited
  /\ \/ Go(c, "wait term", Stopped(c))
     \/ Go(c, "wait kill", Stopped(c))
  /\ exited' = exited \ {op[c].target}
  /\ UNCHANGED <<mu, running, cmd, kernel, tun, rules, bounds>>

(* Mutant: Stop waits for the exit as long as it takes. *)
TimesOut_Never(c) == FALSE

(* The exit is late, or another call has received it. *)
TimesOut(c) == Slow \/ kernel[op[c].target].life = "done"

TermTimesOut(c) ==
  /\ Go(c, "wait term", "kill")
  /\ TimesOut(c)
  /\ UNCHANGED <<mu, running, cmd, kernel, exited, tun, rules, bounds>>

(* Stop reports success although the process may still be there. *)
KillTimesOut(c) ==
  /\ Go(c, "wait kill", Stopped(c))
  /\ TimesOut(c)
  /\ UNCHANGED <<mu, running, cmd, kernel, exited, tun, rules, bounds>>

-----------------------------------------------------------------------------
(* The kernel process and the goroutine that waits for it. *)

Advance(k, this, that) ==
  /\ kernel[k].life = this
  /\ kernel' = [kernel EXCEPT ![k].life = that]

Die(k) ==
  /\ Advance(k, "alive", "dead")
  /\ UNCHANGED <<mu, running, cmd, exited, op, tun, rules, bounds>>

Killed(k) == kernel[k].signal = "kill" /\ Die(k)

Terminated(k) == kernel[k].signal = "term" /\ Die(k)

(* A kernel that crashes, or exits because of its configuration. *)
Dies(k) ==
  /\ kernel[k].signal = "none"
  /\ deaths < MaxDeaths
  /\ deaths' = deaths + 1
  /\ Advance(k, "alive", "dead")
  /\ UNCHANGED <<mu, running, cmd, exited, op, tun, rules, toggles, sync,
                 restoreFaults>>

(* cmd.Wait returns. *)
Reap(k) ==
  /\ Advance(k, "dead", "waited")
  /\ UNCHANGED <<mu, running, cmd, exited, op, tun, rules, bounds>>

(* Mutant: the goroutine does not publish the exit. *)
Mark_Silent(k) ==
  /\ Free
  /\ Advance(k, "waited", "marked")
  /\ UNCHANGED <<mu, running, cmd, exited, op, tun, rules, bounds>>

Mark(k) ==
  /\ Free
  /\ Advance(k, "waited", "marked")
  /\ running' = FALSE
  /\ UNCHANGED <<mu, cmd, exited, op, tun, rules, bounds>>

Cleanup(k) ==
  /\ Advance(k, "marked", "cleaned")
  /\ IF kernel[k].guarded THEN Restore ELSE UNCHANGED <<rules, restoreFaults>>
  /\ UNCHANGED <<mu, running, cmd, exited, op, tun, toggles, sync, deaths>>

Notify(k) ==
  /\ kernel[k].life = "cleaned"
  /\ kernel' = [kernel EXCEPT ![k] = [NoKernel EXCEPT !.life = "done"]]
  /\ exited' = exited \cup {k}
  /\ UNCHANGED <<mu, running, cmd, op, tun, rules, bounds>>

-----------------------------------------------------------------------------
(* A committed configuration flips system.tun and asks the reconcile worker  *)
(* to follow.  Here the next such commit waits for the worker; Reconcile has *)
(* the queue between them.                                                   *)
Toggle ==
  /\ sync = "none"
  /\ toggles < MaxToggles
  /\ toggles' = toggles + 1
  /\ tun' = ~tun
  /\ sync' = "check"
  /\ UNCHANGED <<processVars, rules, deaths, restoreFaults>>

(* runReconcile asks IsRunning once; its answer may be old when it is used. *)
WorkerChecks ==
  /\ Free
  /\ sync = "check"
  /\ sync' = IF ~running THEN "none" ELSE IF tun THEN "setup" ELSE "cleanup"
  /\ UNCHANGED <<processVars, tun, rules, toggles, deaths, restoreFaults>>

(* The reload that follows, and the restart of a kernel that refuses it, are *)
(* nothing to the routes: the restart is a call like any other.              *)
WorkerInstalls ==
  /\ sync = "setup"
  /\ sync' = "none"
  /\ SetupForRunning \/ rules' \in {rules, "none"}
  /\ UNCHANGED <<processVars, tun, toggles, deaths, restoreFaults>>

WorkerRemoves ==
  /\ sync = "cleanup"
  /\ sync' = "none"
  /\ Restore
  /\ UNCHANGED <<processVars, tun, toggles, deaths>>

(* The kernel could be neither reloaded nor restarted: the routes stay. *)
WorkerGivesUp ==
  /\ sync = "cleanup"
  /\ sync' = "none"
  /\ UNCHANGED <<processVars, tun, rules, toggles, deaths, restoreFaults>>

Init ==
  /\ mu = None
  /\ running = FALSE
  /\ cmd = 0
  /\ kernel = [k \in Kernels |-> NoKernel]
  /\ exited = {}
  /\ op = [c \in Callers |-> NoOp]
  /\ tun \in BOOLEAN
  /\ rules = "none"
  /\ sync = "none"
  /\ toggles = 0
  /\ deaths = 0
  /\ restoreFaults = 0

CallerStep(c) ==
  \/ LockStart(c) \/ Refuse(c) \/ Prepare(c) \/ PrepareFails(c)
  \/ Spawn(c) \/ SpawnFails(c) \/ Rollback(c)
  \/ SettleExited(c) \/ SettleOver(c)
  \/ LookUp(c) \/ Term(c) \/ Receive(c) \/ TermTimesOut(c)
  \/ Kill(c) \/ KillTimesOut(c)

WaiterStep(k) == Reap(k) \/ Mark(k) \/ Cleanup(k) \/ Notify(k)

KernelStep(k) == Killed(k) \/ Terminated(k) \/ Dies(k)

SyncStep == WorkerChecks \/ WorkerInstalls \/ WorkerRemoves \/ WorkerGivesUp

Next ==
  \/ \E c \in Callers : BeginStart(c) \/ BeginStop(c) \/ BeginRestart(c)
  \/ \E c \in Callers : Return(c) \/ CallerStep(c)
  \/ \E k \in Kernels : WaiterStep(k) \/ KernelStep(k)
  \/ Toggle \/ SyncStep

Spec == Init /\ [][Next]_vars

(* Goroutines run on and p.mu is handed to its waiters in turn (Go's mutex  *)
(* starves nobody), timers fire, and a process dies of SIGKILL.  Nothing is *)
(* assumed of calls, of SIGTERM or of kernels that crash.                   *)
Fairness ==
  /\ \A c \in Callers : SF_vars(CallerStep(c)) /\ WF_vars(Return(c))
  /\ \A k \in Kernels : SF_vars(WaiterStep(k)) /\ WF_vars(Killed(k))

FairSpec == Spec /\ Fairness

-----------------------------------------------------------------------------

(* Every variable keeps its type. *)
TypeOK ==
  /\ mu \in Callers \cup {None}
  /\ running \in BOOLEAN
  /\ cmd \in 0..MaxKernels
  /\ kernel \in [Kernels -> Kernel]
  /\ exited \subseteq Kernels
  /\ op \in [Callers -> Op]
  /\ tun \in BOOLEAN
  /\ rules \in Routes
  /\ sync \in Syncs
  /\ toggles \in 0..MaxToggles
  /\ deaths \in 0..MaxDeaths
  /\ restoreFaults \in 0..MaxRestoreFaults

(* The goroutine of k has not published k's exit. *)
Unpublished(k) == kernel[k].life \in {"alive", "dead", "waited"}

(* However Start, Stop, Restart and exits interleave, the daemon never runs *)
(* two kernels: one that lives is the one p.cmd names, and p.running holds. *)
OneKernel ==
  \A j, k \in Kernels :
    kernel[j].life = "alive" /\ kernel[k].life = "alive" => j = k

(* k's goroutine still has the routes to release. *)
Owes(k) == kernel[k].guarded /\ (Unpublished(k) \/ kernel[k].life = "marked")

(* c's Start has installed the routes and not handed them to a kernel. *)
Holds(c) == op[c].guards

(* Routes that a Start has installed always have somebody who is going to   *)
(* remove them: that Start on its way, or the goroutine of a kernel started *)
(* with TUN (rollback in Start, cleanup after cmd.Wait), also while the     *)
(* worker installs and removes the routes of a kernel that runs.  Routes    *)
(* that the worker found missing and installed are not meant: a kernel that *)
(* was started without TUN has a goroutine that removes nothing, and they   *)
(* stay when it goes.                                                       *)
RulesAreOwned ==
  restoreFaults = 0 /\ rules = "start" =>
    (\E k \in Kernels : Owes(k)) \/ (\E c \in Callers : Holds(c))

(* A kernel that runs with TUN keeps the return routes while its call is    *)
(* over: what "clean up first, then tell Stop and Start" is there for.      *)
RulesProtectKernel ==
  running /\ kernel[cmd].life = "alive" /\ kernel[cmd].guarded => rules # "none"

(* Every Start, Stop and Restart comes to an end. *)
CallsEnd == \A c \in Callers : op[c].step # "idle" ~> op[c].step = "idle"

(* A dead kernel is not taken for the running one forever. *)
DeathIsNoticed ==
  \A k \in Kernels :
    kernel[k].life = "dead" ~> ~running \/ (cmd # k)

-----------------------------------------------------------------------------
(* The inductive invariant. *)

(* Whoever has passed the running check holds p.mu, and nothing runs. *)
StarterHoldsLock ==
  \A c \in Callers :
    op[c].step \in {"prepare", "spawn"} => mu = c /\ ~running

(* A kernel whose exit is not published is the one the manager tracks. *)
LiveIsTracked ==
  \A k \in Kernels : Unpublished(k) => running /\ k = cmd

(* Kernels beyond p.cmd have not been spawned. *)
UnbornAfterCmd ==
  \A k \in Kernels : kernel[k].life = "unborn" <=> k > cmd

(* Routes are held only between their installation and the spawn. *)
HeldOnTheWay ==
  \A c \in Callers : op[c].guards => op[c].step \in {"spawn", "rollback"}

(* An exit is posted only by a goroutine that is done with the routes. *)
PostedWhenDone ==
  \A k \in exited : kernel[k].life = "done"

IInv ==
  /\ TypeOK
  /\ StarterHoldsLock
  /\ LiveIsTracked
  /\ UnbornAfterCmd
  /\ HeldOnTheWay
  /\ PostedWhenDone
  /\ RulesAreOwned
=============================================================================
