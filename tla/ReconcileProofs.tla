--------------------------- MODULE ReconcileProofs ---------------------------
(***************************************************************************)
(* Proofs about Reconcile, for any numbers of handlers, users and kernels, *)
(* any capacity of the queue and every bound.                              *)
(***************************************************************************)
EXTENDS Reconcile, MihomoProcessProofs, SequenceTheorems

(* The bounds are numbers, and a first kernel can be spawned. *)
LEMMA ReconcileBounds ==
  /\ MaxCommits \in Nat /\ MaxGenFaults \in Nat
  /\ MaxSetupFaults \in Nat /\ MaxReloadFaults \in Nat
  /\ QueueCap \in Nat /\ QueueCap >= 1
  /\ MaxKernels \in Nat /\ MaxKernels >= 1
  /\ Worker \in Callers /\ Users \subseteq Callers /\ Starters \subseteq Users
  /\ Worker \notin Users
  BY ReconcileAssumption, BoundTypes

(* What a file is. *)
LEMMA FileFacts ==
  /\ {Missing, Empty, Torn} \subseteq Files
  /\ \A c \in Content : /\ Whole(c) \in Files /\ Whole(c).state = "whole"
                       /\ Whole(c).ver = c.ver /\ Whole(c).tun = c.tun
  /\ \A f \in Files : /\ f.ver \in 0..MaxCommits /\ f.tun \in BOOLEAN
                     /\ f.state = "whole" => \E c \in Content : f = Whole(c)
                     /\ f.state # "whole" => f \in {Missing, Empty, Torn}
<1>1. Missing.ver \in 0..MaxCommits /\ Empty.ver \in 0..MaxCommits
      /\ Torn.ver \in 0..MaxCommits
  BY ReconcileBounds DEF Missing, Empty, Torn
<1>2. /\ Missing.tun = FALSE /\ Empty.tun = FALSE /\ Torn.tun = FALSE
      /\ Missing.state # "whole" /\ Empty.state # "whole" /\ Torn.state # "whole"
  BY DEF Missing, Empty, Torn
<1>3. \A c \in Content : /\ Whole(c).state = "whole"
                        /\ Whole(c).ver = c.ver /\ Whole(c).tun = c.tun
                        /\ c.ver \in 0..MaxCommits /\ c.tun \in BOOLEAN
  BY DEF Whole, Content
<1> QED
  BY <1>1, <1>2, <1>3 DEF Files

(* The version a file holds is a number. *)
LEMMA FileVersion ==
  ASSUME NEW f \in Files
  PROVE  f.ver \in Nat /\ f.ver \in 0..MaxCommits
<1>1. Missing.ver = 0 /\ Empty.ver = 0 /\ Torn.ver = 0 /\ 0 \in 0..MaxCommits
  BY ReconcileBounds DEF Missing, Empty, Torn
<1>2. \A c \in Content : Whole(c).ver = c.ver /\ c.ver \in 0..MaxCommits
  BY DEF Whole, Content
<1> QED
  BY <1>1, <1>2, ReconcileBounds DEF Files

(* A content is its version and its system.tun. *)
LEMMA WholeInjective ==
  ASSUME NEW c \in Content, NEW d \in Content, Whole(c) = Whole(d)
  PROVE  c = d
<1>1. c.ver = d.ver /\ c.tun = d.tun
  BY DEF Whole
<1> QED
  BY <1>1 DEF Content

(* The idle records are of the right types. *)
LEMMA IdleRecords ==
  /\ NoPost \in Posts /\ NoPost.step = "idle"
  /\ NoWork \in Works /\ NoWork.step = "idle"
  /\ NoGen \in Gen /\ NoGen.step = "idle"
<1>1. 0 \in 0..MaxCommits
  BY ReconcileBounds
<1> QED
  BY <1>1 DEF NoPost, Posts, NoWork, Works, NoGen, Gen, Content, Places

(* A handler that is not idle has a request. *)
LEMMA PostFacts ==
  ASSUME NEW p \in Posts, p.step # "idle"
  PROVE  p.req \in Request /\ p.step \in {"committed", "waiting"}
         /\ p = [step |-> p.step, req |-> p.req]
  BY DEF Posts

(* A worker that is not idle has a request. *)
LEMMA WorkFacts ==
  ASSUME NEW w \in Works, w.step # "idle"
  PROVE  w.req \in Request /\ w.step \in WorkerSteps /\ w.ok \in BOOLEAN
         /\ w = [step |-> w.step, req |-> w.req, ok |-> w.ok]
  BY DEF Works

(* A worker goes on with its request. *)
LEMMA WorkGoesOn ==
  ASSUME worker \in Works, worker.step # "idle", NEW s \in WorkerSteps, NEW ok \in BOOLEAN
  PROVE  /\ [worker EXCEPT !.step = s] \in Works
         /\ [worker EXCEPT !.step = s].step = s
         /\ [worker EXCEPT !.step = s].req = worker.req
         /\ [worker EXCEPT !.step = s].ok = worker.ok
         /\ [worker EXCEPT !.step = s, !.ok = ok] \in Works
         /\ [worker EXCEPT !.step = s, !.ok = ok].step = s
         /\ [worker EXCEPT !.step = s, !.ok = ok].req = worker.req
         /\ [worker EXCEPT !.step = s, !.ok = ok].ok = ok
<1> DEFINE r == worker.req
<1>1. r \in Request /\ worker.ok \in BOOLEAN
      /\ worker = [step |-> worker.step, req |-> r, ok |-> worker.ok]
  BY WorkFacts
<1>2. [worker EXCEPT !.step = s] = [step |-> s, req |-> r, ok |-> worker.ok]
  BY <1>1
<1>3. [worker EXCEPT !.step = s, !.ok = ok] \in [step : WorkerSteps, req : Request, ok : BOOLEAN]
  BY <1>1
<1> QED
  BY <1>1, <1>2, <1>3 DEF Works

-----------------------------------------------------------------------------
(* What the process manager sees of a step. *)

(* The worker's own steps, without those that go through p.mu. *)
WorkerBeside ==
  Take \/ Snapshot(Worker) \/ Generated \/ CheckRunning \/ Report
    \/ (\E k \in Kernels : Reload(k))

(* A step that leaves every variable of the manager alone. *)
Beside ==
  \/ \E h \in Posters : Enqueue(h) \/ PostTimesOut(h)
  \/ WorkerBeside
  \/ \E c \in Callers : GenStep(c)
  \/ \E u \in Starters : Snapshot(u)

(* A step is one of the manager's, or leaves its lock, kernels and calls    *)
(* alone; and it keeps the types of its variables.                          *)
LEMMA ProcessStep ==
  ASSUME TypeOK, [ReconcileNext]_allVars
  PROVE  TypeOK' /\ ([Next]_vars \/ UNCHANGED processVars)
<1>1. CASE UNCHANGED vars
  BY <1>1, TypeStep DEF vars
<1>2. CASE Beside \/ UNCHANGED allVars
  <2>1. UNCHANGED vars
    BY <1>2
    DEF allVars, Beside, Enqueue, PostTimesOut, WorkerBeside, Take, Snapshot, Generated,
        CheckRunning, Report, Reload, GenStep, GenFails, Open, Write, Rename,
        RenameFails, WriteFails,
        ChmodFails, RenameRefused, Replace, GenFault, GivesUp
  <2> QED
    BY <1>1, <2>1
<1>3. CASE \E h \in Posters : Commit(h)
  <2>1. UNCHANGED processVars /\ UNCHANGED <<rules, bounds>> /\ tun' \in BOOLEAN
    BY <1>3 DEF Commit
  <2> QED
    BY <2>1 DEF TypeOK, processVars, bounds
<1>4. CASE InstallRules
  <2>1. UNCHANGED processVars /\ UNCHANGED <<tun, bounds>>
    BY <1>4 DEF InstallRules
  <2>2. rules' \in Routes
    BY <1>4 DEF InstallRules, SetupForRunning, TypeOK, Routes
  <2> QED
    BY <2>1, <2>2 DEF TypeOK, processVars, bounds
<1>5. CASE RemoveRules
  <2>1. UNCHANGED processVars /\ UNCHANGED <<tun, toggles, sync, deaths>> /\ Restore
    BY <1>5 DEF RemoveRules
  <2>2. rules' \in Routes /\ restoreFaults' \in 0..MaxRestoreFaults
    BY <2>1, RestoreType DEF TypeOK
  <2> QED
    BY <2>1, <2>2 DEF TypeOK, processVars
<1>6. CASE ReloadFails \/ Restarted
  <2>1. Next
    BY <1>6, ReconcileBounds DEF ReloadFails, Restarted, Next
  <2> QED
    BY <2>1, TypeStep
<1>7. ASSUME NEW c \in Callers, Calls(c)
      PROVE  TypeOK' /\ ([Next]_vars \/ UNCHANGED processVars)
  <2>1. Next
    BY <1>7 DEF Calls, Next
  <2> QED
    BY <2>1, TypeStep
<1>8. ASSUME NEW u \in Users, CallHandler(u) \/ Answered(u)
      PROVE  TypeOK' /\ ([Next]_vars \/ UNCHANGED processVars)
  <2>1. Next
    BY <1>8, ReconcileBounds DEF CallHandler, Answered, Next
  <2> QED
    BY <2>1, TypeStep
<1>9. ASSUME NEW u \in Starters, StartHandler(u)
      PROVE  TypeOK' /\ ([Next]_vars \/ UNCHANGED processVars)
  <2>1. Next \/ UNCHANGED vars
    BY <1>9, ReconcileBounds DEF StartHandler, Next
  <2> QED
    BY <1>1, <2>1, TypeStep
<1>10. ASSUME NEW k \in Kernels, Waits(k) \/ Exits(k)
       PROVE  TypeOK' /\ ([Next]_vars \/ UNCHANGED processVars)
  <2>1. Next
    BY <1>10 DEF Waits, Exits, Next
  <2> QED
    BY <2>1, TypeStep
<1> QED
  BY <1>2, <1>3, <1>4, <1>5, <1>6, <1>7, <1>8, <1>9, <1>10
  DEF ReconcileNext, WorkerStep, Beside, WorkerBeside

-----------------------------------------------------------------------------
(* Types. *)

(* The steps of a generation. *)
GenSteps == {"idle", "ready", "opened", "written", "done", "failed"}

(* What the worker's next step may be. *)
Proceeds ==
  \/ \E s \in WorkerSteps : worker' = [worker EXCEPT !.step = s]
  \/ \E ok \in BOOLEAN : Finish(ok)

(* It keeps its request. *)
LEMMA ProceedsType ==
  ASSUME worker \in Works, worker.step # "idle", Proceeds
  PROVE  worker' \in Works /\ worker'.step \in WorkerSteps /\ worker'.req = worker.req
<1>1. ASSUME NEW s \in WorkerSteps, worker' = [worker EXCEPT !.step = s]
      PROVE  worker' \in Works /\ worker'.step = s /\ worker'.req = worker.req
  <2>1. worker.ok \in BOOLEAN
    BY WorkFacts
  <2> QED
    BY <1>1, <2>1, WorkGoesOn
<1>2. ASSUME NEW ok \in BOOLEAN, Finish(ok)
      PROVE  worker' \in Works /\ worker'.step = "report" /\ worker'.req = worker.req
  <2>1. worker' = [worker EXCEPT !.step = "report", !.ok = ok]
    BY <1>2 DEF Finish
  <2>2. "report" \in WorkerSteps
    BY DEF WorkerSteps
  <2> QED
    BY <2>1, <2>2, WorkGoesOn
<1>3. "report" \in WorkerSteps
  BY DEF WorkerSteps
<1> QED
  BY <1>1, <1>2, <1>3 DEF Proceeds

(* What a worker's step from generate to cleanup does with the queue. *)
LEMMA WorkerProceeds ==
  ASSUME \/ Generated \/ CheckRunning \/ InstallRules \/ ReloadFails \/ Restarted
         \/ RemoveRules \/ \E k \in Kernels : Reload(k)
  PROVE  /\ Proceeds
         /\ worker.step # "idle"
         /\ UNCHANGED <<ver, post, queue, history, tmp, file, genFaults>>
<1>1. \A s \in {"check", "setup", "reload", "restart", "cleanup"} : s \in WorkerSteps
  BY DEF WorkerSteps
<1>2. CASE Generated
  BY <1>1, <1>2 DEF Generated, Proceeds, WorkerGo, faults
<1>3. CASE CheckRunning
  <2>1. FirstStep \in {"setup", "reload"}
    BY DEF FirstStep
  <2> QED
    BY <1>1, <1>3, <2>1 DEF CheckRunning, Proceeds, WorkerGo, files, faults
<1>4. CASE InstallRules
  <2>1. WorkerGo("setup", "reload") \/ Finish(FALSE)
    BY <1>4 DEF InstallRules
  <2> QED
    BY <1>1, <1>4, <2>1 DEF InstallRules, Proceeds, WorkerGo, files
<1>5. Taken => Proceeds
  BY <1>1 DEF Taken, Proceeds
<1>6. CASE ReloadFails \/ Restarted \/ \E k \in Kernels : Reload(k)
  <2>1. Proceeds
    BY <1>1, <1>5, <1>6 DEF ReloadFails, Restarted, Reload, WorkerGo, Proceeds
  <2> QED
    BY <1>6, <2>1 DEF ReloadFails, Restarted, Reload, WorkerGo, files, faults
<1>7. CASE RemoveRules
  BY <1>7 DEF RemoveRules, Proceeds, files, faults
<1> QED
  BY <1>2, <1>3, <1>4, <1>6, <1>7

(* The handlers' and the worker's variables keep their types. *)
LEMMA PipelineType ==
  ASSUME ReconcileTypeOK, [ReconcileNext]_allVars
  PROVE  /\ ver' \in 0..MaxCommits
         /\ post' \in [Posters -> Posts]
         /\ queue' \in Seq(Request) /\ Len(queue') <= QueueCap
         /\ worker' \in Works
<1> USE DEF ReconcileTypeOK
<1>1. CASE \E h \in Posters : Commit(h)
  <2>1. PICK h \in Posters : Commit(h)
    BY <1>1
  <2>2. ver' = ver + 1 /\ ver + 1 \in 0..MaxCommits /\ ver + 1 \in 1..MaxCommits
    BY <2>1, ReconcileBounds DEF Commit
  <2> DEFINE r == [by |-> h, ver |-> ver + 1, sync |-> tun' # tun, tun |-> tun']
  <2>3. r \in Request
    <3>1. tun' \in BOOLEAN /\ (tun' # tun) \in BOOLEAN
      BY <2>1 DEF Commit
    <3> QED
      BY <2>2, <3>1 DEF Request
  <2>4. [step |-> "committed", req |-> r] \in Posts
    BY <2>3 DEF Posts
  <2>5. post' = [post EXCEPT ![h] = [step |-> "committed", req |-> r]]
    BY <2>1 DEF Commit
  <2> QED
    BY <2>1, <2>2, <2>4, <2>5 DEF Commit
<1>2. CASE \E h \in Posters : Enqueue(h)
  <2>1. PICK h \in Posters : Enqueue(h)
    BY <1>2
  <2>2. post[h].req \in Request /\ post[h] = [step |-> "committed", req |-> post[h].req]
    BY <2>1, PostFacts DEF Enqueue
  <2>3. queue' \in Seq(Request) /\ Len(queue') = Len(queue) + 1
    BY <2>1, <2>2, AppendProperties DEF Enqueue
  <2>4. Len(queue') <= QueueCap
    BY <2>1, <2>3, ReconcileBounds, LenProperties DEF Enqueue, HasRoom
  <2>5. post' = [post EXCEPT ![h] = [step |-> "waiting", req |-> post[h].req]]
    <3>1. post' = [post EXCEPT ![h] = [post[h] EXCEPT !.step = "waiting"]]
      BY <2>1 DEF Enqueue
    <3>2. [post[h] EXCEPT !.step = "waiting"] = [step |-> "waiting", req |-> post[h].req]
      BY <2>2
    <3> QED
      BY <3>1, <3>2
  <2>6. [step |-> "waiting", req |-> post[h].req] \in Posts
    BY <2>2 DEF Posts
  <2> QED
    BY <2>1, <2>3, <2>4, <2>5, <2>6 DEF Enqueue
<1>3. CASE \E h \in Posters : PostTimesOut(h)
  BY <1>3, IdleRecords DEF PostTimesOut
<1>4. CASE Take
  <2>1. Head(queue) \in Request /\ Tail(queue) \in Seq(Request)
        /\ Len(Tail(queue)) = Len(queue) - 1
    BY <1>4, HeadTailProperties DEF Take
  <2>2. Len(queue') <= QueueCap
    BY <1>4, <2>1, ReconcileBounds, LenProperties DEF Take
  <2>3. worker' \in Works
    BY <1>4, <2>1 DEF Take, Works, WorkerSteps
  <2> QED
    BY <1>4, <2>1, <2>2, <2>3 DEF Take
<1>5. CASE Report
  BY <1>5, IdleRecords DEF Report
<1>6. CASE \/ Generated \/ CheckRunning \/ InstallRules \/ ReloadFails \/ Restarted
           \/ RemoveRules \/ \E k \in Kernels : Reload(k)
  BY <1>6, WorkerProceeds, ProceedsType
<1>7. CASE UNCHANGED <<ver, post, queue, worker>>
  BY <1>7
<1>8. CASE (\E c \in Callers : Snapshot(c) \/ GenStep(c) \/ Calls(c))
           \/ (\E u \in Starters : StartHandler(u))
           \/ (\E u \in Users : CallHandler(u) \/ Answered(u))
           \/ (\E k \in Kernels : Waits(k) \/ Exits(k))
  <2>1. UNCHANGED <<ver, post, queue, worker>>
    BY <1>8
    DEF Snapshot, GenStep, GenFails, Open, Write, Rename, RenameFails, WriteFails,
        ChmodFails, RenameRefused, Replace, GenFault, GivesUp, Calls,
        StartHandler, CallHandler, Answered, Waits, Exits, pipeline
  <2> QED
    BY <1>7, <2>1
<1> QED
  BY <1>1, <1>2, <1>3, <1>4, <1>5, <1>6, <1>7, <1>8, ReconcileBounds
  DEF ReconcileNext, WorkerStep, allVars, pipeline

(* A generation that goes on stays one of the same content. *)
LEMMA GenGoesOn ==
  ASSUME NEW g \in Gen, NEW s \in GenSteps
  PROVE  /\ [g EXCEPT !.step = s] \in Gen
         /\ [g EXCEPT !.step = s].step = s
         /\ [g EXCEPT !.step = s].cfg = g.cfg
         /\ [g EXCEPT !.step = s].place = g.place
  BY DEF Gen, GenSteps

(* The parts of a generation. *)
LEMMA GenFacts ==
  ASSUME NEW g \in Gen
  PROVE  g.step \in GenSteps /\ g.cfg \in Content /\ g.place \in Places
  BY DEF Gen, GenSteps

(* What a failed generation leaves. *)
LEMMA FailedGen ==
  /\ [NoGen EXCEPT !.step = "failed"] \in Gen
  /\ [NoGen EXCEPT !.step = "failed"].step = "failed"
  BY IdleRecords, GenGoesOn DEF GenSteps

(* What is written is the content, or torn. *)
LEMMA OverFiles ==
  ASSUME NEW f, NEW c \in Content, NEW g \in Over(f, c)
  PROVE  g \in Files /\ g \in {Whole(c), Torn}
  BY FileFacts DEF Over

(* The configuration that is generated. *)
LEMMA CommittedContent ==
  ASSUME ver \in 0..MaxCommits, tun \in BOOLEAN
  PROVE  Committed \in Content /\ Committed.ver = ver /\ Committed.tun = tun
  BY DEF Committed, Content

(* A step of one generation, and what it does to the files. *)
LEMMA GenStepEffect ==
  ASSUME ReconcileTypeOK, NEW c \in Callers, GenStep(c)
  PROVE  /\ UNCHANGED <<vars, ver, pipeline, loaded, setupFaults, reloadFaults>>
         /\ gen' \in [Callers -> Gen]
         /\ \A d \in Callers : d # c => gen'[d].step = gen[d].step /\ gen'[d].cfg = gen[d].cfg
         /\ \/ /\ gen[c].step = "ready" /\ gen'[c].step = "failed"
               /\ genFaults < MaxGenFaults /\ genFaults' = genFaults + 1
               /\ UNCHANGED <<tmp, file>>
            \/ /\ gen[c].step = "ready" /\ gen'[c].step = "opened"
               /\ gen'[c].cfg = gen[c].cfg /\ gen'[c].place = "tmp"
               /\ tmp' = Empty /\ UNCHANGED <<file, genFaults>>
            \/ /\ gen[c].step = "opened" /\ gen'[c].step = "written"
               /\ gen'[c].cfg = gen[c].cfg /\ gen'[c].place = gen[c].place
               /\ tmp' \in (IF gen[c].place = "tmp" THEN Over(tmp, gen[c].cfg) ELSE {tmp})
               /\ file' \in (IF gen[c].place = "file" THEN Over(file, gen[c].cfg) ELSE {file})
               /\ UNCHANGED genFaults
            \/ /\ gen[c].step = "written" /\ gen'[c].step = "done"
               /\ gen'[c].cfg = gen[c].cfg
               /\ tmp # Missing /\ file' = tmp /\ tmp' = Missing /\ UNCHANGED genFaults
            \/ /\ gen[c].step = "written" /\ gen'[c].step = "failed"
               /\ tmp = Missing /\ UNCHANGED <<tmp, file, genFaults>>
            \/ /\ gen[c].step = "opened" /\ gen'[c].step = "failed"
               /\ genFaults < MaxGenFaults /\ genFaults' = genFaults + 1
               /\ tmp' \in (IF gen[c].place = "tmp"
                              THEN Over(tmp, gen[c].cfg) \cup {tmp, Torn} ELSE {tmp})
               /\ file' \in (IF gen[c].place = "file"
                               THEN Over(file, gen[c].cfg) \cup {file, Torn} ELSE {file})
            \/ /\ gen[c].step = "written" /\ gen'[c].step = "failed"
               /\ gen'[c].cfg = gen[c].cfg
               /\ genFaults < MaxGenFaults /\ genFaults' = genFaults + 1
               /\ tmp # Missing /\ file' = tmp /\ tmp' = Missing
            \/ /\ gen[c].step = "written" /\ gen'[c].step = "failed"
               /\ genFaults < MaxGenFaults /\ genFaults' = genFaults + 1
               /\ tmp # Missing /\ tmp' = Missing /\ UNCHANGED file
<1>1. gen \in [Callers -> Gen] /\ gen[c] \in Gen /\ \A s \in {"failed", "opened", "written", "done"} : s \in GenSteps
  BY DEF GenSteps, ReconcileTypeOK
<1>2. ASSUME NEW this, NEW g \in Gen, Generate(c, this, g)
      PROVE  /\ gen[c].step = this /\ gen'[c] = g
             /\ gen' \in [Callers -> Gen]
             /\ \A d \in Callers : d # c => gen'[d] = gen[d]
  BY <1>1, <1>2 DEF Generate
<1>3. CASE GenFails(c)
  BY <1>2, <1>3, FailedGen DEF GenFails, GivesUp, GenFault
<1>4. CASE Open(c)
  <2>1. "tmp" \in Places
    BY DEF Places
  <2> DEFINE g == [gen[c] EXCEPT !.step = "opened", !.place = "tmp"]
  <2>2. g \in Gen /\ g.step = "opened" /\ g.cfg = gen[c].cfg /\ g.place = "tmp"
    BY <1>1, <2>1 DEF Gen, GenSteps
  <2>3. Generate(c, "ready", g)
    BY <1>4 DEF Open
  <2> QED
    BY <1>2, <1>4, <2>2, <2>3 DEF Open, faults
<1>5. CASE Write(c)
  <2> DEFINE g == [gen[c] EXCEPT !.step = "written"]
  <2>1. g \in Gen /\ g.step = "written" /\ g.cfg = gen[c].cfg /\ g.place = gen[c].place
    BY <1>1, GenGoesOn, GenFacts
  <2>2. Generate(c, "opened", g)
    BY <1>5 DEF Write
  <2> QED
    BY <1>2, <1>5, <2>1, <2>2 DEF Write, faults
<1>6. ASSUME NEW step \in {"done", "failed"}, Replace(c, step)
      PROVE  /\ gen' \in [Callers -> Gen]
             /\ \A d \in Callers : d # c => gen'[d].step = gen[d].step
                                          /\ gen'[d].cfg = gen[d].cfg
             /\ gen[c].step = "written" /\ gen'[c].step = step /\ gen'[c].cfg = gen[c].cfg
             /\ tmp # Missing /\ file' = tmp /\ tmp' = Missing
             /\ UNCHANGED <<vars, ver, pipeline, loaded>>
  <2>1. ASSUME NEW d \in Callers
        PROVE  /\ gen'[d] \in Gen /\ gen'[d].cfg = gen[d].cfg
               /\ gen'[d].step = IF d = c THEN step ELSE gen[d].step
    <3> DEFINE s == IF d = c THEN step ELSE gen[d].step
               p == Moved(gen[d].place)
    <3>1. gen[d] \in Gen /\ s \in GenSteps /\ p \in Places
      BY <1>1, GenFacts DEF Moved, Places
    <3>2. gen'[d] = [gen[d] EXCEPT !.step = s, !.place = p]
      BY <1>6 DEF Replace
    <3> HIDE DEF s, p
    <3>3. gen'[d] \in Gen /\ gen'[d].cfg = gen[d].cfg /\ gen'[d].step = s
      BY <3>1, <3>2 DEF Gen, GenSteps
    <3> QED
      BY <3>3 DEF s
  <2>2. gen' \in [Callers -> Gen]
    BY <1>6, <2>1 DEF Replace
  <2>3. /\ gen[c].step = "written" /\ tmp # Missing /\ file' = tmp /\ tmp' = Missing
        /\ UNCHANGED <<vars, ver, pipeline, loaded>>
    BY <1>6 DEF Replace
  <2> QED
    BY <2>1, <2>2, <2>3
<1>7. CASE RenameFails(c)
  BY <1>2, <1>7, FailedGen DEF RenameFails, GivesUp, faults
<1>8. CASE Rename(c)
  BY <1>6, <1>8 DEF Rename, faults
<1>9. CASE ChmodFails(c)
  BY <1>6, <1>9 DEF ChmodFails, GenFault
<1>10. CASE WriteFails(c)
  BY <1>2, <1>10, FailedGen DEF WriteFails, GivesUp, GenFault
<1>11. CASE RenameRefused(c)
  <2>1. ASSUME NEW d \in Callers
        PROVE  /\ gen'[d] \in Gen
               /\ IF d = c THEN gen'[d].step = "failed"
                           ELSE gen'[d].step = gen[d].step /\ gen'[d].cfg = gen[d].cfg
    <3>1. CASE d = c
      BY <1>11, <3>1, FailedGen DEF RenameRefused
    <3>2. CASE d # c
      <4> DEFINE p == IF gen[d].place = "tmp" THEN "gone" ELSE gen[d].place
      <4>1. gen[d] \in Gen /\ p \in Places
        BY <1>1, GenFacts DEF Places
      <4>2. gen'[d] = [gen[d] EXCEPT !.place = p]
        BY <1>11, <3>2 DEF RenameRefused
      <4> HIDE DEF p
      <4> QED
        BY <3>2, <4>1, <4>2 DEF Gen, GenSteps
    <3> QED
      BY <3>1, <3>2
  <2>2. gen' \in [Callers -> Gen]
    BY <1>11, <2>1 DEF RenameRefused
  <2> QED
    BY <1>11, <2>1, <2>2 DEF RenameRefused, GenFault
<1> QED
  BY <1>3, <1>4, <1>5, <1>7, <1>8, <1>9, <1>10, <1>11 DEF GenStep

(* The generations, the files and the counters keep their types. *)
LEMMA FilesType ==
  ASSUME ReconcileTypeOK, [ReconcileNext]_allVars
  PROVE  /\ gen' \in [Callers -> Gen]
         /\ tmp' \in Files /\ file' \in Files
         /\ loaded' \in [Kernels -> Files]
         /\ genFaults' \in 0..MaxGenFaults
         /\ setupFaults' \in 0..MaxSetupFaults
         /\ reloadFaults' \in 0..MaxReloadFaults
<1> DEFINE Typed ==
      /\ gen' \in [Callers -> Gen]
      /\ tmp' \in Files /\ file' \in Files
      /\ loaded' \in [Kernels -> Files]
      /\ genFaults' \in 0..MaxGenFaults
      /\ setupFaults' \in 0..MaxSetupFaults
      /\ reloadFaults' \in 0..MaxReloadFaults
<1>1. /\ gen \in [Callers -> Gen] /\ tmp \in Files /\ file \in Files
      /\ loaded \in [Kernels -> Files]
      /\ genFaults \in 0..MaxGenFaults /\ setupFaults \in 0..MaxSetupFaults
      /\ reloadFaults \in 0..MaxReloadFaults
  BY DEF ReconcileTypeOK
<1>2. CASE UNCHANGED <<files, loaded, faults>>
  BY <1>1, <1>2 DEF files, faults
<1>3. ASSUME NEW c \in Callers, GenStep(c) PROVE Typed
  <2>1. gen' \in [Callers -> Gen] /\ UNCHANGED <<loaded, setupFaults, reloadFaults>>
    BY <1>3, GenStepEffect
  <2>2. genFaults' = genFaults \/ (genFaults < MaxGenFaults /\ genFaults' = genFaults + 1)
    BY <1>3, GenStepEffect
  <2>3. genFaults' \in 0..MaxGenFaults
    BY <1>1, <2>2, ReconcileBounds
  <2>4. gen[c].cfg \in Content
    BY <1>1, GenFacts
  <2>5. tmp' \in {tmp, Empty, Missing, Torn} \cup Over(tmp, gen[c].cfg)
        /\ file' \in {file, tmp, Torn} \cup Over(file, gen[c].cfg)
    BY <1>3, GenStepEffect
  <2>6. tmp' \in Files /\ file' \in Files
    BY <1>1, <2>4, <2>5, OverFiles, FileFacts
  <2> QED
    BY <1>1, <2>1, <2>3, <2>6
<1>4. ASSUME NEW c \in Callers, Snapshot(c) PROVE Typed
  <2> DEFINE g == [step |-> "ready", cfg |-> Committed, place |-> "gone"]
  <2>1. g \in Gen
    <3>1. Committed \in Content
      BY CommittedContent DEF ReconcileTypeOK, TypeOK
    <3> QED
      BY <3>1 DEF Gen, Places
  <2>2. gen' = [gen EXCEPT ![c] = g] /\ UNCHANGED <<tmp, file, loaded, faults>>
    BY <1>4 DEF Snapshot, Generate, Current
  <2> HIDE DEF g
  <2> QED
    BY <1>1, <2>1, <2>2 DEF faults
<1>5. CASE Generated
  BY <1>1, <1>5, IdleRecords DEF Generated, faults
<1>6. ASSUME NEW u \in Starters, StartHandler(u) PROVE Typed
  BY <1>1, <1>6, IdleRecords DEF StartHandler, faults
<1>7. CASE InstallRules
  <2>1. \/ UNCHANGED setupFaults
        \/ setupFaults < MaxSetupFaults /\ setupFaults' = setupFaults + 1
    BY <1>7 DEF InstallRules
  <2>2. setupFaults' \in 0..MaxSetupFaults
    BY <1>1, <2>1, ReconcileBounds
  <2> QED
    BY <1>1, <1>7, <2>2 DEF InstallRules, files
<1>8. ASSUME NEW k \in Kernels, Reload(k) PROVE Typed
  BY <1>1, <1>8 DEF Reload, files, faults
<1>9. CASE ReloadFails
  BY <1>1, <1>9, ReconcileBounds DEF ReloadFails, files
<1>10. ASSUME NEW c \in Callers, Calls(c) PROVE Typed
  BY <1>1, <1>10 DEF Calls, Reads, files, faults
<1>11. CASE \/ \E h \in Posters : Commit(h) \/ Enqueue(h) \/ PostTimesOut(h)
            \/ Take \/ CheckRunning \/ Restarted \/ RemoveRules \/ Report
            \/ (\E u \in Users : CallHandler(u) \/ Answered(u))
            \/ (\E k \in Kernels : Waits(k) \/ Exits(k))
            \/ UNCHANGED allVars
  <2>1. UNCHANGED <<files, loaded, faults>>
    BY <1>11
    DEF Commit, Enqueue, PostTimesOut, Take, CheckRunning, Restarted, RemoveRules,
        Report, CallHandler, Answered, Waits, Exits, allVars
  <2> QED
    BY <1>2, <2>1
<1> QED
  BY <1>3, <1>4, <1>5, <1>6, <1>7, <1>8, <1>9, <1>10, <1>11, ReconcileBounds
  DEF ReconcileNext, WorkerStep

(* The history variables keep their type. *)
LEMMA HistoryType ==
  ASSUME {swapped, aside} \subseteq BOOLEAN, [ReconcileNext]_allVars
  PROVE  {swapped, aside}' \subseteq BOOLEAN
<1>1. CASE \E h \in Posters : Enqueue(h)
  <2>1. PICK h \in Posters : Enqueue(h)
    BY <1>1
  <2>2. Overtakes(h) \in BOOLEAN
    BY DEF Overtakes
  <2> QED
    BY <2>1, <2>2 DEF Enqueue
<1>2. CASE \E c \in Callers : Snapshot(c)
  BY <1>2 DEF Snapshot
<1>3. CASE \/ \E h \in Posters : Commit(h) \/ PostTimesOut(h)
           \/ Take \/ Generated \/ CheckRunning \/ InstallRules \/ ReloadFails
           \/ Restarted \/ RemoveRules \/ Report
           \/ (\E k \in Kernels : Reload(k) \/ Waits(k) \/ Exits(k))
           \/ (\E c \in Callers : GenStep(c) \/ Calls(c))
           \/ (\E u \in Starters : StartHandler(u))
           \/ (\E u \in Users : CallHandler(u) \/ Answered(u))
           \/ UNCHANGED allVars
  <2>1. UNCHANGED history
    BY <1>3
    DEF Commit, PostTimesOut, Take, Generated, CheckRunning, InstallRules,
        ReloadFails, Restarted, RemoveRules, Report, Reload, Waits, Exits, GenStep,
        GenFails, Open, Write, Rename, RenameFails, WriteFails,
        ChmodFails, RenameRefused, Replace, GenFault, GivesUp, Calls, StartHandler,
        CallHandler, Answered, allVars, pipeline
  <2> QED
    BY <2>1 DEF history
<1> QED
  BY <1>1, <1>2, <1>3, ReconcileBounds DEF ReconcileNext, WorkerStep

(* Every step keeps the types. *)
LEMMA ReconcileTypeStep ==
  ASSUME ReconcileTypeOK, [ReconcileNext]_allVars
  PROVE  ReconcileTypeOK'
<1>1. TypeOK'
  BY ProcessStep DEF ReconcileTypeOK
<1>2. {swapped, aside}' \subseteq BOOLEAN
  BY HistoryType DEF ReconcileTypeOK
<1> QED
  BY <1>1, <1>2, PipelineType, FilesType DEF ReconcileTypeOK

-----------------------------------------------------------------------------
(* The inductive invariant. *)

(* What MihomoProcess knows of the kernels; and a kernel that is said to    *)
(* run has been spawned.                                                    *)
ManagerInv ==
  /\ StarterHoldsLock
  /\ LiveIsTracked
  /\ UnbornAfterCmd
  /\ running => cmd # 0

(* The worker generates and restarts only at the step that is there for it. *)
OneThingAtATime ==
  /\ worker.step # "generate" => gen[Worker].step = "idle"
  /\ worker.step # "restart" => op[Worker].step = "idle"
  /\ worker.step = "restart" => op[Worker].step # "idle" /\ op[Worker].kind = "restart"

(* No request and no generated content is newer than the configuration. *)
NothingIsAhead ==
  /\ \A h \in Posters : post[h].step # "idle" => post[h].req.ver <= ver
  /\ \A i \in 1..Len(queue) : queue[i].ver <= ver
  /\ worker.step # "idle" => worker.req.ver <= ver
  /\ \A c \in Callers : gen[c].step \notin {"idle", "failed"} => gen[c].cfg.ver <= ver
  /\ tmp.ver <= ver /\ file.ver <= ver

(* A snapshot of the present version is the committed configuration. *)
SnapshotsAreTrue ==
  \A c \in Callers : gen[c].step \notin {"idle", "failed"} /\ gen[c].cfg.ver = ver
                       => gen[c].cfg = Committed

(* As long as the start handler has not generated, the worker finds its own *)
(* content in the temporary file and leaves it in the kernel's.             *)
WritesAlone ==
  /\ \A c \in Callers \ {Worker} : gen[c].step = "idle"
  /\ gen[Worker].step = "opened" => gen[Worker].place = "tmp" /\ tmp = Empty
  /\ gen[Worker].step = "written" => tmp = Whole(gen[Worker].cfg)
  /\ gen[Worker].step = "done" => file = Whole(gen[Worker].cfg)
  /\ gen[Worker].step \in {"ready", "opened", "written"} => file.ver <= gen[Worker].cfg.ver
  /\ FileIsWhole

(* The worker has got past the generation of its request. *)
Past ==
  \/ worker.step \in {"check", "setup", "reload", "restart", "cleanup"}
  \/ worker.step = "report" /\ worker.ok

(* The kernel has taken what was generated, or runs no more. *)
Applied ==
  \/ worker.step = "cleanup"
  \/ worker.step = "report" /\ worker.ok
  \/ worker.step = "restart" /\ op[Worker].step \in {"settle", "ok"}

(* What was generated is in the file, and what was applied is loaded. *)
AppliedInv ==
  /\ Past => file.state = "whole" /\ file.ver >= worker.req.ver
  /\ Applied => \A k \in Kernels :
       kernel[k].life = "alive" => loaded[k].ver >= worker.req.ver

(* The last commit is in the file, or on its way there. *)
Pending ==
  \/ \E h \in Posters : post[h].step = "committed"
  \/ queue # <<>>
  \/ worker.step = "generate" /\ gen[Worker].step = "idle"
  \/ gen[Worker].step \in {"ready", "opened", "written"} /\ gen[Worker].cfg = Committed
  \/ file = Whole(Committed)

(* Everything that is true of every state. *)
RInv ==
  /\ ReconcileTypeOK
  /\ ManagerInv
  /\ OneThingAtATime
  /\ NothingIsAhead
  /\ SnapshotsAreTrue
  /\ SnapshotCoversRequest
  /\ ~aside => WritesAlone
  /\ ~aside => AppliedInv
  /\ ~aside /\ genFaults = 0 /\ ver > 0 => Pending

-----------------------------------------------------------------------------
(* The inductive invariant, conjunct by conjunct. *)

(* A kernel that is said to run has been spawned. *)
LEMMA RunningStep ==
  ASSUME TypeOK, StarterHoldsLock, LiveIsTracked, running => cmd # 0, [Next]_vars
  PROVE  running' => cmd' # 0
<1>1. ASSUME NEW c \in Callers, Spawn(c) PROVE cmd' # 0
  BY <1>1, SpawnMoves, BoundTypes DEF Kernels
<1>2. ASSUME NEW c \in Callers,
             \/ Outside(c) \/ LockStart(c) \/ Refuse(c) \/ Prepare(c)
             \/ PrepareFails(c) \/ SpawnFails(c)
      PROVE  UNCHANGED <<cmd, running>>
  BY <1>2, CallersKeepKernels
<1>3. ASSUME NEW k \in Kernels, WaiterStep(k) \/ KernelStep(k)
      PROVE  cmd' = cmd /\ (running' = running \/ running' = FALSE)
  BY <1>3 DEF WaiterStep, KernelStep, Reap, Mark, Cleanup, Notify, Killed,
              Terminated, Dies, Die
<1>4. CASE Toggle \/ SyncStep \/ UNCHANGED vars
  BY <1>4, SyncKeeps
<1> QED
  BY <1>1, <1>2, <1>3, <1>4, NextCases

(* The kernels of a reconciled daemon are those of MihomoProcess. *)
LEMMA ManagerStep ==
  ASSUME TypeOK, ManagerInv, [ReconcileNext]_allVars
  PROVE  ManagerInv'
<1>1. CASE [Next]_vars
  BY <1>1, StarterStep, TrackedStep, RunningStep DEF ManagerInv
<1>2. CASE UNCHANGED processVars
  BY <1>2 DEF processVars, ManagerInv, StarterHoldsLock, LiveIsTracked,
              UnbornAfterCmd, Unpublished
<1> QED
  BY <1>1, <1>2, ProcessStep

(* The worker's steps between Take and Report. *)
WorkerAdvances ==
  \/ Generated \/ CheckRunning \/ InstallRules \/ ReloadFails \/ Restarted
  \/ RemoveRules \/ \E k \in Kernels : Reload(k)

(* Who moves the worker. *)
LEMMA WorkerMoves ==
  ASSUME [ReconcileNext]_allVars
  PROVE  UNCHANGED worker \/ Take \/ Report \/ WorkerAdvances
  BY DEF ReconcileNext, WorkerStep, WorkerAdvances, allVars, pipeline, Commit,
         Enqueue, PostTimesOut, Snapshot, GenStep, GenFails, Open, Write, Rename,
         RenameFails, WriteFails,
         ChmodFails, RenameRefused, Replace, GenFault, GivesUp,
         Calls, StartHandler, CallHandler, Answered, Waits, Exits

(* Who moves a generation. *)
LEMMA GenMoves ==
  ASSUME ReconcileTypeOK, [ReconcileNext]_allVars, NEW d \in Callers
  PROVE  \/ /\ gen'[d].step = gen[d].step /\ gen'[d].cfg = gen[d].cfg
            /\ gen'[d].place = gen[d].place \/ \E c \in Callers \ {d} : GenStep(c)
         \/ GenStep(d) \/ Snapshot(d)
         \/ d = Worker /\ Generated
         \/ d # Worker /\ d \in Starters /\ StartHandler(d)
<1>1. ASSUME NEW c \in Callers, GenStep(c), d # c
      PROVE  gen'[d].step = gen[d].step /\ gen'[d].cfg = gen[d].cfg
  BY <1>1, GenStepEffect
<1>2. ASSUME NEW c \in Callers, Snapshot(c), d # c PROVE gen'[d] = gen[d]
  BY <1>2 DEF Snapshot, Generate, ReconcileTypeOK
<1>3. ASSUME Generated, d # Worker PROVE gen'[d] = gen[d]
  BY <1>3 DEF Generated, ReconcileTypeOK
<1>4. ASSUME NEW u \in Starters, StartHandler(u), d # u PROVE gen'[d] = gen[d]
  BY <1>4 DEF StartHandler, ReconcileTypeOK
<1>5. CASE \/ \E h \in Posters : Commit(h) \/ Enqueue(h) \/ PostTimesOut(h)
           \/ Take \/ CheckRunning \/ InstallRules \/ ReloadFails
           \/ Restarted \/ RemoveRules \/ Report
           \/ (\E k \in Kernels : Reload(k) \/ Waits(k) \/ Exits(k))
           \/ (\E c \in Callers : Calls(c))
           \/ (\E u \in Users : CallHandler(u) \/ Answered(u))
           \/ UNCHANGED allVars
  <2>1. UNCHANGED gen
    BY <1>5
    DEF Commit, Enqueue, PostTimesOut, Take, CheckRunning, InstallRules, ReloadFails,
        Restarted, RemoveRules, Report, Reload, Waits, Exits, Calls, CallHandler,
        Answered, allVars, files
  <2> QED
    BY <2>1
<1> QED
  BY <1>1, <1>2, <1>3, <1>4, <1>5, ReconcileBounds DEF ReconcileNext, WorkerStep

(* Who moves the worker's call. *)
LEMMA WorkerCallMoves ==
  ASSUME ReconcileTypeOK, [ReconcileNext]_allVars
  PROVE  op'[Worker] = op[Worker] \/ ReloadFails \/ Restarted \/ Calls(Worker)
<1>1. Worker \in Callers /\ op \in [Callers -> Op]
  BY ReconcileBounds DEF ReconcileTypeOK, TypeOK
<1>2. ASSUME NEW c \in Callers, c # Worker,
             BeginStart(c) \/ BeginStop(c) \/ BeginRestart(c) \/ Return(c) \/ CallerStep(c)
      PROVE  op'[Worker] = op[Worker]
  BY <1>1, <1>2, OthersKeep
<1>3. ASSUME NEW u \in Users,
             \/ CallHandler(u) \/ Answered(u)
             \/ u \in Starters /\ StartHandler(u)
      PROVE  op'[Worker] = op[Worker]
  <2>1. u \in Callers /\ u # Worker
    BY ReconcileBounds
  <2>2. \/ BeginStart(u) \/ BeginStop(u) \/ BeginRestart(u) \/ Return(u)
        \/ UNCHANGED op
    BY <1>3 DEF CallHandler, Answered, StartHandler, vars, processVars
  <2> QED
    BY <1>2, <2>1, <2>2
<1>4. ASSUME NEW c \in Callers, Calls(c), c # Worker PROVE op'[Worker] = op[Worker]
  BY <1>2, <1>4 DEF Calls
<1>5. ASSUME NEW k \in Kernels, Waits(k) \/ Exits(k) PROVE UNCHANGED op
  <2>1. WaiterStep(k) \/ KernelStep(k)
    BY <1>5 DEF Waits, Exits
  <2> QED
    BY <2>1, KernelMoves DEF ReconcileTypeOK
<1>6. CASE \/ \E h \in Posters : Commit(h) \/ Enqueue(h) \/ PostTimesOut(h)
           \/ Take \/ Generated \/ CheckRunning \/ InstallRules \/ RemoveRules \/ Report
           \/ (\E k \in Kernels : Reload(k))
           \/ (\E c \in Callers : Snapshot(c) \/ GenStep(c))
           \/ UNCHANGED allVars
  <2>1. UNCHANGED op
    BY <1>6
    DEF Commit, Enqueue, PostTimesOut, Take, Generated, CheckRunning, InstallRules,
        RemoveRules, Report, Reload, Snapshot, GenStep, GenFails, Open, Write,
        Rename, RenameFails, WriteFails,
        ChmodFails, RenameRefused, Replace, GenFault, GivesUp, allVars, vars, processVars
  <2> QED
    BY <2>1
<1> QED
  BY <1>3, <1>4, <1>5, <1>6, ReconcileBounds DEF ReconcileNext, WorkerStep

(* A call that goes on is still the same call. *)
LEMMA CallGoesOn ==
  ASSUME TypeOK, NEW c \in Callers, CallerStep(c)
  PROVE  /\ op[c].step # "idle" /\ op'[c].step # "idle"
         /\ op'[c].kind = op[c].kind
         /\ op'[c].step = "ok" => op[c].kind # "restart" \/ op[c].step = "settle"
         /\ op'[c].step = "settle" => Spawn(c)
<1> USE DEF TypeOK
<1>1. ASSUME NEW this, NEW that, Go(c, this, that)
      PROVE  op[c].step = this /\ op'[c].step = that /\ op'[c].kind = op[c].kind
  BY <1>1 DEF Go, Op
<1>2. CASE LockStart(c) \/ Refuse(c) \/ PrepareFails(c) \/ SpawnFails(c)
  BY <1>1, <1>2 DEF LockStart, Refuse, PrepareFails, SpawnFails
<1>3. CASE Prepare(c) \/ Spawn(c) \/ Rollback(c)
  BY <1>3 DEF Prepare, Spawn, Rollback, Op
<1>4. CASE SettleExited(c) \/ SettleOver(c)
  BY <1>1, <1>4 DEF SettleExited, SettleOver
<1>5. CASE LookUp(c)
  <2>1. CASE running
    <3>1. op[c].step = "stop" /\ op' = [op EXCEPT ![c].step = "term", ![c].target = cmd]
      BY <1>5, <2>1 DEF LookUp
    <3>2. op[c] \in Op /\ op'[c] = [op[c] EXCEPT !.step = "term", !.target = cmd]
      BY <3>1
    <3>3. op'[c].step = "term" /\ op'[c].kind = op[c].kind
      BY <3>2 DEF Op
    <3> QED
      BY <3>1, <3>3
  <2>2. CASE ~running
    <3>1. PICK s \in {"start", "not running"} : op' = [op EXCEPT ![c].step = s]
      BY <1>5, <2>2 DEF LookUp
    <3>2. op[c].step = "stop" /\ op'[c].step = s /\ op'[c].kind = op[c].kind
      BY <1>5, <3>1 DEF LookUp, Op
    <3> QED
      BY <3>2
  <2> QED
    BY <2>1, <2>2
<1>6. CASE Term(c) \/ Kill(c)
  <2>1. \E this \in {"term", "kill"}, that \in {"wait term", "wait kill", "error"} :
          Go(c, this, that)
    BY <1>6 DEF Term, Kill, Signal
  <2>2. /\ op[c].step \in {"term", "kill"}
        /\ op'[c].step \in {"wait term", "wait kill", "error"}
        /\ op'[c].kind = op[c].kind
    BY <1>1, <2>1
  <2> QED
    BY <2>2
<1>7. CASE Receive(c) \/ TermTimesOut(c) \/ KillTimesOut(c)
  <2>1. \E this \in {"wait term", "wait kill"}, that \in {Stopped(c), "kill"} :
          Go(c, this, that)
    BY <1>7 DEF Receive, TermTimesOut, KillTimesOut
  <2>2. /\ op[c].step \in {"wait term", "wait kill"}
        /\ op'[c].step \in {Stopped(c), "kill"}
        /\ op'[c].kind = op[c].kind
    BY <1>1, <2>1
  <2> QED
    BY <2>2 DEF Stopped
<1> QED
  BY <1>2, <1>3, <1>4, <1>5, <1>6, <1>7 DEF CallerStep

(* The path of a request through the worker. *)
LEMMA WorkerPath ==
  ASSUME worker \in Works, WorkerAdvances
  PROVE  /\ worker'.req = worker.req
         /\ Generated =>
              /\ worker.step = "generate"
              /\ \/ gen[Worker].step = "done" /\ worker'.step = "check"
                 \/ gen[Worker].step = "failed" /\ worker'.step = "report" /\ ~worker'.ok
         /\ CheckRunning =>
              /\ worker.step = "check"
              /\ \/ running /\ worker'.step \in {"setup", "reload"}
                 \/ ~running /\ worker'.step = "report" /\ worker'.ok
         /\ InstallRules =>
              /\ worker.step = "setup"
              /\ \/ worker'.step = "reload"
                 \/ worker'.step = "report" /\ ~worker'.ok
         /\ ReloadFails => worker.step = "reload" /\ worker'.step = "restart"
         /\ (\E k \in Kernels : Reload(k)) =>
              /\ worker.step = "reload"
              /\ worker'.step = "cleanup" \/ (worker'.step = "report" /\ worker'.ok)
         /\ Restarted =>
              /\ worker.step = "restart"
              /\ \/ op[Worker].step # "ok" /\ worker'.step = "report" /\ ~worker'.ok
                 \/ /\ op[Worker].step = "ok"
                    /\ worker'.step = "cleanup" \/ (worker'.step = "report" /\ worker'.ok)
         /\ RemoveRules => worker.step = "cleanup" /\ worker'.step = "report"
<1>0. \A s \in {"check", "setup", "reload", "restart", "cleanup", "report"} : s \in WorkerSteps
  BY DEF WorkerSteps
<1>1. ASSUME NEW this, NEW that \in WorkerSteps, this # "idle", WorkerGo(this, that)
      PROVE  worker.step = this /\ worker'.step = that /\ worker'.req = worker.req
  <2>1. worker.ok \in BOOLEAN
    BY <1>1, WorkFacts DEF WorkerGo
  <2> QED
    BY <1>1, <2>1, WorkGoesOn DEF WorkerGo
<1>2. ASSUME NEW ok \in BOOLEAN, worker.step # "idle", Finish(ok)
      PROVE  worker'.step = "report" /\ worker'.ok = ok /\ worker'.req = worker.req
  <2>1. worker' = [worker EXCEPT !.step = "report", !.ok = ok]
    BY <1>2 DEF Finish
  <2>2. "report" \in WorkerSteps
    BY <1>0
  <2> QED
    BY <1>2, <2>1, <2>2, WorkGoesOn
<1>3. ASSUME worker.step # "idle", Taken
      PROVE  /\ worker'.req = worker.req
             /\ worker'.step = "cleanup" \/ (worker'.step = "report" /\ worker'.ok)
  <2>1. CASE TurnsOff
    <3>1. WorkerGo(worker.step, "cleanup")
      BY <1>3, <2>1 DEF Taken, WorkerGo
    <3> QED
      BY <1>0, <1>1, <1>3, <3>1
  <2>2. CASE ~TurnsOff
    BY <1>2, <1>3, <2>2 DEF Taken
  <2> QED
    BY <2>1, <2>2
<1>4. ASSUME Generated
      PROVE  /\ worker.step = "generate" /\ worker'.req = worker.req
             /\ \/ gen[Worker].step = "done" /\ worker'.step = "check"
                \/ gen[Worker].step = "failed" /\ worker'.step = "report" /\ ~worker'.ok
  BY <1>0, <1>1, <1>2, <1>4 DEF Generated
<1>5. ASSUME CheckRunning
      PROVE  /\ worker.step = "check" /\ worker'.req = worker.req
             /\ \/ running /\ worker'.step \in {"setup", "reload"}
                \/ ~running /\ worker'.step = "report" /\ worker'.ok
  BY <1>0, <1>1, <1>2, <1>5 DEF CheckRunning, FirstStep
<1>6. ASSUME InstallRules
      PROVE  /\ worker.step = "setup" /\ worker'.req = worker.req
             /\ \/ worker'.step = "reload"
                \/ worker'.step = "report" /\ ~worker'.ok
  <2>1. worker.step = "setup" /\ (WorkerGo("setup", "reload") \/ Finish(FALSE))
    BY <1>6 DEF InstallRules
  <2> QED
    BY <1>0, <1>1, <1>2, <2>1
<1>7. ASSUME ReloadFails
      PROVE  worker.step = "reload" /\ worker'.step = "restart" /\ worker'.req = worker.req
  BY <1>0, <1>1, <1>7 DEF ReloadFails
<1>8. ASSUME NEW k \in Kernels, Reload(k)
      PROVE  /\ worker.step = "reload" /\ worker'.req = worker.req
             /\ worker'.step = "cleanup" \/ (worker'.step = "report" /\ worker'.ok)
  BY <1>3, <1>8 DEF Reload
<1>9. ASSUME Restarted
      PROVE  /\ worker.step = "restart" /\ worker'.req = worker.req
             /\ \/ op[Worker].step # "ok" /\ worker'.step = "report" /\ ~worker'.ok
                \/ /\ op[Worker].step = "ok"
                   /\ worker'.step = "cleanup" \/ (worker'.step = "report" /\ worker'.ok)
  BY <1>2, <1>3, <1>9 DEF Restarted
<1>10. ASSUME RemoveRules
       PROVE  /\ worker.step = "cleanup" /\ worker'.step = "report"
              /\ worker'.req = worker.req
  <2>1. worker.step = "cleanup" /\ \E ok \in BOOLEAN : Finish(ok)
    BY <1>10 DEF RemoveRules
  <2> QED
    BY <1>2, <2>1
<1>11. worker'.req = worker.req
  BY <1>4, <1>5, <1>6, <1>7, <1>8, <1>9, <1>10 DEF WorkerAdvances
<1> QED
  BY <1>4, <1>5, <1>6, <1>7, <1>8, <1>9, <1>10, <1>11

(* The worker's call is in progress exactly while it restarts the kernel. *)
LEMMA OneThingStep ==
  ASSUME ReconcileTypeOK, OneThingAtATime, [ReconcileNext]_allVars
  PROVE  OneThingAtATime'
<1>1. worker'.step # "generate" => gen'[Worker].step = "idle"
  <2>1. Worker \in Callers
    BY ReconcileBounds
  <2>2. CASE Generated
    BY <2>1, <2>2, IdleRecords DEF Generated, ReconcileTypeOK
  <2>3. CASE Snapshot(Worker)
    BY <2>3 DEF Snapshot
  <2>4. CASE GenStep(Worker)
    <3>1. gen[Worker].step # "idle" /\ UNCHANGED worker
      BY <2>1, <2>4, GenStepEffect DEF pipeline
    <3> QED
      BY <3>1 DEF OneThingAtATime
  <2>5. CASE ~Generated /\ gen'[Worker].step = gen[Worker].step
    <3>1. worker.step = "generate" => worker'.step = "generate"
      BY <2>5, WorkerMoves
      DEF WorkerAdvances, Take, Report, CheckRunning, InstallRules, ReloadFails, Restarted,
          RemoveRules, Reload, WorkerGo
    <3> QED
      BY <2>5, <3>1 DEF OneThingAtATime
  <2> QED
    BY <2>1, <2>2, <2>3, <2>4, <2>5, GenMoves
<1>2. /\ worker'.step # "restart" => op'[Worker].step = "idle"
      /\ worker'.step = "restart" => op'[Worker].step # "idle" /\ op'[Worker].kind = "restart"
  <2>1. Worker \in Callers /\ op \in [Callers -> Op] /\ worker \in Works
    BY ReconcileBounds DEF ReconcileTypeOK, TypeOK
  <2>2. CASE ReloadFails
    <3>1. worker'.step = "restart"
      BY <2>1, <2>2, WorkerPath DEF WorkerAdvances
    <3>2. op'[Worker] = [NoOp EXCEPT !.kind = "restart", !.step = "stop"]
      BY <2>1, <2>2 DEF ReloadFails, BeginRestart, Begin
    <3> QED
      BY <3>1, <3>2 DEF NoOp
  <2>3. CASE Restarted
    <3>1. worker'.step \in {"cleanup", "report"}
      BY <2>1, <2>3, WorkerPath DEF WorkerAdvances, Restarted
    <3>2. op'[Worker] = NoOp
      BY <2>1, <2>3 DEF Restarted, Return
    <3> QED
      BY <3>1, <3>2, IdleTypes
  <2>4. CASE Calls(Worker)
    <3>1. UNCHANGED worker
      BY <2>4 DEF Calls, pipeline
    <3>2. op[Worker].step # "idle" /\ op'[Worker].step # "idle"
          /\ op'[Worker].kind = op[Worker].kind
      BY <2>1, <2>4, CallGoesOn DEF Calls, ReconcileTypeOK
    <3> QED
      BY <3>1, <3>2 DEF OneThingAtATime
  <2>5. CASE op'[Worker] = op[Worker] /\ ~ReloadFails /\ ~Restarted
    <3>1. worker'.step = "restart" <=> worker.step = "restart"
      <4>1. CASE WorkerAdvances
        BY <2>1, <2>5, <4>1, WorkerPath DEF WorkerAdvances
      <4>2. CASE UNCHANGED worker \/ Take \/ Report
        BY <4>2 DEF Take, Report, NoWork
      <4> QED
        BY <4>1, <4>2, WorkerMoves
    <3> QED
      BY <2>5, <3>1 DEF OneThingAtATime
  <2> QED
    BY <2>2, <2>3, <2>4, <2>5, WorkerCallMoves
<1> QED
  BY <1>1, <1>2 DEF OneThingAtATime

(* Who commits, and who moves the handlers and the queue. *)
LEMMA PostMoves ==
  ASSUME [ReconcileNext]_allVars
  PROVE  \/ \E h \in Posters : Commit(h)
         \/ \E h \in Posters : Enqueue(h)
         \/ \E h \in Posters : PostTimesOut(h)
         \/ Take
         \/ Report
         \/ UNCHANGED <<ver, post, queue>>
<1>1. CASE WorkerAdvances
  BY <1>1, WorkerProceeds DEF WorkerAdvances
<1>2. CASE \/ \E c \in Callers : Snapshot(c) \/ GenStep(c) \/ Calls(c)
           \/ \E u \in Starters : StartHandler(u)
           \/ \E u \in Users : CallHandler(u) \/ Answered(u)
           \/ \E k \in Kernels : Waits(k) \/ Exits(k)
           \/ UNCHANGED allVars
  BY <1>2
  DEF Snapshot, GenStep, GenFails, Open, Write, Rename, RenameFails, WriteFails,
      ChmodFails, RenameRefused, Replace, GenFault, GivesUp, Calls,
      StartHandler, CallHandler, Answered, Waits, Exits, pipeline, allVars
<1> QED
  BY <1>1, <1>2, ReconcileBounds DEF ReconcileNext, WorkerStep, WorkerAdvances

(* Versions only grow, by a commit and by one. *)
LEMMA VersionsGrow ==
  ASSUME ReconcileTypeOK, [ReconcileNext]_allVars
  PROVE  /\ ver \in Nat /\ ver' \in Nat
         /\ ver' = ver \/ (ver' = ver + 1 /\ \E h \in Posters : Commit(h))
         /\ UNCHANGED tun \/ ver' = ver + 1
<1>1. ver \in Nat
  BY DEF ReconcileTypeOK
<1>2. ver' = ver \/ (ver' = ver + 1 /\ \E h \in Posters : Commit(h))
  BY PostMoves DEF Commit, Enqueue, PostTimesOut, Take, Report
<1>3. UNCHANGED tun \/ \E h \in Posters : Commit(h)
  <2>1. CASE UNCHANGED vars \/ \E h \in Posters : Commit(h)
    BY <2>1 DEF vars, Commit
  <2>2. CASE Beside \/ UNCHANGED allVars
    BY <2>2
    DEF allVars, Beside, Enqueue, PostTimesOut, WorkerBeside, Take, Snapshot, Generated,
        CheckRunning, Report, Reload, GenStep, GenFails, Open, Write, Rename,
        RenameFails, WriteFails,
        ChmodFails, RenameRefused, Replace, GenFault, GivesUp, vars
  <2>3. CASE InstallRules \/ RemoveRules \/ ReloadFails \/ Restarted
    BY <2>3 DEF InstallRules, RemoveRules, ReloadFails, Restarted, BeginRestart, Begin, Return
  <2>4. CASE \/ \E c \in Callers : CallerStep(c) \/ Return(c)
             \/ \E c \in Callers : BeginStart(c) \/ BeginStop(c) \/ BeginRestart(c)
             \/ \E k \in Kernels : WaiterStep(k) \/ KernelStep(k)
    BY <2>4
    DEF CallerStep, Return, BeginStart, BeginStop, BeginRestart, Begin, LockStart,
        Refuse, Prepare, PrepareFails, Spawn, SpawnFails, Rollback, SettleExited,
        SettleOver, LookUp, Term, Receive, TermTimesOut, Kill, KillTimesOut, Signal,
        WaiterStep, Reap, Mark, Cleanup, Notify, KernelStep, Killed, Terminated,
        Dies, Die
  <2> QED
    BY <2>1, <2>2, <2>3, <2>4, ReconcileBounds
    DEF ReconcileNext, WorkerStep, Beside, WorkerBeside, Calls, StartHandler,
        CallHandler, Answered, Waits, Exits
<1>4. (\E h \in Posters : Commit(h)) => ver' = ver + 1
  BY DEF Commit
<1> QED
  BY <1>1, <1>2, <1>3, <1>4

(* Requests are made for versions that are committed. *)
LEMMA RequestsStep ==
  ASSUME ReconcileTypeOK, NothingIsAhead, [ReconcileNext]_allVars
  PROVE  /\ \A h \in Posters : post'[h].step # "idle" => post'[h].req.ver <= ver'
         /\ \A i \in 1..Len(queue') : queue'[i].ver <= ver'
         /\ worker'.step # "idle" => worker'.req.ver <= ver'
<1>1. /\ post \in [Posters -> Posts] /\ queue \in Seq(Request) /\ worker \in Works
      /\ ver \in Nat /\ ver' \in Nat
  BY VersionsGrow DEF ReconcileTypeOK
<1>2. \A r \in Request : r.ver \in Nat
  BY DEF Request
<1>3. \A h \in Posters : post[h].step # "idle" => post[h].req \in Request
  BY <1>1, PostFacts
<1>4. \A h \in Posters : post'[h].step # "idle" => post'[h].req.ver <= ver'
  <2>1. CASE \E h \in Posters : Commit(h)
    <3>1. PICK h \in Posters : Commit(h)
      BY <2>1
    <3>2. ver' = ver + 1
      BY <3>1 DEF Commit
    <3>3. post'[h].req.ver = ver + 1
      BY <1>1, <3>1 DEF Commit
    <3>4. \A g \in Posters : g # h => post'[g] = post[g]
      BY <1>1, <3>1 DEF Commit
    <3> QED
      BY <1>1, <1>2, <1>3, <3>2, <3>3, <3>4 DEF NothingIsAhead
  <2>2. CASE \E h \in Posters : Enqueue(h)
    <3>1. PICK h \in Posters : Enqueue(h)
      BY <2>2
    <3>2. ver' = ver /\ post[h].step # "idle"
      BY <3>1 DEF Enqueue
    <3>3. post'[h].req = post[h].req
      <4>1. post[h] = [step |-> post[h].step, req |-> post[h].req]
        BY <1>1, <3>2, PostFacts
      <4>2. post' = [post EXCEPT ![h] = [post[h] EXCEPT !.step = "waiting"]]
        BY <3>1 DEF Enqueue
      <4> QED
        BY <1>1, <4>1, <4>2
    <3>4. \A g \in Posters : g # h => post'[g] = post[g]
      BY <1>1, <3>1 DEF Enqueue
    <3> QED
      BY <3>2, <3>3, <3>4 DEF NothingIsAhead
  <2>3. CASE (\E h \in Posters : PostTimesOut(h)) \/ Report
    <3>1. ver' = ver /\ \A g \in Posters : post'[g] = NoPost \/ post'[g] = post[g]
      BY <1>1, <2>3 DEF PostTimesOut, Report
    <3> QED
      BY <3>1, IdleRecords DEF NothingIsAhead
  <2>4. CASE Take \/ UNCHANGED <<ver, post, queue>>
    BY <2>4 DEF Take, NothingIsAhead
  <2> QED
    BY <2>1, <2>2, <2>3, <2>4, PostMoves
<1>5. \A i \in 1..Len(queue') : queue'[i].ver <= ver'
  <2>1. CASE \E h \in Posters : Commit(h)
    <3>1. UNCHANGED queue /\ ver' = ver + 1
      BY <2>1 DEF Commit
    <3>2. \A i \in 1..Len(queue) : queue[i] \in Request
      BY <1>1, ElementOfSeq
    <3> QED
      BY <1>1, <1>2, <3>1, <3>2 DEF NothingIsAhead
  <2>2. CASE \E h \in Posters : Enqueue(h)
    <3>1. PICK h \in Posters : Enqueue(h)
      BY <2>2
    <3>2. ver' = ver /\ post[h].req \in Request /\ post[h].step # "idle"
          /\ queue' = Append(queue, post[h].req)
      BY <1>1, <3>1, PostFacts DEF Enqueue
    <3>3. /\ Len(queue') = Len(queue) + 1
          /\ \A i \in 1..Len(queue) : queue'[i] = queue[i]
          /\ queue'[Len(queue) + 1] = post[h].req
      BY <1>1, <3>2, AppendProperties
    <3>4. Len(queue) \in Nat
      BY <1>1, LenProperties
    <3> QED
      BY <3>2, <3>3, <3>4 DEF NothingIsAhead
  <2>3. CASE Take
    <3>1. ver' = ver /\ queue # <<>> /\ queue' = Tail(queue)
      BY <2>3 DEF Take
    <3>2. /\ Len(queue') = Len(queue) - 1
          /\ \A i \in 1..Len(queue') : queue'[i] = queue[i + 1]
      BY <1>1, <3>1, HeadTailProperties
    <3>3. Len(queue) \in Nat
      BY <1>1, LenProperties
    <3> QED
      BY <3>1, <3>2, <3>3 DEF NothingIsAhead
  <2>4. CASE (\E h \in Posters : PostTimesOut(h)) \/ Report \/ UNCHANGED <<ver, post, queue>>
    BY <2>4 DEF PostTimesOut, Report, NothingIsAhead
  <2> QED
    BY <2>1, <2>2, <2>3, <2>4, PostMoves
<1>6. worker'.step # "idle" => worker'.req.ver <= ver'
  <2>1. CASE Take
    <3>1. ver' = ver /\ worker'.req = Head(queue) /\ queue # <<>>
      BY <2>1 DEF Take
    <3>2. Head(queue) = queue[1] /\ 1 \in 1..Len(queue)
      BY <1>1, <3>1, HeadTailProperties, LenProperties, EmptySeq
    <3> QED
      BY <3>1, <3>2 DEF NothingIsAhead
  <2>2. CASE Report
    BY <2>2, IdleRecords DEF Report
  <2>3. CASE WorkerAdvances
    <3>1. worker.step # "idle" /\ worker'.req = worker.req /\ ver' = ver
      BY <1>1, <2>3, WorkerProceeds, WorkerPath DEF WorkerAdvances
    <3> QED
      BY <3>1 DEF NothingIsAhead
  <2>4. CASE UNCHANGED worker
    <3>1. worker.step # "idle" => worker.req \in Request
      BY <1>1, WorkFacts
    <3>2. ver' = ver \/ ver' = ver + 1
      BY VersionsGrow
    <3> QED
      BY <1>1, <1>2, <2>4, <3>1, <3>2 DEF NothingIsAhead
  <2> QED
    BY <2>1, <2>2, <2>3, <2>4, WorkerMoves
<1> QED
  BY <1>4, <1>5, <1>6

(* Who writes the files. *)
LEMMA FileMoves ==
  ASSUME [ReconcileNext]_allVars
  PROVE  UNCHANGED <<tmp, file>> \/ \E c \in Callers : GenStep(c)
<1>1. CASE WorkerAdvances
  BY <1>1, WorkerProceeds DEF WorkerAdvances
<1>2. CASE \/ \E h \in Posters : Commit(h) \/ Enqueue(h) \/ PostTimesOut(h)
           \/ Take \/ Report
           \/ \E c \in Callers : Snapshot(c) \/ Calls(c)
           \/ \E u \in Starters : StartHandler(u)
           \/ \E u \in Users : CallHandler(u) \/ Answered(u)
           \/ \E k \in Kernels : Waits(k) \/ Exits(k)
           \/ UNCHANGED allVars
  BY <1>2
  DEF Commit, Enqueue, PostTimesOut, Take, Report, Snapshot, Calls, StartHandler,
      CallHandler, Answered, Waits, Exits, files, allVars
<1> QED
  BY <1>1, <1>2, ReconcileBounds DEF ReconcileNext, WorkerStep, WorkerAdvances

(* A generation begins with the committed configuration. *)
LEMMA SnapshotEffect ==
  ASSUME ReconcileTypeOK, NEW c \in Callers, Snapshot(c)
  PROVE  /\ gen[c].step = "idle"
         /\ gen'[c].step = "ready" /\ gen'[c].cfg = Committed
         /\ \A d \in Callers : d # c => gen'[d] = gen[d]
         /\ c = Worker => worker.step = "generate"
         /\ UNCHANGED <<vars, ver, post, queue, worker, tmp, file, loaded, faults>>
<1> DEFINE g == [step |-> "ready", cfg |-> Committed, place |-> "gone"]
<1>1. gen[c].step = "idle" /\ gen' = [gen EXCEPT ![c] = g]
  BY DEF Snapshot, Generate, Current
<1>2. gen'[c] = g /\ \A d \in Callers : d # c => gen'[d] = gen[d]
  BY <1>1 DEF ReconcileTypeOK
<1> QED
  BY <1>1, <1>2 DEF Snapshot

(* The worker or a handler is done with its generation. *)
LEMMA GenEnds ==
  ASSUME ReconcileTypeOK, NEW c \in Callers,
         (c = Worker /\ Generated) \/ (c \in Starters /\ StartHandler(c))
  PROVE  gen'[c] = NoGen
  BY DEF Generated, StartHandler, ReconcileTypeOK

(* A generation under way keeps its content. *)
LEMMA GenKeeps ==
  ASSUME ReconcileTypeOK, [ReconcileNext]_allVars, NEW c \in Callers,
         gen'[c].step \notin {"idle", "failed"}
  PROVE  \/ gen[c].step \notin {"idle", "failed"} /\ gen'[c].cfg = gen[c].cfg
         \/ Snapshot(c)
<1>1. CASE GenStep(c)
  BY <1>1, GenStepEffect
<1>2. CASE (c = Worker /\ Generated) \/ (c \in Starters /\ StartHandler(c))
  BY <1>2, GenEnds, IdleRecords
<1> QED
  BY <1>1, <1>2, GenMoves

(* Nothing that is generated is newer than the configuration. *)
LEMMA NothingStep ==
  ASSUME ReconcileTypeOK, NothingIsAhead, [ReconcileNext]_allVars
  PROVE  NothingIsAhead'
<1>1. /\ ver \in Nat /\ ver' \in Nat /\ (ver' = ver \/ ver' = ver + 1)
      /\ gen \in [Callers -> Gen] /\ tmp \in Files /\ file \in Files
      /\ tun \in BOOLEAN /\ ver \in 0..MaxCommits
  BY VersionsGrow DEF ReconcileTypeOK, TypeOK
<1>2. \A c \in Callers : gen[c].cfg \in Content /\ gen[c].cfg.ver \in Nat
  BY <1>1, GenFacts DEF Content
<1>3. ASSUME NEW c \in Callers, gen'[c].step \notin {"idle", "failed"}
      PROVE  gen'[c].cfg.ver <= ver'
  <2>1. CASE gen[c].step \notin {"idle", "failed"} /\ gen'[c].cfg = gen[c].cfg
    <3>1. gen[c].cfg.ver <= ver
      BY <2>1 DEF NothingIsAhead
    <3> QED
      BY <1>1, <1>2, <2>1, <3>1
  <2>2. CASE Snapshot(c)
    <3>1. gen'[c].cfg = Committed /\ ver' = ver
      BY <2>2, SnapshotEffect
    <3>2. Committed.ver = ver
      BY <1>1, CommittedContent
    <3> QED
      BY <1>1, <3>1, <3>2
  <2> QED
    BY <1>3, <2>1, <2>2, GenKeeps
<1>4. tmp'.ver <= ver' /\ file'.ver <= ver'
  <2>1. CASE UNCHANGED <<tmp, file>>
    <3>1. tmp.ver \in Nat /\ file.ver \in Nat
      BY <1>1, FileVersion
    <3> QED
      BY <1>1, <2>1, <3>1 DEF NothingIsAhead
  <2>2. ASSUME NEW c \in Callers, GenStep(c) PROVE tmp'.ver <= ver' /\ file'.ver <= ver'
    <3>1. UNCHANGED ver
      BY <2>2, GenStepEffect DEF pipeline
    <3>2. Missing.ver = 0 /\ Empty.ver = 0 /\ Torn.ver = 0
      BY DEF Missing, Empty, Torn
    <3>3. gen[c].step = "opened" => gen[c].cfg.ver <= ver
      BY DEF NothingIsAhead
    <3>4. ASSUME NEW f, NEW g \in Over(f, gen[c].cfg), gen[c].step = "opened"
          PROVE  g.ver <= ver
      <4>1. g \in {Whole(gen[c].cfg), Torn} /\ Whole(gen[c].cfg).ver = gen[c].cfg.ver
        BY <1>2, <3>4, OverFiles, FileFacts
      <4> QED
        BY <1>1, <3>2, <3>3, <3>4, <4>1
    <3>5. \/ tmp' \in {tmp, Empty, Missing, Torn}
          \/ gen[c].step = "opened" /\ tmp' \in Over(tmp, gen[c].cfg)
      BY <2>2, GenStepEffect
    <3>6. \/ file' \in {file, tmp, Torn}
          \/ gen[c].step = "opened" /\ file' \in Over(file, gen[c].cfg)
      BY <2>2, GenStepEffect
    <3>7. tmp.ver <= ver /\ file.ver <= ver
      BY DEF NothingIsAhead
    <3>8. tmp'.ver <= ver
      BY <1>1, <3>2, <3>4, <3>5, <3>7
    <3>9. file'.ver <= ver
      BY <1>1, <3>2, <3>4, <3>6, <3>7
    <3> QED
      BY <3>1, <3>8, <3>9
  <2> QED
    BY <2>1, <2>2, FileMoves
<1> QED
  BY <1>3, <1>4, RequestsStep DEF NothingIsAhead

(* A snapshot of the present version is the committed configuration. *)
LEMMA TrueStep ==
  ASSUME ReconcileTypeOK, NothingIsAhead, SnapshotsAreTrue, [ReconcileNext]_allVars
  PROVE  SnapshotsAreTrue'
<1>1. /\ ver \in Nat /\ ver' \in Nat
      /\ ver' = ver + 1 \/ (ver' = ver /\ UNCHANGED tun)
      /\ gen \in [Callers -> Gen]
  BY VersionsGrow DEF ReconcileTypeOK
<1>2. ASSUME NEW c \in Callers, gen'[c].step \notin {"idle", "failed"},
             gen'[c].cfg.ver = ver'
      PROVE  gen'[c].cfg = Committed'
  <2>1. CASE gen[c].step \notin {"idle", "failed"} /\ gen'[c].cfg = gen[c].cfg
    <3>1. gen[c].cfg.ver <= ver
      BY <2>1 DEF NothingIsAhead
    <3>2. ver' = ver /\ UNCHANGED tun
      BY <1>1, <1>2, <2>1, <3>1
    <3> QED
      BY <1>2, <2>1, <3>2 DEF SnapshotsAreTrue, Committed
  <2>2. CASE Snapshot(c)
    <3>1. gen'[c].cfg = Committed /\ UNCHANGED <<ver, tun>>
      BY <2>2, SnapshotEffect DEF vars
    <3> QED
      BY <3>1 DEF Committed
  <2> QED
    BY <1>2, <2>1, <2>2, GenKeeps
<1> QED
  BY <1>2 DEF SnapshotsAreTrue

(* The snapshot is taken after the request, and so after its commit. *)
LEMMA CoversStep ==
  ASSUME ReconcileTypeOK, OneThingAtATime, NothingIsAhead, SnapshotCoversRequest,
         [ReconcileNext]_allVars
  PROVE  SnapshotCoversRequest'
<1>1. Worker \in Callers /\ worker \in Works /\ ver \in 0..MaxCommits /\ tun \in BOOLEAN
  BY ReconcileBounds DEF ReconcileTypeOK, TypeOK
<1> SUFFICES ASSUME gen'[Worker].step \notin {"idle", "failed"}
             PROVE  gen'[Worker].cfg.ver >= worker'.req.ver
  BY DEF SnapshotCoversRequest
<1>2. CASE gen[Worker].step \notin {"idle", "failed"} /\ gen'[Worker].cfg = gen[Worker].cfg
  <2>1. worker.step = "generate" /\ gen[Worker].cfg.ver >= worker.req.ver
    BY <1>2 DEF OneThingAtATime, SnapshotCoversRequest
  <2>2. worker'.req = worker.req
    BY <1>1, <2>1, WorkerMoves, WorkerPath DEF Take, Report
  <2> QED
    BY <1>2, <2>1, <2>2
<1>3. CASE Snapshot(Worker)
  <2>1. gen'[Worker].cfg = Committed /\ worker' = worker /\ worker.step = "generate"
    BY <1>1, <1>3, SnapshotEffect
  <2>2. worker.req \in Request /\ worker.req.ver <= ver
    BY <1>1, <2>1, WorkFacts DEF NothingIsAhead
  <2>3. Committed.ver = ver /\ worker.req.ver \in Nat
    BY <1>1, <2>2, CommittedContent DEF Request
  <2> QED
    BY <1>1, <2>1, <2>2, <2>3
<1> QED
  BY <1>1, <1>2, <1>3, GenKeeps

(* Only a snapshot beside the queue is remembered. *)
LEMMA AsideKept ==
  ASSUME [ReconcileNext]_allVars
  PROVE  UNCHANGED aside \/ Snapshot(Worker) \/ \E u \in Starters : Snapshot(u)
<1>1. CASE \E h \in Posters : Enqueue(h)
  BY <1>1 DEF Enqueue
<1>2. CASE \/ \E h \in Posters : Commit(h) \/ PostTimesOut(h)
           \/ Take \/ Report \/ WorkerAdvances
           \/ \E c \in Callers : GenStep(c) \/ Calls(c)
           \/ \E u \in Starters : StartHandler(u)
           \/ \E u \in Users : CallHandler(u) \/ Answered(u)
           \/ \E k \in Kernels : Waits(k) \/ Exits(k)
           \/ UNCHANGED allVars
  <2>1. UNCHANGED history
    BY <1>2, WorkerProceeds
    DEF WorkerAdvances, Commit, PostTimesOut, Take, Report, GenStep, GenFails, Open, Write,
        Rename, RenameFails, WriteFails,
        ChmodFails, RenameRefused, Replace, GenFault, GivesUp,
        Calls, StartHandler, CallHandler, Answered, Waits, Exits,
        pipeline, allVars
  <2> QED
    BY <2>1 DEF history
<1> QED
  BY <1>1, <1>2 DEF ReconcileNext, WorkerStep, WorkerAdvances

(* A start handler that generates is remembered. *)
LEMMA AsideRemembers ==
  ASSUME ReconcileTypeOK, [ReconcileNext]_allVars, ~aside'
  PROVE  ~aside /\ \A c \in Callers \ {Worker} : ~Snapshot(c)
<1>1. aside \in BOOLEAN
  BY DEF ReconcileTypeOK
<1>2. \A c \in Callers \ {Worker} : ~Snapshot(c)
  BY DEF Snapshot
<1>3. CASE Snapshot(Worker)
  BY <1>1, <1>2, <1>3 DEF Snapshot
<1> QED
  BY <1>2, <1>3, AsideKept, ReconcileBounds

(* The worker alone writes its own content, whole and newer each time. *)
LEMMA AloneStep ==
  ASSUME ReconcileTypeOK, NothingIsAhead, WritesAlone, ~aside', [ReconcileNext]_allVars
  PROVE  WritesAlone'
<1>1. /\ Worker \in Callers /\ gen \in [Callers -> Gen]
      /\ gen[Worker].cfg \in Content /\ gen'[Worker] \in Gen
      /\ ver \in 0..MaxCommits /\ tun \in BOOLEAN
  BY ReconcileBounds, GenFacts, FilesType DEF ReconcileTypeOK, TypeOK
<1>2. \A c \in Callers \ {Worker} : gen[c].step = "idle"
  BY DEF WritesAlone
<1>3. \A c \in Callers \ {Worker} : ~Snapshot(c) /\ ~GenStep(c) /\ ~(c \in Starters /\ StartHandler(c))
  BY <1>2, AsideRemembers, GenStepEffect DEF StartHandler
<1>4. \A c \in Callers \ {Worker} : gen'[c].step = "idle"
  BY <1>1, <1>2, <1>3, GenMoves
<1>5. CASE Snapshot(Worker)
  <2>1. gen'[Worker].step = "ready" /\ gen'[Worker].cfg = Committed /\ UNCHANGED <<file, ver>>
    BY <1>1, <1>5, SnapshotEffect
  <2>2. file.ver <= gen'[Worker].cfg.ver
    BY <1>1, <2>1, CommittedContent DEF NothingIsAhead
  <2> QED
    BY <1>4, <2>1, <2>2 DEF WritesAlone, FileIsWhole
<1>6. CASE Generated
  <2>1. gen'[Worker].step = "idle" /\ UNCHANGED file
    BY <1>1, <1>6, GenEnds, IdleRecords DEF Generated
  <2> QED
    BY <1>4, <2>1 DEF WritesAlone, FileIsWhole
<1>7. CASE GenStep(Worker)
  <2> DEFINE cfg == gen[Worker].cfg
  <2>1. CASE gen'[Worker].step = "failed" /\ UNCHANGED file
    BY <1>4, <2>1 DEF WritesAlone, FileIsWhole
  <2>2. CASE gen[Worker].step = "ready" /\ gen'[Worker].step = "opened"
    <3>1. gen'[Worker].cfg = cfg /\ gen'[Worker].place = "tmp" /\ tmp' = Empty /\ UNCHANGED file
      BY <1>1, <1>7, <2>2, GenStepEffect
    <3> QED
      BY <1>4, <2>2, <3>1 DEF WritesAlone, FileIsWhole
  <2>3. CASE gen[Worker].step = "opened" /\ gen'[Worker].step = "written"
    <3>1. gen[Worker].place = "tmp" /\ tmp = Empty
      BY <2>3 DEF WritesAlone
    <3>2. gen'[Worker].cfg = cfg /\ tmp' \in Over(Empty, cfg) /\ UNCHANGED file
      BY <1>1, <1>7, <2>3, <3>1, GenStepEffect
    <3>3. tmp' = Whole(cfg)
      BY <3>2 DEF Over
    <3> QED
      BY <1>4, <2>3, <3>2, <3>3 DEF WritesAlone, FileIsWhole
  <2>4. CASE gen[Worker].step = "written" /\ gen'[Worker].step = "done"
    <3>1. gen'[Worker].cfg = cfg /\ file' = tmp
      BY <1>1, <1>7, <2>4, GenStepEffect
    <3>2. file' = Whole(cfg)
      BY <2>4, <3>1 DEF WritesAlone
    <3> QED
      BY <1>1, <1>4, <2>4, <3>1, <3>2 DEF WritesAlone, FileIsWhole
  <2>5. CASE gen[Worker].step = "opened" /\ gen'[Worker].step = "failed"
    <3>1. gen[Worker].place = "tmp"
      BY <2>5 DEF WritesAlone
    <3>2. UNCHANGED file
      BY <1>1, <1>7, <2>5, <3>1, GenStepEffect
    <3> QED
      BY <2>1, <2>5, <3>2
  <2>6. CASE gen[Worker].step = "written" /\ gen'[Worker].step = "failed" /\ file' = tmp
    <3>1. file' = Whole(cfg)
      BY <2>6 DEF WritesAlone
    <3> QED
      BY <1>1, <1>4, <2>6, <3>1 DEF WritesAlone, FileIsWhole
  <2> QED
    BY <1>1, <1>7, <2>1, <2>2, <2>3, <2>4, <2>5, <2>6, GenStepEffect
<1>8. CASE /\ gen'[Worker].step = gen[Worker].step /\ gen'[Worker].cfg = gen[Worker].cfg
           /\ gen'[Worker].place = gen[Worker].place /\ ~GenStep(Worker)
  <2>1. UNCHANGED <<tmp, file>>
    BY <1>3, <1>8, FileMoves
  <2> QED
    BY <1>4, <1>8, <2>1 DEF WritesAlone, FileIsWhole
<1> QED
  BY <1>1, <1>3, <1>5, <1>6, <1>7, <1>8, GenMoves

(* A kernel that runs keeps its configuration, or has read the file.        *)
LEMMA LoadedMoves ==
  ASSUME ReconcileTypeOK, ManagerInv, [ReconcileNext]_allVars,
         NEW k \in Kernels, kernel'[k].life = "alive"
  PROVE  loaded'[k] = file \/ (kernel[k].life = "alive" /\ loaded'[k] = loaded[k])
<1>1. TypeOK /\ loaded \in [Kernels -> Files]
  BY DEF ReconcileTypeOK
<1>2. ASSUME NEW c \in Callers, Calls(c)
      PROVE  loaded'[k] = file \/ (kernel[k].life = "alive" /\ loaded'[k] = loaded[k])
  <2>1. loaded'[k] = IF kernel[k].life = "unborn" THEN file ELSE loaded[k]
    BY <1>2 DEF Calls, Reads
  <2>2. CASE Spawn(c) /\ k = cmd'
    <3>1. cmd' = cmd + 1
      BY <1>1, <2>2, SpawnMoves DEF ManagerInv
    <3>2. k > cmd
      BY <1>1, <2>2, <3>1, BoundTypes DEF TypeOK
    <3>3. kernel[k].life = "unborn"
      BY <3>2 DEF ManagerInv, UnbornAfterCmd
    <3> QED
      BY <2>1, <3>3
  <2>3. CASE Spawn(c) /\ k # cmd'
    <3>1. kernel'[k] = kernel[k]
      BY <1>1, <2>3, SpawnMoves DEF ManagerInv
    <3> QED
      BY <2>1, <3>1
  <2>4. CASE ~Spawn(c)
    <3>1. \/ Outside(c) \/ LockStart(c) \/ Refuse(c) \/ Prepare(c)
          \/ PrepareFails(c) \/ SpawnFails(c)
      BY <1>2, <2>4 DEF Calls, CallerStep, Outside
    <3>2. kernel'[k].life = kernel[k].life
      BY <1>1, <3>1, CallersKeepKernels
    <3> QED
      BY <2>1, <3>2
  <2> QED
    BY <2>2, <2>3, <2>4
<1>3. ASSUME NEW j \in Kernels, Reload(j)
      PROVE  loaded'[k] = file \/ (kernel[k].life = "alive" /\ loaded'[k] = loaded[k])
  BY <1>1, <1>3 DEF Reload, vars, processVars
<1>4. ASSUME NEW j \in Kernels, Waits(j) \/ Exits(j)
      PROVE  loaded'[k] = file \/ (kernel[k].life = "alive" /\ loaded'[k] = loaded[k])
  <2>1. UNCHANGED loaded /\ (WaiterStep(j) \/ KernelStep(j))
    BY <1>4 DEF Waits, Exits
  <2>2. kernel[k].life = "alive"
    BY <1>1, <2>1, KernelMoves
  <2> QED
    BY <2>1, <2>2
<1>5. CASE UNCHANGED <<kernel, loaded>>
  BY <1>5
<1>6. CASE \/ \E h \in Posters : Commit(h) \/ Enqueue(h) \/ PostTimesOut(h)
           \/ Take \/ Generated \/ CheckRunning \/ InstallRules \/ RemoveRules \/ Report
           \/ \E c \in Callers : Snapshot(c) \/ GenStep(c)
           \/ UNCHANGED allVars
  <2>1. UNCHANGED <<kernel, loaded>>
    BY <1>6
    DEF Commit, Enqueue, PostTimesOut, Take, Generated, CheckRunning, InstallRules,
        RemoveRules, Report, Snapshot, GenStep, GenFails, Open, Write, Rename,
        RenameFails, WriteFails,
        ChmodFails, RenameRefused, Replace, GenFault, GivesUp, allVars, vars, processVars
  <2> QED
    BY <1>5, <2>1
<1>7. CASE \/ ReloadFails \/ Restarted
           \/ \E u \in Starters : StartHandler(u)
           \/ \E u \in Users : CallHandler(u) \/ Answered(u)
  <2>1. UNCHANGED <<kernel, loaded>>
    BY <1>7
    DEF ReloadFails, Restarted, StartHandler, CallHandler, Answered, BeginStart,
        BeginStop, BeginRestart, Begin, Return, vars, processVars
  <2> QED
    BY <1>5, <2>1
<1> QED
  BY <1>2, <1>3, <1>4, <1>6, <1>7, ReconcileBounds DEF ReconcileNext, WorkerStep

(* What the worker reports as applied is in the file and in the kernel. *)
LEMMA AppliedStep ==
  ASSUME ReconcileTypeOK, ManagerInv, OneThingAtATime, SnapshotCoversRequest,
         WritesAlone, AppliedInv, ~aside', [ReconcileNext]_allVars
  PROVE  AppliedInv'
<1>1. /\ Worker \in Callers /\ worker \in Works /\ TypeOK
      /\ gen[Worker].cfg \in Content
  BY ReconcileBounds, GenFacts DEF ReconcileTypeOK
<1>2. \A c \in Callers \ {Worker} : ~GenStep(c)
  <2>1. \A c \in Callers \ {Worker} : gen[c].step = "idle"
    BY DEF WritesAlone
  <2> QED
    BY <2>1, GenStepEffect
<1>3. Past => UNCHANGED <<tmp, file>>
  <2>1. Past => gen[Worker].step = "idle"
    BY DEF Past, OneThingAtATime
  <2>2. Past => ~GenStep(Worker)
    BY <1>1, <2>1, GenStepEffect
  <2> QED
    BY <1>2, <2>2, FileMoves
<1>4. Past' => (Past /\ worker'.req = worker.req) \/ (Generated /\ gen[Worker].step = "done")
  <2>1. CASE WorkerAdvances
    BY <1>1, <2>1, WorkerPath DEF WorkerAdvances, Past
  <2>2. CASE UNCHANGED worker
    BY <2>2 DEF Past
  <2>3. CASE Take \/ Report
    BY <2>3 DEF Take, Report, NoWork, Past
  <2> QED
    BY <2>1, <2>2, <2>3, WorkerMoves
<1>5. Past' => file'.state = "whole" /\ file'.ver >= worker'.req.ver
  <2>1. CASE Past /\ worker'.req = worker.req
    BY <1>3, <2>1 DEF AppliedInv
  <2>2. CASE Generated /\ gen[Worker].step = "done"
    <3>1. worker'.req = worker.req /\ UNCHANGED file
      BY <1>1, <2>2, WorkerPath DEF WorkerAdvances, Generated
    <3>2. file = Whole(gen[Worker].cfg) /\ gen[Worker].cfg.ver >= worker.req.ver
      BY <2>2 DEF WritesAlone, SnapshotCoversRequest
    <3>3. file.state = "whole" /\ file.ver = gen[Worker].cfg.ver
      BY <1>1, <3>2, FileFacts
    <3> QED
      BY <3>1, <3>2, <3>3
  <2> QED
    BY <1>4, <2>1, <2>2
<1>6. ASSUME Applied'
      PROVE  \A k \in Kernels : kernel'[k].life = "alive" => loaded'[k].ver >= worker'.req.ver
  <2>1. Past /\ worker'.req = worker.req
    BY <1>4, <1>1, <1>6, WorkerPath DEF Applied, Past, WorkerAdvances
  <2>2. file.ver >= worker'.req.ver
    BY <2>1 DEF AppliedInv
  <2>3. CASE Applied
    BY <2>1, <2>2, <2>3, LoadedMoves DEF AppliedInv
  <2>4. CASE CheckRunning
    <3>1. ~running /\ UNCHANGED kernel
      BY <1>1, <1>6, <2>4, WorkerPath
      DEF WorkerAdvances, Applied, CheckRunning, vars, processVars
    <3> QED
      BY <3>1 DEF ManagerInv, LiveIsTracked, Unpublished
  <2>5. ASSUME NEW j \in Kernels, Reload(j)
        PROVE  \A k \in Kernels : kernel'[k].life = "alive" => loaded'[k].ver >= worker'.req.ver
    <3>1. UNCHANGED kernel /\ kernel[j].life = "alive" /\ loaded' = [loaded EXCEPT ![j] = file]
      BY <2>5 DEF Reload, Answers, vars, processVars
    <3>2. \A k \in Kernels : kernel[k].life = "alive" => k = j
      BY <3>1 DEF ManagerInv, LiveIsTracked, Unpublished
    <3>3. loaded'[j] = file
      BY <3>1 DEF ReconcileTypeOK
    <3> QED
      BY <2>2, <3>1, <3>2, <3>3
  <2>6. CASE Calls(Worker) /\ Spawn(Worker)
    <3>1. \A k \in Kernels : k # cmd' => kernel'[k] = kernel[k] /\ ~Unpublished(k)
      BY <1>1, <2>6, SpawnMoves DEF ManagerInv
    <3>2. \A k \in Kernels : kernel'[k].life = "alive" => k = cmd'
      BY <3>1 DEF Unpublished
    <3>3. ASSUME NEW k \in Kernels, kernel'[k].life = "alive"
          PROVE  loaded'[k] = file
      <4>1. ~Unpublished(k)
        BY <1>1, <2>6, SpawnMoves DEF ManagerInv
      <4> QED
        BY <3>3, <4>1, LoadedMoves DEF Unpublished
    <3> QED
      BY <2>2, <3>3
  <2>7. Applied \/ CheckRunning \/ (\E k \in Kernels : Reload(k)) \/ (Calls(Worker) /\ Spawn(Worker))
    <3>1. CASE WorkerAdvances
      <4>1. ReloadFails => worker'.step = "restart" /\ op'[Worker].step = "stop"
        <5>1. ReloadFails => op'[Worker] = [NoOp EXCEPT !.kind = "restart", !.step = "stop"]
          BY <1>1 DEF ReloadFails, BeginRestart, Begin, TypeOK
        <5> QED
          BY <1>1, <5>1, WorkerPath DEF WorkerAdvances, NoOp
      <4> QED
        BY <1>1, <1>6, <3>1, <4>1, WorkerPath DEF WorkerAdvances, Applied
    <3>2. CASE UNCHANGED worker
      <4>1. CASE worker.step # "restart"
        BY <1>6, <3>2, <4>1 DEF Applied
      <4>2. CASE worker.step = "restart"
        <5>1. op'[Worker].step \in {"settle", "ok"} /\ op[Worker].kind = "restart"
          BY <1>6, <3>2, <4>2 DEF Applied, OneThingAtATime
        <5>2. op'[Worker] = op[Worker] \/ Calls(Worker)
          <6>1. ReloadFails => worker.step = "reload"
            BY DEF ReloadFails, WorkerGo
          <6>2. Restarted => worker'.step # "restart"
            BY <1>1, WorkerPath DEF WorkerAdvances
          <6> QED
            BY <3>2, <4>2, <6>1, <6>2, WorkerCallMoves
        <5>3. Calls(Worker) => Spawn(Worker) \/ op[Worker].step = "settle"
          BY <1>1, <5>1, CallGoesOn DEF Calls
        <5> QED
          BY <4>2, <5>1, <5>2, <5>3 DEF Applied
      <4> QED
        BY <4>1, <4>2
    <3>3. CASE Take \/ Report
      BY <1>6, <3>3 DEF Take, Report, NoWork, Applied
    <3> QED
      BY <3>1, <3>2, <3>3, WorkerMoves
  <2> QED
    BY <2>3, <2>4, <2>5, <2>6, <2>7
<1> QED
  BY <1>5, <1>6 DEF AppliedInv

(* The last commit stays in the file or on its way, as long as it can be    *)
(* generated.                                                               *)
LEMMA PendingStep ==
  ASSUME ReconcileTypeOK, OneThingAtATime, NothingIsAhead, SnapshotsAreTrue,
         WritesAlone, ver > 0 => Pending, genFaults' = 0, ~aside', ver' > 0,
         [ReconcileNext]_allVars
  PROVE  Pending'
<1>1. /\ Worker \in Callers /\ worker \in Works /\ queue \in Seq(Request)
      /\ post \in [Posters -> Posts] /\ gen[Worker].cfg \in Content
      /\ ver \in 0..MaxCommits /\ tun \in BOOLEAN /\ genFaults \in Nat /\ ver \in Nat
  BY ReconcileBounds, GenFacts DEF ReconcileTypeOK, TypeOK
<1>2. \A c \in Callers \ {Worker} : ~GenStep(c)
  <2>1. \A c \in Callers \ {Worker} : gen[c].step = "idle"
    BY DEF WritesAlone
  <2> QED
    BY <2>1, GenStepEffect
<1>3. CASE \E h \in Posters : Commit(h)
  <2>1. PICK h \in Posters : Commit(h)
    BY <1>3
  <2>2. post'[h].step = "committed"
    BY <1>1, <2>1 DEF Commit
  <2> QED
    BY <2>2 DEF Pending
<1>4. CASE ~\E h \in Posters : Commit(h)
  <2>1. UNCHANGED <<ver, tun>> /\ Pending
    <3>1. ver' = ver
      BY <1>4, VersionsGrow
    <3> QED
      BY <1>1, <3>1, VersionsGrow
  <2>2. Committed' = Committed
    BY <2>1 DEF Committed
  <2>3. ASSUME NEW h \in Posters, post[h].step = "committed" PROVE Pending'
    <3>1. ASSUME NEW g \in Posters, Enqueue(g) PROVE queue' # <<>>
      <4>1. post[g].req \in Request /\ queue' = Append(queue, post[g].req)
        BY <1>1, <3>1, PostFacts DEF Enqueue
      <4> QED
        BY <1>1, <4>1, AppendProperties
    <3>2. ASSUME NEW g \in Posters, PostTimesOut(g) PROVE post'[h] = post[h]
      BY <1>1, <2>3, <3>2 DEF PostTimesOut
    <3>3. Report => post'[h] = post[h]
      <4>1. post[h] # [step |-> "waiting", req |-> worker.req]
        BY <2>3
      <4> QED
        BY <4>1 DEF Report
    <3> QED
      BY <1>4, <2>3, <3>1, <3>2, <3>3, PostMoves DEF Pending, Take
  <2>4. CASE queue # <<>>
    <3>1. ASSUME NEW g \in Posters, Enqueue(g) PROVE queue' # <<>>
      <4>1. post[g].req \in Request /\ queue' = Append(queue, post[g].req)
        BY <1>1, <3>1, PostFacts DEF Enqueue
      <4> QED
        BY <1>1, <4>1, AppendProperties
    <3>2. CASE Take
      <4>1. gen[Worker].step = "idle" /\ UNCHANGED gen
        BY <3>2 DEF Take, OneThingAtATime, files
      <4> QED
        BY <3>2, <4>1 DEF Take, Pending
    <3>3. CASE (\E g \in Posters : PostTimesOut(g)) \/ Report
      BY <2>4, <3>3 DEF PostTimesOut, Report, Pending
    <3> QED
      BY <1>4, <2>4, <3>1, <3>2, <3>3, PostMoves DEF Pending
  <2>5. CASE worker.step = "generate" /\ gen[Worker].step = "idle"
    <3>1. UNCHANGED worker
      <4>1. ~Take /\ ~Report
        BY <2>5 DEF Take, Report
      <4>2. ~WorkerAdvances
        BY <1>1, <2>5, WorkerPath DEF WorkerAdvances
      <4> QED
        BY <4>1, <4>2, WorkerMoves
    <3>2. CASE Snapshot(Worker)
      BY <1>1, <2>2, <3>2, SnapshotEffect DEF Pending
    <3>3. CASE ~Snapshot(Worker)
      <4>1. ~GenStep(Worker) /\ ~Generated
        BY <1>1, <2>5, GenStepEffect DEF Generated
      <4>2. gen'[Worker].step = gen[Worker].step
        BY <1>1, <3>3, <4>1, GenMoves
      <4> QED
        BY <2>5, <3>1, <4>2 DEF Pending
    <3> QED
      BY <3>2, <3>3
  <2>6. CASE gen[Worker].step \in {"ready", "opened", "written"} /\ gen[Worker].cfg = Committed
    <3>1. CASE GenStep(Worker)
      <4>1. gen'[Worker].step # "failed"
        <5>1. gen[Worker].step = "written" => tmp # Missing
          <6>1. Whole(gen[Worker].cfg).state = "whole" /\ Missing.state # "whole"
            BY <1>1, FileFacts DEF Missing
          <6> QED
            BY <6>1 DEF WritesAlone
        <5>2. genFaults' # genFaults + 1
          BY <1>1
        <5> QED
          BY <1>1, <3>1, <5>1, <5>2, GenStepEffect
      <4>2. CASE gen'[Worker].step \in {"opened", "written"}
        BY <1>1, <2>2, <2>6, <3>1, <4>2, GenStepEffect DEF Pending
      <4>3. CASE gen'[Worker].step = "done"
        <5>1. gen[Worker].step = "written" /\ file' = tmp
          BY <1>1, <3>1, <4>3, GenStepEffect
        <5>2. file' = Whole(Committed)
          BY <2>6, <5>1 DEF WritesAlone
        <5> QED
          BY <2>2, <5>2 DEF Pending, Whole
      <4> QED
        BY <1>1, <3>1, <4>1, <4>2, <4>3, GenStepEffect
    <3>2. CASE ~GenStep(Worker)
      <4>1. ~Snapshot(Worker) /\ ~Generated
        BY <1>1, <2>6, SnapshotEffect DEF Generated
      <4>2. gen'[Worker].step = gen[Worker].step /\ gen'[Worker].cfg = gen[Worker].cfg
        BY <1>1, <3>2, <4>1, GenMoves
      <4> QED
        BY <2>2, <2>6, <4>2 DEF Pending
    <3> QED
      BY <3>1, <3>2
  <2>7. CASE file = Whole(Committed)
    <3>1. Whole(Committed)' = Whole(Committed)
      BY <2>2 DEF Whole
    <3>2. CASE UNCHANGED file
      BY <2>7, <3>1, <3>2 DEF Pending
    <3>3. CASE GenStep(Worker) /\ gen[Worker].step = "written" /\ file' = tmp
      <4>1. file.ver <= gen[Worker].cfg.ver /\ gen[Worker].cfg.ver <= ver
            /\ tmp = Whole(gen[Worker].cfg)
        BY <1>1, <3>3 DEF WritesAlone, NothingIsAhead
      <4>2. file.ver = ver
        BY <1>1, <2>7, CommittedContent, FileFacts
      <4>3. gen[Worker].cfg.ver \in Nat
        BY <1>1 DEF Content
      <4>4. gen[Worker].cfg.ver = ver
        BY <1>1, <4>1, <4>2, <4>3
      <4>5. gen[Worker].cfg = Committed
        BY <1>1, <3>3, <4>4 DEF SnapshotsAreTrue
      <4> QED
        BY <3>1, <3>3, <4>1, <4>5 DEF Pending
    <3>4. UNCHANGED file \/ (GenStep(Worker) /\ gen[Worker].step = "written" /\ file' = tmp)
      <4>1. gen[Worker].step = "opened" => gen[Worker].place = "tmp"
        BY DEF WritesAlone
      <4> QED
        BY <1>1, <1>2, <4>1, FileMoves, GenStepEffect
    <3> QED
      BY <3>2, <3>3, <3>4
  <2> QED
    BY <2>1, <2>3, <2>4, <2>5, <2>6, <2>7 DEF Pending
<1> QED
  BY <1>3, <1>4

(* Failures to generate are counted one by one. *)
LEMMA FaultsGrow ==
  ASSUME ReconcileTypeOK, [ReconcileNext]_allVars
  PROVE  genFaults' = genFaults \/ genFaults' = genFaults + 1
<1>1. ASSUME NEW c \in Callers, GenStep(c)
      PROVE  genFaults' = genFaults \/ genFaults' = genFaults + 1
  BY <1>1, GenStepEffect
<1>2. WorkerAdvances => UNCHANGED genFaults
  BY WorkerProceeds DEF WorkerAdvances
<1>3. CASE \/ \E h \in Posters : Commit(h) \/ Enqueue(h) \/ PostTimesOut(h)
           \/ Take \/ Report
           \/ \E c \in Callers : Snapshot(c) \/ Calls(c)
           \/ \E u \in Starters : StartHandler(u)
           \/ \E u \in Users : CallHandler(u) \/ Answered(u)
           \/ \E k \in Kernels : Waits(k) \/ Exits(k)
           \/ UNCHANGED allVars
  BY <1>3
  DEF Commit, Enqueue, PostTimesOut, Take, Report, Snapshot, Calls, StartHandler,
      CallHandler, Answered, Waits, Exits, faults, allVars
<1> QED
  BY <1>1, <1>2, <1>3, ReconcileBounds DEF ReconcileNext, WorkerStep, WorkerAdvances

(* The worker alone replaces the file by one that is not older. *)
LEMMA FileGoesOn ==
  ASSUME ReconcileTypeOK, WritesAlone, [ReconcileNext]_allVars
  PROVE  file'.ver >= file.ver
<1>1. Worker \in Callers /\ gen[Worker].cfg \in Content /\ file \in Files
  BY ReconcileBounds, GenFacts DEF ReconcileTypeOK
<1>2. \A c \in Callers \ {Worker} : ~GenStep(c)
  <2>1. \A c \in Callers \ {Worker} : gen[c].step = "idle"
    BY DEF WritesAlone
  <2> QED
    BY <2>1, GenStepEffect
<1>3. gen[Worker].step = "opened" => gen[Worker].place = "tmp"
  BY DEF WritesAlone
<1>4. UNCHANGED file \/ (gen[Worker].step = "written" /\ file' = tmp)
  BY <1>1, <1>2, <1>3, FileMoves, GenStepEffect
<1>5. CASE UNCHANGED file
  BY <1>1, <1>5, FileVersion
<1>6. CASE gen[Worker].step = "written" /\ file' = tmp
  <2>1. file' = Whole(gen[Worker].cfg) /\ file.ver <= gen[Worker].cfg.ver
    BY <1>6 DEF WritesAlone
  <2> QED
    BY <1>1, <2>1, FileFacts
<1> QED
  BY <1>4, <1>5, <1>6

-----------------------------------------------------------------------------
(* The theorems. *)

(* The manager's side of the initial states, with and without a kernel. *)
LEMMA ManagerStarts ==
  ASSUME ReconcileInit
  PROVE  /\ TypeOK /\ ManagerInv /\ op = [c \in Callers |-> NoOp]
         /\ file \in {Missing, Whole(Committed)} /\ loaded \in [Kernels -> Files]
<1>1. 0 \in 0..MaxCommits /\ ver = 0
  BY ReconcileBounds DEF ReconcileInit
<1>2. CASE InitStarted
  <2>1. Init
    BY <1>2 DEF InitStarted
  <2>2. StarterHoldsLock
    BY <2>1, IdleTypes DEF Init, StarterHoldsLock
  <2>3. LiveIsTracked /\ UnbornAfterCmd
    BY <2>1, IdleTypes, BoundTypes
    DEF Init, LiveIsTracked, UnbornAfterCmd, Unpublished, Kernels
  <2>4. ~running /\ op = [c \in Callers |-> NoOp]
    BY <2>1 DEF Init
  <2>5. file \in {Missing, Whole(Committed)} /\ loaded \in [Kernels -> Files]
    BY <1>2, FileFacts DEF InitStarted
  <2> QED
    BY <2>1, <2>2, <2>3, <2>4, <2>5, TypeInit DEF ManagerInv
<1>3. CASE InitRunning
  <2>1. /\ mu = None /\ running = TRUE /\ cmd = 1 /\ tun \in BOOLEAN
        /\ rules = (IF tun THEN "start" ELSE "none") /\ sync = "none"
        /\ kernel = [k \in Kernels |-> IF k = 1
             THEN [life |-> "alive", guarded |-> tun, signal |-> "none"] ELSE NoKernel]
        /\ exited = {} /\ op = [c \in Callers |-> NoOp]
        /\ toggles = 0 /\ deaths = 0 /\ restoreFaults = 0
        /\ file = Whole(Committed)
        /\ loaded = [k \in Kernels |-> IF k = 1 THEN file ELSE Missing]
    BY <1>3 DEF InitRunning
  <2>2. 1 \in Kernels /\ 1 \in 0..MaxKernels
    BY ReconcileBounds DEF Kernels
  <2>3. TypeOK
    <3>1. kernel \in [Kernels -> Kernel]
      <4>1. [life |-> "alive", guarded |-> tun, signal |-> "none"] \in Kernel
        BY <2>1 DEF Kernel, Lives
      <4> QED
        BY <2>1, <4>1, IdleTypes
    <3>2. op \in [Callers -> Op]
      BY <2>1, IdleTypes
    <3>3. 0 \in 0..MaxToggles /\ 0 \in 0..MaxDeaths /\ 0 \in 0..MaxRestoreFaults
      BY BoundTypes
    <3> QED
      BY <2>1, <2>2, <3>1, <3>2, <3>3 DEF TypeOK, Routes, Syncs
  <2>4. ManagerInv
    <3>1. \A k \in Kernels : kernel[k].life = IF k = 1 THEN "alive" ELSE "unborn"
      BY <2>1, IdleTypes
    <3>2. \A k \in Kernels : k > 1 <=> k # 1
      BY DEF Kernels
    <3>3. \A c \in Callers : op[c].step = "idle"
      BY <2>1, IdleTypes
    <3> QED
      BY <2>1, <3>1, <3>2, <3>3
      DEF ManagerInv, StarterHoldsLock, LiveIsTracked, UnbornAfterCmd, Unpublished
  <2>5. loaded \in [Kernels -> Files]
    <3>1. Committed \in Content
      BY <1>1, <2>1, CommittedContent
    <3>2. file \in Files /\ Missing \in Files
      BY <2>1, <3>1, FileFacts
    <3> QED
      BY <2>1, <3>2
  <2> QED
    BY <2>1, <2>3, <2>4, <2>5
<1> QED
  BY <1>2, <1>3 DEF ReconcileInit

(* The initial states satisfy the invariant. *)
LEMMA RInit == ReconcileInit => RInv
<1> SUFFICES ASSUME ReconcileInit PROVE RInv
  OBVIOUS
<1>1. /\ ver = 0 /\ post = [h \in Posters |-> NoPost] /\ queue = <<>>
      /\ swapped = FALSE /\ aside = FALSE /\ worker = NoWork
      /\ gen = [c \in Callers |-> NoGen] /\ tmp = Missing
      /\ genFaults = 0 /\ setupFaults = 0 /\ reloadFaults = 0
  BY DEF ReconcileInit
<1>2. /\ TypeOK /\ ManagerInv /\ op = [c \in Callers |-> NoOp]
      /\ file \in {Missing, Whole(Committed)} /\ loaded \in [Kernels -> Files]
  BY ManagerStarts
<1>3. Committed \in Content /\ Committed.ver = 0 /\ Missing.ver = 0
  <2>1. ver \in 0..MaxCommits /\ tun \in BOOLEAN
    BY <1>1, <1>2, ReconcileBounds DEF TypeOK
  <2> QED
    BY <1>1, <2>1, CommittedContent DEF Missing
<1>4. file \in Files /\ tmp \in Files /\ file.ver = 0
  BY <1>1, <1>2, <1>3, FileFacts
<1>5. ReconcileTypeOK
  <2>1. ver \in 0..MaxCommits /\ genFaults \in 0..MaxGenFaults
        /\ setupFaults \in 0..MaxSetupFaults /\ reloadFaults \in 0..MaxReloadFaults
    BY <1>1, ReconcileBounds
  <2>2. queue \in Seq(Request) /\ Len(queue) <= QueueCap
    BY <1>1, EmptySeq, ReconcileBounds
  <2>3. post \in [Posters -> Posts] /\ worker \in Works /\ gen \in [Callers -> Gen]
    BY <1>1, IdleRecords
  <2>4. {swapped, aside} \subseteq BOOLEAN
    BY <1>1
  <2> QED
    BY <1>2, <1>4, <2>1, <2>2, <2>3, <2>4 DEF ReconcileTypeOK
<1>6. /\ \A c \in Callers : gen[c].step = "idle" /\ op[c].step = "idle"
      /\ \A h \in Posters : post[h].step = "idle"
      /\ worker.step = "idle" /\ Worker \in Callers
  BY <1>1, <1>2, IdleRecords, IdleTypes, ReconcileBounds
<1>7. OneThingAtATime /\ SnapshotsAreTrue /\ SnapshotCoversRequest
  BY <1>6 DEF OneThingAtATime, SnapshotsAreTrue, SnapshotCoversRequest
<1>8. NothingIsAhead
  <2>1. Len(queue) = 0
    BY <1>1, EmptySeq
  <2> QED
    BY <1>1, <1>3, <1>4, <1>6, <2>1 DEF NothingIsAhead
<1>9. WritesAlone
  BY <1>2, <1>3, <1>6 DEF WritesAlone, FileIsWhole
<1>10. AppliedInv
  BY <1>6 DEF AppliedInv, Past, Applied
<1> QED
  BY <1>1, <1>2, <1>5, <1>7, <1>8, <1>9, <1>10 DEF RInv

(* The inductive invariant holds initially and is kept by every step. *)
THEOREM ReconcileInductive == ReconcileSpec => []RInv
<1>1. RInv /\ [ReconcileNext]_allVars => RInv'
  <2> SUFFICES ASSUME RInv, [ReconcileNext]_allVars PROVE RInv'
    OBVIOUS
  <2> USE DEF RInv
  <2>1. ReconcileTypeOK' /\ ManagerInv' /\ OneThingAtATime' /\ NothingIsAhead'
    BY ReconcileTypeStep, ManagerStep, OneThingStep, NothingStep DEF ReconcileTypeOK
  <2>2. SnapshotsAreTrue' /\ SnapshotCoversRequest'
    BY TrueStep, CoversStep
  <2>3. ~aside' => ~aside
    BY AsideRemembers
  <2>4. ~aside' => WritesAlone'
    BY <2>3, AloneStep
  <2>5. ~aside' => AppliedInv'
    BY <2>3, AppliedStep
  <2>6. ~aside' /\ genFaults' = 0 /\ ver' > 0 => Pending'
    <3> SUFFICES ASSUME ~aside', genFaults' = 0, ver' > 0 PROVE Pending'
      OBVIOUS
    <3>1. genFaults = 0
      <4>1. genFaults \in Nat
        BY DEF ReconcileTypeOK
      <4>2. genFaults' = genFaults \/ genFaults' = genFaults + 1
        BY FaultsGrow
      <4> QED
        BY <4>1, <4>2
    <3> QED
      BY <2>3, <3>1, PendingStep
  <2> QED
    BY <2>1, <2>2, <2>4, <2>5, <2>6
<1> QED
  BY <1>1, RInit, PTL DEF ReconcileSpec

(* Every variable keeps its type, beside a start handler too. *)
THEOREM ReconcileTypes == ReconcileSpec => []ReconcileTypeOK
<1>1. RInv => ReconcileTypeOK
  BY DEF RInv
<1> QED
  BY <1>1, ReconcileInductive, PTL

(* The daemon that reconciles never runs two kernels either. *)
THEOREM OneReconciledKernel == ReconcileSpec => []OneKernel
<1>1. RInv => OneKernel
  BY DEF RInv, ManagerInv, LiveIsTracked, OneKernel, Unpublished
<1> QED
  BY <1>1, ReconcileInductive, PTL

(* Until the start handler generates beside the queue, the kernel's file is *)
(* never half written.                                                      *)
THEOREM SoundUntilAside == ReconcileSpec => [](~aside => FilesAreSound)
<1>1. RInv => (~aside => FilesAreSound)
  BY DEF RInv, WritesAlone, FilesAreSound
<1> QED
  BY <1>1, ReconcileInductive, PTL

(* What the worker generates and what it reports are never older than the   *)
(* commit it was asked to apply.                                            *)
THEOREM WorkStaysCurrent == ReconcileSpec => []WorkIsCurrent
<1>1. RInv => WorkIsCurrent
  <2> SUFFICES ASSUME RInv PROVE AppliedMeansLoaded
    BY DEF RInv, WorkIsCurrent
  <2> SUFFICES ASSUME ~aside, worker.step = "report", worker.ok, running,
                      kernel[cmd].life = "alive"
               PROVE  loaded[cmd].ver >= worker.req.ver
    BY DEF AppliedMeansLoaded
  <2>1. cmd \in Kernels
    BY ReconcileBounds DEF RInv, ManagerInv, ReconcileTypeOK, TypeOK, Kernels
  <2> QED
    BY <2>1 DEF RInv, AppliedInv, Applied
<1> QED
  BY <1>1, ReconcileInductive, PTL

(* Once everything has settled, and nothing could not be generated, the     *)
(* kernel's file is that of the last commit, in whatever order the requests *)
(* were queued and whoever gave up waiting.                                 *)
THEOREM LatestUntilAside ==
  ReconcileSpec => [](~aside /\ genFaults = 0 => LatestIsGenerated)
<1>1. RInv => (~aside /\ genFaults = 0 => LatestIsGenerated)
  <2> SUFFICES ASSUME RInv, ~aside, genFaults = 0, Quiet, ver > 0
               PROVE  file = Whole(Committed)
    BY DEF LatestIsGenerated
  <2>1. worker.step = "idle" /\ gen[Worker].step = "idle"
    BY ReconcileBounds, IdleRecords DEF Quiet
  <2> QED
    BY <2>1 DEF RInv, Pending, Quiet
<1> QED
  BY <1>1, ReconcileInductive, PTL

(* Until the start handler generates beside the queue, no older             *)
(* configuration overwrites a newer one in the kernel's file.               *)
THEOREM ForwardUntilAside ==
  ReconcileSpec => [][~aside' => (file'.state = "whole" => file'.ver >= file.ver)]_allVars
<1>1. RInv /\ [ReconcileNext]_allVars
        => [~aside' => (file'.state = "whole" => file'.ver >= file.ver)]_allVars
  <2> SUFFICES ASSUME RInv, [ReconcileNext]_allVars, ~aside' PROVE file'.ver >= file.ver
    OBVIOUS
  <2> QED
    BY FileGoesOn, AsideRemembers DEF RInv
<1> QED
  BY <1>1, ReconcileInductive, PTL DEF ReconcileSpec

(* Without a start handler nobody generates beside the queue. *)
LEMMA NobodyAside ==
  ASSUME Starters = {}
  PROVE  ReconcileSpec => []~aside
<1>1. ReconcileInit => ~aside
  BY DEF ReconcileInit
<1>2. ~aside /\ [ReconcileNext]_allVars => ~aside'
  <2> SUFFICES ASSUME ~aside, [ReconcileNext]_allVars PROVE ~aside'
    OBVIOUS
  <2>1. CASE Snapshot(Worker)
    BY <2>1 DEF Snapshot
  <2>2. CASE ~Snapshot(Worker)
    BY <2>2, AsideKept
  <2> QED
    BY <2>1, <2>2
<1> QED
  BY <1>1, <1>2, PTL DEF ReconcileSpec

(* The kernel's file is never half written. *)
THEOREM Sound ==
  ASSUME Starters = {}
  PROVE  ReconcileSpec => []FilesAreSound
  BY NobodyAside, SoundUntilAside, PTL

(* No older configuration overwrites a newer one in the kernel's file. *)
THEOREM Forward ==
  ASSUME Starters = {}
  PROVE  ReconcileSpec => FileGoesForward
  BY NobodyAside, ForwardUntilAside, PTL DEF FileGoesForward
-----------------------------------------------------------------------------
(* What it ends with when the worker is alone with the process manager:     *)
(* nobody else starts, stops or restarts the kernel, a kernel obeys SIGTERM *)
(* in time and does not die unasked. (With another caller, with a kernel    *)
(* that is slow to go or with one that dies, routes can be removed under a  *)
(* kernel that has just been started: MihomoProcess.)                       *)

(* The worker is alone with kernels that obey. *)
Alone == Users = {} /\ ~Slow

-----------------------------------------------------------------------------
(* The inductive invariant, in parts. *)

(* p.running holds only while the exit of p.cmd is not published. *)
RunningIsUnpublished == running => Unpublished(cmd)

(* No kernel runs or is on its way out. *)
Gone == \A k \in Kernels : kernel[k].life \in {"unborn", "done"}

(* No kernel but the one that runs, which nobody has signalled. *)
Calm ==
  \A k \in Kernels :
    \/ kernel[k].life \in {"unborn", "done"}
    \/ k = cmd /\ kernel[k].life = "alive" /\ kernel[k].signal = "none" /\ running

(* The steps of a Restart that has waited out the old kernel. *)
AfterStop == {"start", "prepare", "spawn", "rollback", "error", "kill", "not running"}

(* Only the worker's own Restart takes a kernel down, and waits it out. *)
OnlyRestartStops ==
  LET w == op[Worker] IN
  /\ w.step # "wait kill"
  /\ w.step # "wait term" => Calm
  /\ w.step \in AfterStop => Gone
  /\ w.step = "term" => w.target = cmd
  /\ w.step = "wait term" =>
       /\ w.target = cmd
       /\ \A k \in Kernels \ {cmd} : kernel[k].life \in {"unborn", "done"}
  /\ w.step \in {"term", "wait term", "kill"} => w.target \in Kernels
  /\ w.step = "settle" => w.target \in Kernels /\ kernel[w.target].life = "alive"

(* The request r waits to be queued or to be taken. *)
Waiting(r) ==
  \/ \E h \in Posters : post[h].step = "committed" /\ post[h].req = r
  \/ \E i \in 1..Len(queue) : queue[i] = r

InWork(r) == worker.step # "idle" /\ worker.req = r

On(r) == r.sync /\ r.tun

Off(r) == r.sync /\ ~r.tun

(* Requests come in the order of their commits. *)
InOrder ==
  /\ \A i, j \in 1..Len(queue) : i < j => queue[i].ver <= queue[j].ver
  /\ \A i \in 1..Len(queue), h \in Posters :
       post[h].step = "committed" => queue[i].ver <= post[h].req.ver
  /\ \A r, s \in Request : InWork(r) /\ Waiting(s) => r.ver <= s.ver

(* As long as TUN is wanted, whoever turns it off is followed by one who    *)
(* turns it on.                                                             *)
OffIsFollowed ==
  tun => \A o \in Request :
    Off(o) /\ (Waiting(o) \/ InWork(o)) =>
      \E r \in Request : On(r) /\ Waiting(r) /\ r.ver > o.ver

(* The worker removes the routes only for a request that turns TUN off. *)
CleanupIsOff == worker.step = "cleanup" => Off(worker.req)

(* The worker has not come to the routes of its request. *)
BeforeRoutes == worker.step \in {"generate", "check", "setup"}

(* A kernel runs or is about to. *)
Up == (\E k \in Kernels : kernel[k].life = "alive") \/ op[Worker].step = "spawn"

(* The request r is going to install routes. *)
Coming(r) == Waiting(r) \/ (BeforeRoutes /\ InWork(r))

(* Routes that are wanted and not there are going to be installed. *)
RoutesAreComing ==
  Up /\ tun /\ rules = "none" => \E r \in Request : On(r) /\ Coming(r)

(* The worker is still going to load the kernel. *)
StillToLoad ==
  \/ worker.step \in {"generate", "check", "setup", "reload"}
  \/ worker.step = "restart" /\ op[Worker].step \notin {"settle", "ok"}

(* Something is still going to load the kernel. *)
Loading ==
  \/ \E h \in Posters : post[h].step = "committed"
  \/ queue # <<>>
  \/ StillToLoad

(* A kernel that runs has the last commit, or is going to load it. *)
LatestIsLoaded ==
  Loading \/ \A k \in Kernels : kernel[k].life = "alive" => loaded[k] = Whole(Committed)

SInv ==
  /\ RInv
  /\ ~aside
  /\ PostedWhenDone
  /\ RunningIsUnpublished
  /\ CleanupIsOff
  /\ deaths = 0 => OnlyRestartStops
  /\ ~swapped => InOrder /\ OffIsFollowed
  /\ genFaults = 0 => gen[Worker].step # "failed"
  /\ deaths = 0 /\ genFaults = 0 /\ setupFaults = 0 => LatestIsLoaded
  /\ deaths = 0 /\ genFaults = 0 /\ setupFaults = 0 /\ ~swapped => RoutesAreComing

-----------------------------------------------------------------------------
(* Who moves what, when the worker is alone. *)

(* The manager's steps are the worker's and the kernels'. *)
LEMMA AloneMoves ==
  ASSUME Alone, [ReconcileNext]_allVars
  PROVE  \/ UNCHANGED processVars
         \/ ReloadFails \/ Restarted \/ Calls(Worker)
         \/ \E k \in Kernels : Waits(k) \/ Exits(k)
<1>1. Callers = {Worker} /\ Users = {} /\ Starters = {}
  BY ReconcileAssumption DEF Alone
<1>2. CASE Beside \/ UNCHANGED allVars
  BY <1>2
  DEF allVars, Beside, Enqueue, PostTimesOut, WorkerBeside, Take, Snapshot, Generated,
      CheckRunning, Report, Reload, GenStep, GenFails, Open, Write, Rename,
      RenameFails, WriteFails,
      ChmodFails, RenameRefused, Replace, GenFault, GivesUp, vars
<1>3. CASE InstallRules \/ RemoveRules \/ \E h \in Posters : Commit(h)
  BY <1>3 DEF InstallRules, RemoveRules, Commit
<1> QED
  BY <1>1, <1>2, <1>3 DEF ReconcileNext, WorkerStep, Beside, WorkerBeside

(* What a step of a call does to the call, to the kernels and to the routes. *)
LEMMA CallEffect ==
  ASSUME TypeOK, NEW c \in Callers, CallerStep(c)
  PROVE  LET s == op[c].step
             t == op'[c].step
         IN
         /\ UNCHANGED <<tun, toggles, sync, deaths>>
         /\ \/ Spawn(c)
            \/ UNCHANGED <<kernel, cmd, running>>
            \/ Term(c) /\ Signalable(op[c].target)
            \/ Kill(c) /\ Signalable(op[c].target)
         /\ \/ UNCHANGED rules
            \/ s = "prepare" /\ t = "error"
            \/ s = "rollback" /\ t = "error"
            \/ s = "prepare" /\ t = "spawn" /\ tun
         /\ \/ s = "start" /\ t \in {"error", "prepare"}
            \/ s = "prepare" /\ t = "error"
            \/ s = "prepare" /\ t = "spawn" /\ (tun => rules' # "none")
            \/ s = "spawn" /\ t = "settle" /\ Spawn(c) /\ op'[c].target = cmd + 1
            \/ s = "spawn" /\ t \in {"rollback", "error"}
            \/ s = "rollback" /\ t = "error"
            \/ s = "settle" /\ t = "error" /\ op[c].target \in exited
            \/ s = "settle" /\ t = "ok"
            \/ s = "stop" /\ t = "term" /\ running /\ op'[c].target = cmd
            \/ s = "stop" /\ t \in {"start", "not running"} /\ ~running
            \/ s = "term" /\ t = "wait term" /\ op'[c].target = op[c].target
            \/ s = "term" /\ t = "error" /\ ~Signalable(op[c].target) /\ UNCHANGED kernel
            \/ s = "kill" /\ t = "wait kill" /\ Signalable(op[c].target)
            \/ s = "kill" /\ t = "error"
            \/ s \in {"wait term", "wait kill"} /\ t \in {"start", "ok"}
               /\ op[c].target \in exited
            \/ s = "wait term" /\ t = "kill" /\ TimesOut(c) /\ op'[c].target = op[c].target
            \/ s = "wait kill"
<1> USE DEF TypeOK
<1>1. ASSUME NEW this, NEW that, Go(c, this, that)
      PROVE  /\ op[c].step = this /\ op'[c].step = that /\ op'[c].target = op[c].target
  BY <1>1 DEF Go, Op
<1>2. CASE LockStart(c)
  BY <1>1, <1>2 DEF LockStart, bounds
<1>3. CASE Refuse(c)
  BY <1>1, <1>3 DEF Refuse, bounds
<1>4. CASE Prepare(c)
  <2>1. op[c].step = "prepare" /\ op'[c].step = "spawn"
    BY <1>4 DEF Prepare, Op
  <2> QED
    BY <1>4, <2>1 DEF Prepare, Setup
<1>5. CASE PrepareFails(c)
  BY <1>1, <1>5 DEF PrepareFails
<1>6. CASE Spawn(c)
  <2>1. op[c].step = "spawn" /\ op'[c].step = "settle" /\ op'[c].target = cmd + 1
    BY <1>6 DEF Spawn, Op
  <2> QED
    BY <1>6, <2>1 DEF Spawn, bounds
<1>7. CASE SpawnFails(c)
  BY <1>1, <1>7 DEF SpawnFails, bounds
<1>8. CASE Rollback(c)
  <2>1. op[c].step = "rollback" /\ op'[c].step = "error"
    BY <1>8 DEF Rollback, Op
  <2> QED
    BY <1>8, <2>1 DEF Rollback
<1>9. CASE SettleExited(c)
  BY <1>1, <1>9 DEF SettleExited, bounds
<1>10. CASE SettleOver(c)
  BY <1>1, <1>10 DEF SettleOver, bounds
<1>11. CASE LookUp(c)
  <2>1. CASE running
    <3>1. op' = [op EXCEPT ![c].step = "term", ![c].target = cmd]
      BY <1>11, <2>1 DEF LookUp
    <3>2. op[c].step = "stop" /\ op'[c].step = "term" /\ op'[c].target = cmd
      BY <1>11, <3>1 DEF LookUp, Op
    <3> QED
      BY <1>11, <2>1, <3>2 DEF LookUp, bounds
  <2>2. CASE ~running
    <3>1. PICK s \in {"start", "not running"} : op' = [op EXCEPT ![c].step = s]
      BY <1>11, <2>2 DEF LookUp
    <3>2. op[c].step = "stop" /\ op'[c].step = s
      BY <1>11, <3>1 DEF LookUp, Op
    <3> QED
      BY <1>11, <2>2, <3>2 DEF LookUp, bounds
  <2> QED
    BY <2>1, <2>2
<1>12. CASE Term(c)
  BY <1>1, <1>12 DEF Term, Signal, bounds
<1>13. CASE Kill(c)
  BY <1>1, <1>13 DEF Kill, Signal, bounds
<1>14. CASE Receive(c)
  <2>1. Stopped(c) \in {"start", "ok"}
    BY DEF Stopped
  <2> QED
    BY <1>1, <1>14, <2>1 DEF Receive, bounds
<1>15. CASE TermTimesOut(c)
  BY <1>1, <1>15 DEF TermTimesOut, bounds
<1>16. CASE KillTimesOut(c)
  BY <1>1, <1>16 DEF KillTimesOut, bounds
<1> QED
  BY <1>2, <1>3, <1>4, <1>5, <1>6, <1>7, <1>8, <1>9, <1>10, <1>11, <1>12, <1>13,
     <1>14, <1>15, <1>16 DEF CallerStep

-----------------------------------------------------------------------------
(* The manager's part of the invariant. *)

(* An exit is posted last. *)
LEMMA PostedKept ==
  ASSUME RInv, PostedWhenDone, [ReconcileNext]_allVars
  PROVE  PostedWhenDone'
<1>1. TypeOK /\ ManagerInv
  BY DEF RInv, ReconcileTypeOK
<1>2. CASE [Next]_vars
  BY <1>1, <1>2, PostedStep DEF ManagerInv
<1>3. CASE UNCHANGED processVars
  BY <1>3 DEF processVars, PostedWhenDone
<1> QED
  BY <1>1, <1>2, <1>3, ProcessStep

(* p.running is cleared when the exit of p.cmd is published. *)
LEMMA UnpublishedKept ==
  ASSUME RInv, RunningIsUnpublished, [ReconcileNext]_allVars
  PROVE  RunningIsUnpublished'
<1>1. TypeOK /\ ManagerInv /\ kernel \in [Kernels -> Kernel]
  BY DEF RInv, ReconcileTypeOK, TypeOK
<1>2. running => cmd \in Kernels
  BY <1>1, BoundTypes DEF ManagerInv, TypeOK, Kernels
<1>3. ASSUME NEW c \in Callers, Spawn(c) PROVE RunningIsUnpublished'
  <2>1. kernel'[cmd'].life = "alive"
    BY <1>1, <1>3, SpawnMoves DEF ManagerInv
  <2> QED
    BY <2>1 DEF RunningIsUnpublished, Unpublished
<1>4. ASSUME NEW c \in Callers,
             \/ Outside(c) \/ LockStart(c) \/ Refuse(c) \/ Prepare(c)
             \/ PrepareFails(c) \/ SpawnFails(c)
      PROVE  RunningIsUnpublished'
  BY <1>1, <1>2, <1>4, CallersKeepKernels DEF RunningIsUnpublished, Unpublished
<1>5. ASSUME NEW k \in Kernels, WaiterStep(k) \/ KernelStep(k)
      PROVE  RunningIsUnpublished'
  <2>1. CASE Mark(k)
    BY <2>1 DEF Mark, RunningIsUnpublished
  <2>2. CASE ~Mark(k)
    <3>1. UNCHANGED running
      BY <1>5, <2>2 DEF WaiterStep, KernelStep, Reap, Cleanup, Notify, Killed,
                        Terminated, Dies, Die
    <3>2. kernel[k].life = "waited" => Mark(k)
      BY <1>5 DEF WaiterStep, KernelStep, Reap, Cleanup, Notify, Killed, Terminated,
                  Dies, Die, Advance
    <3>3. Unpublished(k) => kernel'[k].life \in {"alive", "dead", "waited"}
      BY <1>1, <1>5, <2>2, <3>2, KernelMoves DEF Unpublished
    <3> QED
      BY <1>1, <1>2, <1>5, <3>1, <3>3, KernelMoves DEF RunningIsUnpublished, Unpublished
  <2> QED
    BY <2>1, <2>2
<1>6. CASE Toggle \/ SyncStep \/ UNCHANGED processVars
  <2>1. UNCHANGED <<running, cmd, kernel>>
    BY <1>6, SyncKeeps DEF processVars
  <2> QED
    BY <2>1 DEF RunningIsUnpublished, Unpublished
<1>7. UNCHANGED vars => UNCHANGED processVars
  BY DEF vars
<1> QED
  BY <1>1, <1>3, <1>4, <1>5, <1>6, <1>7, ProcessStep, NextCases

(* Nothing unasked happens to a kernel without a death. *)
LEMMA DeathsGrow ==
  ASSUME Alone, ReconcileTypeOK, [ReconcileNext]_allVars, deaths' = 0
  PROVE  deaths = 0 /\ \A k \in Kernels : ~Dies(k)
<1>1. deaths \in Nat /\ TypeOK /\ Worker \in Callers
  BY ReconcileBounds DEF ReconcileTypeOK, TypeOK
<1>2. ASSUME NEW k \in Kernels, Dies(k) PROVE deaths' = deaths + 1
  BY <1>2 DEF Dies
<1>3. deaths' = deaths \/ deaths' = deaths + 1
  <2>1. CASE Beside \/ UNCHANGED allVars
    BY <2>1
    DEF allVars, Beside, Enqueue, PostTimesOut, WorkerBeside, Take, Snapshot, Generated,
        CheckRunning, Report, Reload, GenStep, GenFails, Open, Write, Rename,
        RenameFails, WriteFails,
        ChmodFails, RenameRefused, Replace, GenFault, GivesUp, vars
  <2>2. CASE InstallRules \/ RemoveRules \/ \E h \in Posters : Commit(h)
    BY <2>2 DEF InstallRules, RemoveRules, Commit, bounds
  <2>3. CASE ReloadFails \/ Restarted
    BY <2>3 DEF ReloadFails, Restarted, BeginRestart, Begin, Return, bounds
  <2>4. CASE Calls(Worker)
    BY <1>1, <2>4, CallEffect DEF Calls
  <2>5. CASE \E k \in Kernels : Waits(k) \/ Exits(k)
    BY <2>5 DEF Waits, Exits, WaiterStep, KernelStep, Reap, Mark, Cleanup, Notify,
                Killed, Terminated, Dies, Die, bounds
  <2>6. Callers = {Worker} /\ Users = {} /\ Starters = {}
    BY ReconcileAssumption DEF Alone
  <2> QED
    BY <2>1, <2>2, <2>3, <2>4, <2>5, <2>6
    DEF ReconcileNext, WorkerStep, Beside, WorkerBeside
<1> QED
  BY <1>1, <1>2, <1>3

(* Only the worker's own Restart takes a kernel down, and waits it out. *)
LEMMA StopsKept ==
  ASSUME Alone, RInv, PostedWhenDone, RunningIsUnpublished, OnlyRestartStops,
         [ReconcileNext]_allVars, deaths' = 0
  PROVE  OnlyRestartStops'
<1> DEFINE s == op[Worker].step
           t == op'[Worker].step
<1>1. /\ TypeOK /\ ManagerInv /\ kernel \in [Kernels -> Kernel] /\ Worker \in Callers
      /\ op \in [Callers -> Op]
  BY ReconcileBounds DEF RInv, ReconcileTypeOK, TypeOK
<1>2. running => cmd \in Kernels
  BY <1>1, BoundTypes DEF ManagerInv, TypeOK, Kernels
<1>3. Gone => Calm
  BY DEF Gone, Calm
<1>4. \A k \in Kernels : ~Dies(k)
  BY DeathsGrow DEF RInv
<1>5. CASE UNCHANGED processVars
  BY <1>5 DEF processVars, OnlyRestartStops, Calm, Gone, AfterStop
<1>6. CASE ReloadFails
  <2>1. s = "idle" /\ t = "stop" /\ UNCHANGED <<kernel, cmd, running>>
    BY <1>1, <1>6 DEF ReloadFails, BeginRestart, Begin, NoOp
  <2> QED
    BY <2>1 DEF OnlyRestartStops, Calm, AfterStop
<1>7. CASE Restarted
  <2>1. s \in Outcomes /\ t = "idle" /\ UNCHANGED <<kernel, cmd, running>>
    BY <1>1, <1>7, IdleTypes DEF Restarted, Return
  <2> QED
    BY <2>1 DEF OnlyRestartStops, Calm, AfterStop, Outcomes
<1>8. CASE Calls(Worker)
  <2>1. CallerStep(Worker)
    BY <1>8 DEF Calls
  <2>2. CASE Spawn(Worker)
    <3>1. s = "spawn" /\ t = "settle" /\ op'[Worker].target = cmd'
      BY <1>1, <2>2 DEF Spawn, Op
    <3>2. /\ cmd' \in Kernels /\ running' /\ kernel'[cmd'].life = "alive"
          /\ \A k \in Kernels : k # cmd' => kernel'[k] = kernel[k]
      BY <1>1, <2>2, SpawnMoves DEF ManagerInv
    <3>3. kernel'[cmd'].signal = "none"
      <4>1. kernel' = [kernel EXCEPT ![cmd'] =
              [life |-> "alive", guarded |-> op[Worker].guards, signal |-> "none"]]
        BY <2>2 DEF Spawn
      <4> QED
        BY <1>1, <3>2, <4>1
    <3>4. Gone
      BY <3>1 DEF OnlyRestartStops, AfterStop
    <3>5. Calm'
      BY <3>2, <3>3, <3>4 DEF Gone, Calm
    <3> QED
      BY <3>1, <3>2, <3>5 DEF OnlyRestartStops, AfterStop
  <2>3. CASE Kill(Worker) /\ Signalable(op[Worker].target)
    <3>1. s = "kill"
      BY <2>3 DEF Kill, Signal
    <3>2. Gone /\ op[Worker].target \in Kernels
      BY <3>1 DEF OnlyRestartStops, AfterStop
    <3> QED
      BY <2>3, <3>2 DEF Signalable, Gone
  <2>4. CASE Term(Worker) /\ Signalable(op[Worker].target)
    <3>1. s = "term" /\ t = "wait term" /\ op'[Worker].target = op[Worker].target
      <4>1. s = "term" /\ op' = [op EXCEPT ![Worker].step = "wait term"]
        BY <2>4 DEF Term, Signal, Go
      <4> QED
        BY <1>1, <4>1 DEF Op
    <3>2. op[Worker].target = cmd /\ cmd \in Kernels /\ Calm
      BY <3>1 DEF OnlyRestartStops
    <3>3. \A k \in Kernels : kernel'[k].life = kernel[k].life
      BY <1>1, <2>4, CallersKeepKernels DEF Outside
    <3>4. cmd' = cmd
      BY <2>4 DEF Term, Signal
    <3> QED
      BY <3>1, <3>2, <3>3, <3>4 DEF OnlyRestartStops, Calm, AfterStop
  <2>5. CASE UNCHANGED <<kernel, cmd, running>>
    <3>1. Gone' = Gone /\ Calm' = Calm
      BY <2>5 DEF Gone, Calm
    <3>2. s # "wait kill"
      BY DEF OnlyRestartStops
    <3>3. s \notin {"wait term", "settle", "term", "kill"} /\ t # "settle" => OnlyRestartStops'
      <4> SUFFICES ASSUME s \notin {"wait term", "settle", "term", "kill"}, t # "settle"
                   PROVE  OnlyRestartStops'
        OBVIOUS
      <4>1. Calm
        BY DEF OnlyRestartStops
      <4>2. Calm /\ ~running => Gone
        BY DEF Calm, Gone
      <4>3. t \notin {"wait kill", "wait term", "kill"}
        BY <1>1, <2>1, CallEffect, <3>2
      <4>4. t \in AfterStop => Gone
        BY <1>1, <2>1, <4>1, <4>2, CallEffect, <3>2 DEF OnlyRestartStops, AfterStop
      <4>5. t = "term" => running /\ op'[Worker].target = cmd
        BY <1>1, <2>1, CallEffect, <3>2
      <4> QED
        BY <1>2, <2>5, <3>1, <4>1, <4>3, <4>4, <4>5 DEF OnlyRestartStops
    <3>4. CASE s = "settle"
      <4>1. op[Worker].target \notin exited
        BY <3>4 DEF OnlyRestartStops, PostedWhenDone
      <4>2. t = "ok"
        BY <1>1, <2>1, <3>4, <4>1, CallEffect
      <4> QED
        BY <3>1, <3>4, <4>2 DEF OnlyRestartStops, AfterStop
    <3>5. CASE s = "term"
      <4>1. Calm /\ op[Worker].target = cmd /\ cmd \in Kernels
        BY <3>5 DEF OnlyRestartStops
      <4>2. CASE t = "error"
        <5>1. ~Signalable(cmd)
          BY <1>1, <2>1, <3>5, <4>1, <4>2, CallEffect
        <5>2. Gone
          BY <4>1, <5>1 DEF Calm, Gone, Signalable
        <5> QED
          BY <1>3, <3>1, <4>2, <5>2 DEF OnlyRestartStops
      <4>3. CASE t = "wait term" /\ op'[Worker].target = op[Worker].target
        BY <2>5, <4>1, <4>3 DEF OnlyRestartStops, Calm, AfterStop
      <4> QED
        BY <1>1, <2>1, <3>5, <4>2, <4>3, CallEffect
    <3>6. CASE s = "kill"
      <4>1. Gone /\ op[Worker].target \in Kernels
        BY <3>6 DEF OnlyRestartStops, AfterStop
      <4>2. ~Signalable(op[Worker].target)
        BY <4>1 DEF Gone, Signalable
      <4>3. t = "error"
        BY <1>1, <2>1, <3>6, <4>2, CallEffect
      <4> QED
        BY <1>3, <3>1, <4>1, <4>3 DEF OnlyRestartStops
    <3>7. CASE s = "wait term"
      <4>1. /\ op[Worker].target = cmd /\ cmd \in Kernels
            /\ \A k \in Kernels \ {cmd} : kernel[k].life \in {"unborn", "done"}
        BY <3>7 DEF OnlyRestartStops
      <4>2. CASE t \in {"start", "ok"} /\ op[Worker].target \in exited
        <5>1. Gone
          BY <4>1, <4>2 DEF PostedWhenDone, Gone
        <5> QED
          BY <1>3, <3>1, <4>2, <5>1 DEF OnlyRestartStops
      <4>3. CASE t = "kill" /\ TimesOut(Worker) /\ op'[Worker].target = op[Worker].target
        <5>1. kernel[cmd].life = "done"
          BY <4>1, <4>3 DEF TimesOut, Alone
        <5>2. Gone
          BY <4>1, <5>1 DEF Gone
        <5> QED
          BY <1>3, <3>1, <4>1, <4>3, <5>2 DEF OnlyRestartStops
      <4> QED
        BY <1>1, <2>1, <3>7, <4>2, <4>3, CallEffect
    <3>8. t = "settle" => Spawn(Worker)
      BY <1>1, <2>1, CallGoesOn
    <3> QED
      BY <2>2, <3>3, <3>4, <3>5, <3>6, <3>7, <3>8
  <2> QED
    BY <1>1, <2>1, <2>2, <2>3, <2>4, <2>5, CallEffect
<1>9. ASSUME NEW k \in Kernels, Waits(k) \/ Exits(k)
      PROVE  OnlyRestartStops'
  <2>1. WaiterStep(k) \/ KernelStep(k)
    BY <1>9 DEF Waits, Exits
  <2>2. /\ \A j \in Kernels : j # k => kernel'[j] = kernel[j]
        /\ kernel[k].life \notin {"unborn", "done"}
        /\ UNCHANGED <<cmd, op>>
    BY <1>1, <2>1, KernelMoves
  <2>3. s = "wait term"
    <3>1. SUFFICES ASSUME Calm PROVE FALSE
      BY DEF OnlyRestartStops
    <3>2. kernel[k].life = "alive" /\ kernel[k].signal = "none"
      BY <2>2, <3>1 DEF Calm
    <3> QED
      BY <1>4, <2>1, <3>2 DEF WaiterStep, KernelStep, Reap, Mark, Cleanup, Notify,
                              Advance, Killed, Terminated
  <2> QED
    BY <2>2, <2>3 DEF OnlyRestartStops, AfterStop
<1> QED
  BY <1>5, <1>6, <1>7, <1>8, <1>9, AloneMoves

-----------------------------------------------------------------------------
(* The requests' part of the invariant. *)

(* The types the requests have. *)
LEMMA RequestFacts ==
  ASSUME ReconcileTypeOK
  PROVE  /\ post \in [Posters -> Posts] /\ queue \in Seq(Request) /\ worker \in Works
         /\ Len(queue) \in Nat /\ ver \in Nat
         /\ \A r \in Request : r.ver \in Nat
         /\ \A i \in 1..Len(queue) : queue[i] \in Request
         /\ \A h \in Posters : post[h].step # "idle" => post[h].req \in Request
         /\ worker.step # "idle" => worker.req \in Request
<1>1. post \in [Posters -> Posts] /\ queue \in Seq(Request) /\ worker \in Works
  BY DEF ReconcileTypeOK
<1>2. ver \in Nat /\ \A r \in Request : r.ver \in Nat
  BY DEF ReconcileTypeOK, Request
<1>3. Len(queue) \in Nat /\ \A i \in 1..Len(queue) : queue[i] \in Request
  BY <1>1, LenProperties, ElementOfSeq
<1>4. \A h \in Posters : post[h].step # "idle" => post[h].req \in Request
  BY <1>1, PostFacts
<1>5. worker.step # "idle" => worker.req \in Request
  BY <1>1, WorkFacts
<1> QED
  BY <1>1, <1>2, <1>3, <1>4, <1>5

(* What a commit adds. *)
LEMMA CommitEffect ==
  ASSUME ReconcileTypeOK, NEW h \in Posters, Commit(h)
  PROVE  /\ post[h].step = "idle" /\ post'[h].step = "committed"
         /\ post'[h].req.ver = ver + 1 /\ post'[h].req.tun = tun'
         /\ post'[h].req.sync = (tun' # tun) /\ tun' \in BOOLEAN
         /\ \A g \in Posters : g # h => post'[g] = post[g]
         /\ UNCHANGED <<queue, worker, history>>
  BY DEF Commit, ReconcileTypeOK

(* What an enqueuing moves. *)
LEMMA EnqueueEffect ==
  ASSUME ReconcileTypeOK, NEW h \in Posters, Enqueue(h)
  PROVE  /\ post[h].step = "committed" /\ post'[h].step = "waiting"
         /\ \A g \in Posters : g # h => post'[g] = post[g]
         /\ Len(queue') = Len(queue) + 1
         /\ \A i \in 1..Len(queue) : queue'[i] = queue[i]
         /\ queue'[Len(queue) + 1] = post[h].req
         /\ UNCHANGED <<tun, ver, worker>>
         /\ ~swapped' => ~swapped /\ ~Overtakes(h)
<1>1. /\ post \in [Posters -> Posts] /\ queue \in Seq(Request)
      /\ post[h].step = "committed" /\ post[h].req \in Request
      /\ post[h] = [step |-> "committed", req |-> post[h].req]
  BY PostFacts DEF Enqueue, ReconcileTypeOK
<1>2. post' = [post EXCEPT ![h] = [post[h] EXCEPT !.step = "waiting"]]
      /\ queue' = Append(queue, post[h].req)
  BY DEF Enqueue
<1>3. post'[h].step = "waiting" /\ \A g \in Posters : g # h => post'[g] = post[g]
  BY <1>1, <1>2
<1>4. /\ Len(queue') = Len(queue) + 1
      /\ \A i \in 1..Len(queue) : queue'[i] = queue[i]
      /\ queue'[Len(queue) + 1] = post[h].req
  BY <1>1, <1>2, AppendProperties
<1> QED
  BY <1>1, <1>3, <1>4 DEF Enqueue, vars, ReconcileTypeOK

(* What the worker takes. *)
LEMMA TakeEffect ==
  ASSUME ReconcileTypeOK, Take
  PROVE  /\ worker.step = "idle" /\ worker'.step = "generate"
         /\ 1 \in 1..Len(queue) /\ worker'.req = queue[1]
         /\ Len(queue') = Len(queue) - 1
         /\ \A i \in 1..Len(queue') : i + 1 \in 1..Len(queue) /\ queue'[i] = queue[i + 1]
         /\ UNCHANGED <<vars, ver, post, swapped>>
<1>1. queue \in Seq(Request) /\ queue # <<>> /\ queue' = Tail(queue) /\ Len(queue) \in Nat
  BY LenProperties DEF Take, ReconcileTypeOK
<1>2. /\ Head(queue) = queue[1] /\ Len(queue') = Len(queue) - 1
      /\ \A i \in 1..Len(queue') : queue'[i] = queue[i + 1]
  BY <1>1, HeadTailProperties
<1>3. Len(queue) # 0
  BY <1>1, EmptySeq
<1> QED
  BY <1>1, <1>2, <1>3 DEF Take, history

(* Who moves the requests, and the wish for TUN with them. *)
LEMMA RequestMoves ==
  ASSUME ReconcileTypeOK, [ReconcileNext]_allVars
  PROVE  \/ \E h \in Posters : Commit(h)
         \/ \E h \in Posters : Enqueue(h)
         \/ Take
         \/ /\ UNCHANGED <<ver, tun, queue>>
            /\ \A h \in Posters :
                 post'[h] = post[h]
                   \/ (post[h].step # "committed" /\ post'[h].step # "committed")
            /\ worker'.step # "idle" => worker.step # "idle" /\ worker'.req = worker.req
<1>1. post \in [Posters -> Posts] /\ worker \in Works /\ ver \in Nat
  BY RequestFacts
<1>2. CASE ~ \E h \in Posters : Commit(h)
  <2>1. ver' = ver /\ tun' = tun
    BY <1>1, <1>2, VersionsGrow
  <2>2. CASE (\E h \in Posters : PostTimesOut(h)) \/ Report
    <3>1. UNCHANGED queue /\ \A g \in Posters :
            post'[g] = post[g] \/ (post[g].step = "waiting" /\ post'[g] = NoPost)
      BY <1>1, <2>2 DEF PostTimesOut, Report
    <3>2. worker' = worker \/ worker' = NoWork
      BY <2>2 DEF PostTimesOut, Report
    <3> QED
      BY <2>1, <3>1, <3>2, IdleRecords
  <2>3. CASE UNCHANGED <<ver, post, queue>> /\ ~Take
    <3>1. worker'.step # "idle" => worker.step # "idle" /\ worker'.req = worker.req
      <4>1. CASE WorkerAdvances
        BY <1>1, <4>1, WorkerProceeds, WorkerPath DEF WorkerAdvances
      <4>2. CASE UNCHANGED worker \/ Report
        BY <4>2, IdleRecords DEF Report
      <4> QED
        BY <2>3, <4>1, <4>2, WorkerMoves
    <3> QED
      BY <2>1, <2>3, <3>1
  <2> QED
    BY <1>2, <2>2, <2>3, PostMoves
<1> QED
  BY <1>2

(* A request stays until the worker takes it. *)
LEMMA WaitingStays ==
  ASSUME ReconcileTypeOK, [ReconcileNext]_allVars, NEW r, Waiting(r)
  PROVE  Waiting(r)' \/ (Take /\ worker'.req = r)
<1>1. Len(queue) \in Nat
  BY RequestFacts
<1>2. CASE \E h \in Posters : Commit(h)
  BY <1>2, CommitEffect DEF Waiting
<1>3. CASE \E h \in Posters : Enqueue(h)
  <2>1. PICK h \in Posters : Enqueue(h)
    BY <1>3
  <2>2. ASSUME NEW g \in Posters, post[g].step = "committed", post[g].req = r
        PROVE  Waiting(r)'
    <3>1. CASE g = h
      <4>1. Len(queue) + 1 \in 1..Len(queue') /\ queue'[Len(queue) + 1] = r
        BY <1>1, <2>1, <2>2, <3>1, EnqueueEffect
      <4> QED
        BY <4>1 DEF Waiting
    <3>2. CASE g # h
      BY <2>1, <2>2, <3>2, EnqueueEffect DEF Waiting
    <3> QED
      BY <3>1, <3>2
  <2>3. ASSUME NEW i \in 1..Len(queue), queue[i] = r
        PROVE  Waiting(r)'
    <3>1. i \in 1..Len(queue') /\ queue'[i] = r
      BY <1>1, <2>1, <2>3, EnqueueEffect
    <3> QED
      BY <3>1 DEF Waiting
  <2> QED
    BY <2>2, <2>3 DEF Waiting
<1>4. CASE Take
  <2>1. ASSUME NEW i \in 1..Len(queue), queue[i] = r, i # 1
        PROVE  Waiting(r)'
    <3>1. i - 1 \in 1..Len(queue') /\ queue'[i - 1] = r
      BY <1>1, <1>4, <2>1, TakeEffect
    <3> QED
      BY <3>1 DEF Waiting
  <2>2. UNCHANGED post /\ worker'.req = queue[1]
    BY <1>4, TakeEffect
  <2> QED
    BY <1>4, <2>1, <2>2 DEF Waiting
<1>5. CASE /\ UNCHANGED queue
           /\ \A h \in Posters : post'[h] = post[h] \/ post[h].step # "committed"
  BY <1>5 DEF Waiting
<1> QED
  BY <1>2, <1>3, <1>4, <1>5, RequestMoves

(* A request comes with its commit. *)
LEMMA WaitingComes ==
  ASSUME ReconcileTypeOK, [ReconcileNext]_allVars, NEW r, Waiting(r)'
  PROVE  Waiting(r) \/ \E h \in Posters : Commit(h) /\ post'[h].req = r
<1>1. Len(queue) \in Nat
  BY RequestFacts
<1>2. CASE \E h \in Posters : Commit(h)
  BY <1>2, CommitEffect DEF Waiting
<1>3. CASE \E h \in Posters : Enqueue(h)
  <2>1. PICK h \in Posters : Enqueue(h)
    BY <1>3
  <2>2. ASSUME NEW i \in 1..Len(queue'), queue'[i] = r
        PROVE  Waiting(r)
    <3>1. CASE i = Len(queue) + 1
      BY <1>1, <2>1, <2>2, <3>1, EnqueueEffect DEF Waiting
    <3>2. CASE i # Len(queue) + 1
      <4>1. i \in 1..Len(queue) /\ queue[i] = r
        BY <1>1, <2>1, <2>2, <3>2, EnqueueEffect
      <4> QED
        BY <4>1 DEF Waiting
    <3> QED
      BY <3>1, <3>2
  <2>3. ASSUME NEW g \in Posters, post'[g].step = "committed", post'[g].req = r
        PROVE  Waiting(r)
    BY <2>1, <2>3, EnqueueEffect DEF Waiting
  <2> QED
    BY <2>2, <2>3 DEF Waiting
<1>4. CASE Take
  <2>1. UNCHANGED post
    BY <1>4, TakeEffect
  <2>2. ASSUME NEW i \in 1..Len(queue'), queue'[i] = r
        PROVE  Waiting(r)
    BY <1>4, <2>2, TakeEffect DEF Waiting
  <2> QED
    BY <2>1, <2>2 DEF Waiting
<1>5. CASE /\ UNCHANGED queue
           /\ \A h \in Posters : post'[h] = post[h] \/ post'[h].step # "committed"
  BY <1>5 DEF Waiting
<1> QED
  BY <1>2, <1>3, <1>4, <1>5, RequestMoves

(* What is in work was taken, or was in work. *)
LEMMA InWorkComes ==
  ASSUME ReconcileTypeOK, [ReconcileNext]_allVars, NEW r, InWork(r)'
  PROVE  InWork(r) \/ (Take /\ Waiting(r))
<1>1. CASE Take
  BY <1>1, TakeEffect DEF InWork, Waiting
<1>2. CASE ~Take
  BY <1>2, RequestMoves, CommitEffect, EnqueueEffect DEF InWork
<1> QED
  BY <1>1, <1>2

(* Every request is of a version that is committed. *)
LEMMA VersionsKnown ==
  ASSUME ReconcileTypeOK, NothingIsAhead, NEW r, Waiting(r) \/ InWork(r)
  PROVE  r \in Request /\ r.ver <= ver
  BY RequestFacts DEF NothingIsAhead, Waiting, InWork

(* Once the order is lost it stays lost. *)
LEMMA SwappedKept ==
  ASSUME ReconcileTypeOK, [ReconcileNext]_allVars, ~swapped'
  PROVE  ~swapped
<1>1. CASE \E h \in Posters : Enqueue(h)
  BY <1>1, EnqueueEffect
<1>2. CASE WorkerAdvances
  BY <1>2, WorkerProceeds DEF WorkerAdvances, history
<1>3. CASE UNCHANGED swapped
  BY <1>3
<1>4. CASE \/ \E h \in Posters : Commit(h) \/ PostTimesOut(h)
           \/ Take \/ Report
           \/ \E c \in Callers : Snapshot(c) \/ GenStep(c) \/ Calls(c)
           \/ \E u \in Starters : StartHandler(u)
           \/ \E u \in Users : CallHandler(u) \/ Answered(u)
           \/ \E k \in Kernels : Waits(k) \/ Exits(k)
           \/ UNCHANGED allVars
  BY <1>4
  DEF Commit, PostTimesOut, Take, Report, Snapshot, GenStep, GenFails, Open, Write,
      Rename, RenameFails, WriteFails,
      ChmodFails, RenameRefused, Replace, GenFault, GivesUp,
      Calls, StartHandler, CallHandler, Answered, Waits, Exits,
      pipeline, history, allVars
<1> QED
  BY <1>1, <1>2, <1>4, ReconcileBounds DEF ReconcileNext, WorkerStep, WorkerAdvances

(* Requests that are queued in the order of their commits stay in order. *)
LEMMA OrderKept ==
  ASSUME ReconcileTypeOK, NothingIsAhead, InOrder, ~swapped', [ReconcileNext]_allVars
  PROVE  InOrder'
<1>1. /\ Len(queue) \in Nat /\ ver \in Nat /\ \A r \in Request : r.ver \in Nat
      /\ \A i \in 1..Len(queue) : queue[i] \in Request
      /\ \A h \in Posters : post[h].step # "idle" => post[h].req \in Request
  BY RequestFacts
<1>2. \A i, j \in 1..Len(queue') : i < j => queue'[i].ver <= queue'[j].ver
  <2>1. CASE \E h \in Posters : Enqueue(h)
    <3>1. PICK h \in Posters : Enqueue(h)
      BY <2>1
    <3>2. \A i \in 1..Len(queue) : queue[i].ver <= post[h].req.ver
      BY <3>1, EnqueueEffect DEF InOrder
    <3> QED
      BY <1>1, <3>1, <3>2, EnqueueEffect DEF InOrder
  <2>2. CASE Take
    BY <1>1, <2>2, TakeEffect DEF InOrder
  <2>3. CASE UNCHANGED queue
    BY <2>3 DEF InOrder
  <2> QED
    BY <2>1, <2>2, <2>3, RequestMoves, CommitEffect
<1>3. ASSUME NEW i \in 1..Len(queue'), NEW g \in Posters, post'[g].step = "committed"
      PROVE  queue'[i].ver <= post'[g].req.ver
  <2>1. CASE \E h \in Posters : Commit(h)
    <3>1. PICK h \in Posters : Commit(h)
      BY <2>1
    <3>2. queue'[i] = queue[i] /\ i \in 1..Len(queue) /\ queue[i].ver \in Nat /\ queue[i].ver <= ver
      BY <1>1, <1>3, <3>1, CommitEffect DEF NothingIsAhead
    <3>3. CASE g = h
      BY <1>1, <3>1, <3>2, <3>3, CommitEffect
    <3>4. CASE g # h
      BY <1>3, <3>1, <3>2, <3>4, CommitEffect DEF InOrder
    <3> QED
      BY <3>3, <3>4
  <2>2. CASE \E h \in Posters : Enqueue(h)
    <3>1. PICK h \in Posters : Enqueue(h)
      BY <2>2
    <3>2. g # h /\ post'[g] = post[g] /\ post[g].step = "committed"
      BY <1>3, <3>1, EnqueueEffect
    <3>3. CASE i = Len(queue) + 1
      <4>1. ~Overtakes(h) /\ queue'[i] = post[h].req /\ post[h].step = "committed"
        BY <3>1, <3>3, EnqueueEffect
      <4>2. post[h].req.ver \in Nat /\ post[g].req.ver \in Nat
        BY <1>1, <3>2, <4>1
      <4>3. ~(post[g].req.ver < post[h].req.ver)
        BY <3>2, <4>1 DEF Overtakes
      <4> QED
        BY <3>2, <4>1, <4>2, <4>3
    <3>4. CASE i # Len(queue) + 1
      <4>1. i \in 1..Len(queue) /\ queue'[i] = queue[i]
        BY <1>1, <1>3, <3>1, <3>4, EnqueueEffect
      <4> QED
        BY <3>2, <4>1 DEF InOrder
    <3> QED
      BY <3>3, <3>4
  <2>3. CASE Take
    BY <1>3, <2>3, TakeEffect DEF InOrder
  <2>4. CASE UNCHANGED queue /\ post'[g] = post[g]
    BY <1>3, <2>4 DEF InOrder
  <2> QED
    BY <1>3, <2>1, <2>2, <2>3, <2>4, RequestMoves
<1>4. ASSUME NEW r \in Request, NEW s \in Request, InWork(r)', Waiting(s)'
      PROVE  r.ver <= s.ver
  <2>1. CASE \E h \in Posters : Commit(h)
    <3>1. PICK h \in Posters : Commit(h)
      BY <2>1
    <3>2. InWork(r) /\ r.ver <= ver
      BY <1>4, <3>1, CommitEffect DEF InWork, NothingIsAhead
    <3>3. CASE Waiting(s)
      BY <3>2, <3>3 DEF InOrder
    <3>4. CASE \E g \in Posters : Commit(g) /\ post'[g].req = s
      BY <1>1, <3>2, <3>4, CommitEffect
    <3> QED
      BY <1>4, <3>3, <3>4, WaitingComes
  <2>2. CASE Take
    <3>1. r = queue[1] /\ 1 \in 1..Len(queue) /\ UNCHANGED post
      BY <1>4, <2>2, TakeEffect DEF InWork
    <3>2. ASSUME NEW i \in 1..Len(queue'), queue'[i] = s
          PROVE  r.ver <= s.ver
      <4>1. i + 1 \in 1..Len(queue) /\ queue[i + 1] = s /\ 1 < i + 1
        BY <1>1, <2>2, <3>2, TakeEffect
      <4> QED
        BY <3>1, <4>1 DEF InOrder
    <3>3. ASSUME NEW g \in Posters, post'[g].step = "committed", post'[g].req = s
          PROVE  r.ver <= s.ver
      BY <3>1, <3>3 DEF InOrder
    <3> QED
      BY <1>4, <3>2, <3>3 DEF Waiting
  <2>3. CASE ~Take /\ ~ \E h \in Posters : Commit(h)
    <3>1. InWork(r)
      BY <1>4, <2>3, InWorkComes
    <3>2. Waiting(s)
      BY <1>4, <2>3, WaitingComes
    <3> QED
      BY <3>1, <3>2 DEF InOrder
  <2> QED
    BY <2>1, <2>2, <2>3
<1> QED
  BY <1>2, <1>3, <1>4 DEF InOrder

(* As long as TUN is wanted, whoever turns it off is followed by one who    *)
(* turns it on.                                                             *)
LEMMA FollowedKept ==
  ASSUME ReconcileTypeOK, NothingIsAhead, InOrder', OffIsFollowed,
         [ReconcileNext]_allVars
  PROVE  OffIsFollowed'
<1> SUFFICES ASSUME tun', NEW o \in Request, Off(o), Waiting(o)' \/ InWork(o)'
             PROVE  \E r \in Request : On(r) /\ Waiting(r)' /\ r.ver > o.ver
  BY DEF OffIsFollowed
<1>1. ver \in Nat /\ o.ver \in Nat /\ \A r \in Request : r.ver \in Nat
  BY RequestFacts
<1>2. CASE \E h \in Posters : Commit(h)
  <2>1. PICK h \in Posters : Commit(h)
    BY <1>2
  <2>2. /\ post'[h].step = "committed" /\ post'[h].req.ver = ver + 1
        /\ post'[h].req.tun = tun' /\ post'[h].req.sync = (tun' # tun)
        /\ tun' \in BOOLEAN /\ UNCHANGED <<queue, worker>>
    BY <2>1, CommitEffect
  <2>3. post'[h].req \in Request
    <3>1. post' \in [Posters -> Posts]
      BY PipelineType
    <3> QED
      BY <2>2, <3>1, PostFacts
  <2>4. PICK n \in Request : n = post'[h].req
    BY <2>3
  <2>5. Waiting(o) \/ InWork(o)
    <3>1. InWork(o)' => InWork(o)
      BY <2>2 DEF InWork
    <3>2. CASE Waiting(o)'
      <4>1. SUFFICES ASSUME NEW g \in Posters, Commit(g), post'[g].req = o PROVE FALSE
        BY <3>2, WaitingComes
      <4> QED
        BY <4>1, CommitEffect DEF Off
    <3> QED
      BY <3>1, <3>2
  <2>6. CASE tun
    <3>1. PICK r \in Request : On(r) /\ Waiting(r) /\ r.ver > o.ver
      BY <2>5, <2>6 DEF OffIsFollowed
    <3>2. ~Take
      BY <2>1, TakeEffect, <1>1 DEF Commit
    <3>3. Waiting(r)'
      BY <3>1, <3>2, WaitingStays
    <3> QED
      BY <3>1, <3>3
  <2>7. CASE ~tun
    <3>1. On(n) /\ Waiting(n)'
      BY <2>2, <2>4, <2>7 DEF On, Waiting
    <3>2. o.ver <= ver
      BY <2>5, VersionsKnown
    <3>3. ver + 1 > o.ver
      BY <1>1, <3>2
    <3> QED
      BY <2>2, <2>3, <2>4, <3>1, <3>3
  <2> QED
    BY <2>6, <2>7
<1>3. CASE ~ \E h \in Posters : Commit(h)
  <2>1. tun
    BY <1>3, RequestMoves, EnqueueEffect, TakeEffect DEF vars
  <2>2. Waiting(o) \/ InWork(o)
    BY <1>3, WaitingComes, InWorkComes
  <2>3. PICK r \in Request : On(r) /\ Waiting(r) /\ r.ver > o.ver
    BY <2>1, <2>2 DEF OffIsFollowed
  <2>4. CASE Take /\ worker'.req = r
    <3>1. InWork(r)'
      BY <2>4, TakeEffect DEF InWork
    <3>2. CASE Waiting(o)'
      <4>1. r.ver <= o.ver
        BY <3>1, <3>2 DEF InOrder
      <4> QED
        BY <1>1, <2>3, <4>1
    <3>3. CASE InWork(o)'
      BY <1>1, <2>3, <3>1, <3>3 DEF InWork
    <3> QED
      BY <3>2, <3>3
  <2>5. CASE Waiting(r)'
    BY <2>3, <2>5
  <2> QED
    BY <2>3, <2>4, <2>5, WaitingStays
<1> QED
  BY <1>2, <1>3

(* The worker removes the routes only for a request that turns TUN off. *)
LEMMA CleanupKept ==
  ASSUME ReconcileTypeOK, CleanupIsOff, [ReconcileNext]_allVars
  PROVE  CleanupIsOff'
<1>1. worker \in Works
  BY DEF ReconcileTypeOK
<1>2. CASE WorkerAdvances
  <2>1. SUFFICES ASSUME worker'.step = "cleanup" PROVE TurnsOff
    <3>1. worker'.req = worker.req
      BY <1>1, <1>2, WorkerPath
    <3> QED
      BY <2>1, <3>1 DEF CleanupIsOff, Off, TurnsOff
  <2>2. Taken
    BY <1>1, <1>2, <2>1, WorkerPath DEF WorkerAdvances, Reload, Restarted
  <2>3. ~TurnsOff => worker'.step = "report"
    <3>1. worker.step # "idle"
      BY <1>2, WorkerProceeds DEF WorkerAdvances
    <3>2. "report" \in WorkerSteps
      BY DEF WorkerSteps
    <3> QED
      BY <1>1, <2>2, <3>1, <3>2, WorkGoesOn DEF Taken, Finish
  <2> QED
    BY <2>1, <2>3
<1>3. CASE UNCHANGED worker \/ Take \/ Report
  BY <1>3, IdleRecords DEF Take, Report, CleanupIsOff
<1> QED
  BY <1>2, <1>3, WorkerMoves

(* Nothing but a counted failure keeps the worker from generating. *)
LEMMA GenerationsKept ==
  ASSUME RInv, ~aside, genFaults = 0 => gen[Worker].step # "failed", genFaults' = 0,
         [ReconcileNext]_allVars
  PROVE  genFaults = 0 /\ gen'[Worker].step # "failed"
<1>1. /\ ReconcileTypeOK /\ Worker \in Callers /\ genFaults \in Nat
      /\ gen[Worker].cfg \in Content
  BY ReconcileBounds, GenFacts DEF RInv, ReconcileTypeOK
<1>2. genFaults = 0
  BY <1>1, FaultsGrow
<1>3. gen[Worker].step = "written" => tmp # Missing
  <2>1. Whole(gen[Worker].cfg).state = "whole" /\ Missing.state # "whole"
    BY DEF Whole, Missing
  <2> QED
    BY <2>1 DEF RInv, WritesAlone
<1>4. CASE GenStep(Worker)
  BY <1>1, <1>2, <1>3, <1>4, GenStepEffect
<1>5. CASE Snapshot(Worker)
  BY <1>1, <1>2, <1>5, SnapshotEffect
<1>6. CASE Generated
  BY <1>1, <1>2, <1>6, GenEnds, IdleRecords
<1>7. CASE gen'[Worker].step = gen[Worker].step
  BY <1>2, <1>7
<1> QED
  BY <1>1, <1>2, <1>4, <1>5, <1>6, <1>7, GenMoves

-----------------------------------------------------------------------------
(* What the kernel has loaded, and its routes. *)

(* Routes that could not be installed are counted. *)
LEMMA SetupFaultsGrow ==
  ASSUME ReconcileTypeOK, [ReconcileNext]_allVars, setupFaults' = 0
  PROVE  /\ setupFaults = 0
         /\ InstallRules => rules' # "none" /\ worker'.step = "reload"
<1>1. setupFaults \in Nat /\ worker \in Works
  BY DEF ReconcileTypeOK
<1>2. CASE InstallRules
  <2>1. setupFaults' # setupFaults + 1
    BY <1>1
  <2>2. setupFaults' = setupFaults /\ WorkerGo("setup", "reload") /\ rules' # "none"
    BY <1>2, <2>1 DEF InstallRules, SetupForRunning
  <2>3. worker'.step = "reload"
    BY <1>1, <2>2 DEF WorkerGo, Works
  <2> QED
    BY <2>2, <2>3
<1>3. CASE ~InstallRules
  <2>1. ASSUME NEW c \in Callers, GenStep(c) PROVE UNCHANGED setupFaults
    BY <2>1, GenStepEffect
  <2>2. ASSUME \/ \E h \in Posters : Commit(h) \/ Enqueue(h) \/ PostTimesOut(h)
               \/ Take \/ Report \/ Generated \/ CheckRunning \/ ReloadFails
               \/ Restarted \/ RemoveRules
               \/ \E c \in Callers : Snapshot(c) \/ Calls(c)
               \/ \E u \in Starters : StartHandler(u)
               \/ \E u \in Users : CallHandler(u) \/ Answered(u)
               \/ \E k \in Kernels : Waits(k) \/ Exits(k) \/ Reload(k)
               \/ UNCHANGED allVars
        PROVE  UNCHANGED setupFaults
    BY <2>2
    DEF Commit, Enqueue, PostTimesOut, Take, Report, Generated, CheckRunning,
        ReloadFails, Restarted, RemoveRules, Snapshot, Calls, StartHandler,
        CallHandler, Answered, Waits, Exits, Reload, faults, allVars
  <2>3. UNCHANGED setupFaults
    BY <1>3, <2>1, <2>2, ReconcileBounds DEF ReconcileNext, WorkerStep
  <2> QED
    BY <1>3, <2>3
<1> QED
  BY <1>2, <1>3

(* A kernel that lives has lived, or the worker spawns it. *)
LEMMA AliveComes ==
  ASSUME Alone, RInv, [ReconcileNext]_allVars, NEW k \in Kernels,
         kernel'[k].life = "alive"
  PROVE  kernel[k].life = "alive" \/ (Calls(Worker) /\ Spawn(Worker))
<1>1. TypeOK /\ Worker \in Callers
  BY ReconcileBounds DEF RInv, ReconcileTypeOK
<1>2. CASE UNCHANGED processVars
  BY <1>2 DEF processVars
<1>3. CASE ReloadFails \/ Restarted
  BY <1>3 DEF ReloadFails, Restarted, BeginRestart, Begin, Return
<1>4. CASE Calls(Worker) /\ ~Spawn(Worker)
  <2>1. \/ Outside(Worker) \/ LockStart(Worker) \/ Refuse(Worker) \/ Prepare(Worker)
        \/ PrepareFails(Worker) \/ SpawnFails(Worker)
    BY <1>4 DEF Calls, CallerStep, Outside
  <2> QED
    BY <1>1, <2>1, CallersKeepKernels
<1>5. ASSUME NEW j \in Kernels, Waits(j) \/ Exits(j) PROVE kernel[k].life = "alive"
  <2>1. WaiterStep(j) \/ KernelStep(j)
    BY <1>5 DEF Waits, Exits
  <2> QED
    BY <1>1, <2>1, KernelMoves
<1> QED
  BY <1>2, <1>3, <1>4, <1>5, AloneMoves

(* What it has loaded it keeps, but for a reload. *)
LEMMA LoadedStays ==
  ASSUME Alone, RInv, [ReconcileNext]_allVars, NEW k \in Kernels,
         kernel[k].life = "alive", ~ \E j \in Kernels : Reload(j)
  PROVE  loaded'[k] = loaded[k]
<1>1. CASE Calls(Worker)
  BY <1>1 DEF Calls, Reads
<1>2. CASE UNCHANGED loaded
  BY <1>2
<1>3. CASE \/ \E h \in Posters : Commit(h) \/ Enqueue(h) \/ PostTimesOut(h)
           \/ Take \/ Report \/ Generated \/ CheckRunning \/ InstallRules \/ ReloadFails
           \/ Restarted \/ RemoveRules \/ Snapshot(Worker) \/ GenStep(Worker)
           \/ \E j \in Kernels : Waits(j) \/ Exits(j)
           \/ UNCHANGED allVars
  BY <1>2, <1>3
  DEF Commit, Enqueue, PostTimesOut, Take, Report, Generated, CheckRunning,
      InstallRules, ReloadFails, Restarted, RemoveRules, Snapshot, GenStep, GenFails,
      Open, Write, Rename, RenameFails, WriteFails,
      ChmodFails, RenameRefused, Replace, GenFault, GivesUp, Waits, Exits, allVars
<1>4. Callers = {Worker} /\ Users = {} /\ Starters = {}
  BY ReconcileAssumption DEF Alone
<1> QED
  BY <1>1, <1>3, <1>4 DEF ReconcileNext, WorkerStep

(* A worker that has come to the reload finds the last commit in the file,  *)
(* unless somebody has committed since.                                     *)
LEMMA FileIsLatest ==
  ASSUME RInv, ~aside, genFaults = 0, queue = <<>>,
         \A h \in Posters : post[h].step # "committed",
         worker.step \in {"check", "setup", "reload", "restart"}
  PROVE  file = Whole(Committed)
<1>1. worker.req \in Request /\ worker.req.ver <= ver /\ ver \in Nat
  BY RequestFacts DEF RInv, NothingIsAhead
<1>2. ver > 0
  BY <1>1 DEF Request
<1>3. gen[Worker].step = "idle"
  BY DEF RInv, OneThingAtATime
<1> QED
  BY <1>2, <1>3 DEF RInv, Pending

(* A kernel that runs has the last commit, or is going to load it. *)
LEMMA LoadedKept ==
  ASSUME Alone, RInv, RInv', ~aside, LatestIsLoaded, OnlyRestartStops,
         genFaults = 0, gen[Worker].step # "failed", setupFaults' = 0,
         [ReconcileNext]_allVars
  PROVE  LatestIsLoaded'
<1> SUFFICES ASSUME ~Loading', NEW k \in Kernels, kernel'[k].life = "alive"
             PROVE  loaded'[k] = Whole(Committed)'
  BY DEF LatestIsLoaded
<1>1. /\ ReconcileTypeOK /\ TypeOK /\ ManagerInv /\ Worker \in Callers
      /\ worker \in Works /\ loaded \in [Kernels -> Files]
  BY ReconcileBounds DEF RInv, ReconcileTypeOK
<1>2. /\ UNCHANGED <<ver, tun, queue>> /\ queue = <<>>
      /\ \A h \in Posters : post[h].step # "committed"
      /\ worker'.step # "idle" => worker.step # "idle" /\ worker'.req = worker.req
  <2>1. ~ \E h \in Posters : Commit(h)
    BY <1>1, CommitEffect DEF Loading
  <2>2. ~ \E h \in Posters : Enqueue(h)
    <3>1. SUFFICES ASSUME NEW h \in Posters, Enqueue(h) PROVE queue' # <<>>
      BY DEF Loading
    <3>2. queue \in Seq(Request) /\ queue' = Append(queue, post[h].req)
      BY <1>1, <3>1 DEF Enqueue, ReconcileTypeOK
    <3>3. queue' \in Seq(Request) /\ Len(queue') = Len(queue) + 1 /\ Len(queue) \in Nat
      BY <1>1, <3>1, EnqueueEffect, PipelineType, RequestFacts
    <3> QED
      BY <3>3, EmptySeq
  <2>3. ~Take
    BY <1>1, TakeEffect DEF Loading, StillToLoad
  <2> QED
    BY <1>1, <2>1, <2>2, <2>3, RequestMoves DEF Loading
<1>3. Whole(Committed)' = Whole(Committed)
  BY <1>2 DEF Whole, Committed
<1>4. kernel[k].life = "alive" => k = cmd /\ running
  BY DEF RInv, ManagerInv, LiveIsTracked, Unpublished
<1>5. CASE ~Loading
  <2>1. ~ \E j \in Kernels : Reload(j)
    BY <1>5 DEF Reload, Loading, StillToLoad
  <2>2. ~(Calls(Worker) /\ Spawn(Worker))
    <3>1. Spawn(Worker) => op[Worker].step = "spawn"
      BY DEF Spawn
    <3> QED
      BY <1>5, <3>1 DEF RInv, OneThingAtATime, Loading, StillToLoad
  <2>3. kernel[k].life = "alive"
    BY <2>2, AliveComes
  <2>4. loaded'[k] = loaded[k]
    BY <2>1, <2>3, LoadedStays
  <2> QED
    BY <1>3, <1>5, <2>3, <2>4 DEF LatestIsLoaded
<1>6. CASE Loading
  <2>1. StillToLoad
    BY <1>2, <1>6 DEF Loading
  <2>2. ~StillToLoad'
    BY DEF Loading
  <2>3. CASE Calls(Worker) /\ Spawn(Worker)
    <3>1. op[Worker].step = "spawn" /\ worker.step = "restart"
      BY <2>3 DEF Spawn, RInv, OneThingAtATime
    <3>2. Gone
      BY <3>1 DEF OnlyRestartStops, AfterStop
    <3>3. loaded'[k] = file
      BY <1>1, <3>2, LoadedMoves DEF Gone
    <3> QED
      BY <1>2, <1>3, <3>1, <3>3, FileIsLatest
  <2>4. CASE ~(Calls(Worker) /\ Spawn(Worker))
    <3>1. kernel[k].life = "alive"
      BY <2>4, AliveComes
    <3>2. \E j \in Kernels : Reload(j)
      <4>1. CASE UNCHANGED worker
        <5>1. worker.step = "restart" /\ op[Worker].step \notin {"settle", "ok"}
              /\ op'[Worker].step \in {"settle", "ok"}
          BY <2>1, <2>2, <4>1 DEF StillToLoad
        <5>2. ~ReloadFails /\ ~Restarted
          BY <1>1, <4>1, WorkerPath DEF WorkerAdvances
        <5>3. Calls(Worker)
          BY <1>1, <5>1, <5>2, WorkerCallMoves
        <5>4. op[Worker].kind = "restart"
          BY <5>1 DEF RInv, OneThingAtATime
        <5> QED
          BY <1>1, <2>4, <5>1, <5>3, <5>4, CallGoesOn DEF Calls
      <4>2. CASE Take \/ Report
        BY <1>1, <2>1, <2>2, <4>2, TakeEffect DEF Report, StillToLoad
      <4>3. CASE Generated
        BY <1>1, <2>2, <4>3, WorkerPath DEF WorkerAdvances, StillToLoad
      <4>4. CASE CheckRunning
        BY <1>1, <1>4, <2>2, <3>1, <4>4, WorkerPath DEF WorkerAdvances, StillToLoad
      <4>5. CASE InstallRules
        BY <1>1, <2>2, <4>5, SetupFaultsGrow DEF StillToLoad
      <4>6. CASE ReloadFails
        <5>1. worker'.step = "restart"
          BY <1>1, <4>6, WorkerPath DEF WorkerAdvances
        <5>2. op'[Worker].step = "stop"
          BY <1>1, <4>6 DEF ReloadFails, BeginRestart, Begin, NoOp, TypeOK
        <5> QED
          BY <2>2, <5>1, <5>2 DEF StillToLoad
      <4>7. CASE Restarted
        <5>1. worker.step = "restart" /\ op[Worker].step \in Outcomes
          BY <4>7 DEF Restarted, Return
        <5>2. op[Worker].step \in AfterStop
          BY <2>1, <5>1 DEF StillToLoad, Outcomes, AfterStop
        <5> QED
          BY <3>1, <5>2 DEF OnlyRestartStops, Gone
      <4>8. CASE RemoveRules
        BY <2>1, <4>8 DEF RemoveRules, StillToLoad
      <4> QED
        BY <4>1, <4>2, <4>3, <4>4, <4>5, <4>6, <4>7, <4>8, WorkerMoves
        DEF WorkerAdvances
    <3>3. PICK j \in Kernels : Reload(j)
      BY <3>2
    <3>4. worker.step = "reload" /\ kernel[j].life = "alive"
          /\ loaded' = [loaded EXCEPT ![j] = file]
      BY <3>3 DEF Reload, Answers
    <3>5. j = k
      BY <3>1, <3>4 DEF RInv, ManagerInv, LiveIsTracked, Unpublished
    <3> QED
      BY <1>1, <1>2, <1>3, <3>4, <3>5, FileIsLatest
  <2> QED
    BY <2>3, <2>4
<1> QED
  BY <1>5, <1>6

(* Who installs and removes the routes. *)
LEMMA RulesMove ==
  ASSUME Alone, RInv, [ReconcileNext]_allVars
  PROVE  \/ UNCHANGED rules
         \/ InstallRules \/ RemoveRules \/ Calls(Worker)
         \/ \E k \in Kernels : Waits(k) /\ Cleanup(k)
<1>1. Callers = {Worker} /\ Users = {} /\ Starters = {}
  BY ReconcileAssumption DEF Alone
<1>2. CASE Beside \/ UNCHANGED allVars
  BY <1>2
  DEF allVars, Beside, Enqueue, PostTimesOut, WorkerBeside, Take, Snapshot, Generated,
      CheckRunning, Report, Reload, GenStep, GenFails, Open, Write, Rename,
      RenameFails, WriteFails,
      ChmodFails, RenameRefused, Replace, GenFault, GivesUp, vars
<1>3. CASE \E h \in Posters : Commit(h)
  BY <1>3 DEF Commit
<1>4. CASE ReloadFails \/ Restarted
  BY <1>4 DEF ReloadFails, Restarted, BeginRestart, Begin, Return
<1>5. ASSUME NEW k \in Kernels, Waits(k) \/ Exits(k)
      PROVE  UNCHANGED rules \/ (Waits(k) /\ Cleanup(k))
  BY <1>5 DEF Waits, Exits, WaiterStep, KernelStep, Reap, Mark, Notify, Killed,
              Terminated, Dies, Die
<1> QED
  BY <1>1, <1>2, <1>3, <1>4, <1>5
  DEF ReconcileNext, WorkerStep, Beside, WorkerBeside

(* A request that is to install the routes comes to do so. *)
LEMMA ComingStays ==
  ASSUME RInv, gen[Worker].step # "failed", setupFaults' = 0, Up,
         [ReconcileNext]_allVars, NEW r \in Request, On(r), Coming(r)
  PROVE  Coming(r)' \/ rules' # "none"
<1>1. ReconcileTypeOK /\ worker \in Works
  BY DEF RInv, ReconcileTypeOK
<1>2. CASE Waiting(r)
  <2>1. CASE Take /\ worker'.req = r
    BY <1>1, <2>1, TakeEffect DEF Coming, BeforeRoutes, InWork
  <2>2. CASE Waiting(r)'
    BY <2>2 DEF Coming
  <2> QED
    BY <1>1, <1>2, <2>1, <2>2, WaitingStays
<1>3. CASE BeforeRoutes /\ InWork(r)
  <2>1. worker.req = r /\ TurnsOn
    BY <1>3 DEF InWork, On, TurnsOn
  <2>2. CASE UNCHANGED worker
    BY <1>3, <2>2 DEF Coming, BeforeRoutes, InWork
  <2>3. CASE Take \/ Report
    BY <1>3, <2>3 DEF Take, Report, BeforeRoutes
  <2>4. CASE Generated
    BY <1>1, <2>1, <2>4, WorkerPath DEF WorkerAdvances, Coming, BeforeRoutes, InWork
  <2>5. CASE CheckRunning
    <3>1. op[Worker].step = "idle"
      BY <2>5 DEF CheckRunning, RInv, OneThingAtATime
    <3>2. running
      BY <3>1 DEF Up, RInv, ManagerInv, LiveIsTracked, Unpublished
    <3>3. worker' = [worker EXCEPT !.step = "setup"] /\ worker.step = "check"
      BY <2>1, <2>5, <3>2 DEF CheckRunning, WorkerGo, FirstStep
    <3>4. worker'.step = "setup" /\ worker'.req = r
      BY <1>1, <2>1, <3>3 DEF Works
    <3> QED
      BY <3>4 DEF Coming, BeforeRoutes, InWork
  <2>6. CASE InstallRules
    BY <1>1, <2>6, SetupFaultsGrow
  <2>7. ~(ReloadFails \/ Restarted \/ RemoveRules \/ \E k \in Kernels : Reload(k))
    BY <1>3 DEF ReloadFails, WorkerGo, Restarted, RemoveRules, Reload, BeforeRoutes
  <2> QED
    BY <2>2, <2>3, <2>4, <2>5, <2>6, <2>7, WorkerMoves DEF WorkerAdvances
<1> QED
  BY <1>2, <1>3 DEF Coming

(* Routes that are wanted and not there are going to be installed. *)
LEMMA RoutesKept ==
  ASSUME Alone, RInv, OnlyRestartStops, OnlyRestartStops', CleanupIsOff, OffIsFollowed,
         RoutesAreComing, gen[Worker].step # "failed", setupFaults' = 0,
         [ReconcileNext]_allVars
  PROVE  RoutesAreComing'
<1> SUFFICES ASSUME Up', tun', rules' = "none"
             PROVE  \E r \in Request : On(r) /\ Coming(r)'
  BY DEF RoutesAreComing
<1>1. /\ ReconcileTypeOK /\ TypeOK /\ ManagerInv /\ Worker \in Callers
      /\ worker \in Works /\ kernel \in [Kernels -> Kernel]
  BY ReconcileBounds DEF RInv, ReconcileTypeOK, TypeOK
<1>2. CASE \E h \in Posters : Commit(h)
  <2>1. PICK h \in Posters : Commit(h)
    BY <1>2
  <2>2. /\ post'[h].step = "committed" /\ post'[h].req.tun = tun'
        /\ post'[h].req.sync = (tun' # tun) /\ tun' \in BOOLEAN
    BY <1>1, <2>1, CommitEffect
  <2>3. CASE ~tun
    <3>1. post' \in [Posters -> Posts]
      BY <1>1, PipelineType
    <3>2. PICK n \in Request : n = post'[h].req
      BY <2>2, <3>1, PostFacts
    <3>3. On(n) /\ Waiting(n)'
      BY <2>2, <2>3, <3>2 DEF On, Waiting
    <3> QED
      BY <3>3 DEF Coming
  <2>4. CASE tun
    <3>1. Up /\ rules = "none"
      BY <2>1 DEF Commit, processVars, Up
    <3>2. PICK r \in Request : On(r) /\ Coming(r)
      BY <2>4, <3>1 DEF RoutesAreComing
    <3> QED
      BY <3>1, <3>2, ComingStays
  <2> QED
    BY <2>3, <2>4
<1>3. CASE ~ \E h \in Posters : Commit(h)
  <2>1. tun
    <3>1. ver \in Nat
      BY <1>1, RequestFacts
    <3>2. ReconcileTypeOK
      BY <1>1
    <3>3. /\ ver' = ver \/ (ver' = ver + 1 /\ \E h \in Posters : Commit(h))
          /\ UNCHANGED tun \/ ver' = ver + 1
      BY <3>2, VersionsGrow
    <3>4. ver' = ver
      BY <1>3, <3>3
    <3>5. ver' # ver + 1
      BY <3>1, <3>4
    <3>6. UNCHANGED tun
      BY <3>3, <3>5, Zenon
    <3> QED
      BY <3>6
  <2>2. CASE rules = "none"
    <3>1. CASE Up
      <4>1. PICK r \in Request : On(r) /\ Coming(r)
        BY <2>1, <2>2, <3>1 DEF RoutesAreComing
      <4> QED
        BY <3>1, <4>1, ComingStays
    <3>2. CASE ~Up
      <4>1. \A k \in Kernels : kernel'[k].life # "alive"
        BY <3>2, AliveComes DEF Up, Spawn
      <4>2. op'[Worker].step = "spawn" /\ op[Worker].step # "spawn"
        BY <3>2, <4>1 DEF Up
      <4>3. ~ReloadFails /\ ~Restarted
        <5>1. ReloadFails => op'[Worker].step = "stop"
          BY <1>1 DEF ReloadFails, BeginRestart, Begin, NoOp, TypeOK
        <5>2. Restarted => op'[Worker].step = "idle"
          BY <1>1, IdleTypes DEF Restarted, Return, TypeOK
        <5> QED
          BY <4>2, <5>1, <5>2
      <4>4. CallerStep(Worker)
        BY <1>1, <4>2, <4>3, WorkerCallMoves DEF Calls
      <4>5. op[Worker].step = "prepare"
        BY <1>1, <4>2, <4>4, CallEffect DEF OnlyRestartStops
      <4>6. tun => rules' # "none"
        BY <1>1, <4>2, <4>4, <4>5, CallEffect
      <4> QED
        BY <2>1, <4>6
    <3> QED
      BY <3>1, <3>2
  <2>3. CASE rules # "none"
    <3>1. CASE RemoveRules
      <4>1. worker.step = "cleanup" /\ InWork(worker.req) /\ worker.req \in Request
        BY <1>1, <3>1, RequestFacts DEF RemoveRules, InWork
      <4>2. PICK r \in Request : On(r) /\ Waiting(r)
        BY <2>1, <4>1 DEF CleanupIsOff, OffIsFollowed
      <4>3. ~Take
        BY <4>1 DEF Take
      <4>4. Waiting(r)'
        BY <1>1, <4>2, <4>3, WaitingStays
      <4> QED
        BY <4>2, <4>4 DEF Coming
    <3>2. CASE Calls(Worker)
      <4>1. op'[Worker].step = "error"
        BY <1>1, <2>3, <3>2, CallEffect DEF Calls
      <4>2. Gone'
        BY <4>1 DEF OnlyRestartStops, AfterStop
      <4> QED
        BY <4>1, <4>2 DEF Gone, Up
    <3>3. ASSUME NEW k \in Kernels, Waits(k), Cleanup(k)
          PROVE  FALSE
      <4>1. /\ kernel[k].life = "marked" /\ kernel'[k].life = "cleaned"
            /\ UNCHANGED <<op, cmd>>
        BY <1>1, <3>3 DEF Cleanup, Advance, Kernel
      <4>2. ~Calm
        BY <4>1 DEF Calm
      <4>3. op[Worker].step = "wait term" /\ op'[Worker].step = "wait term"
        BY <4>1, <4>2 DEF OnlyRestartStops
      <4>4. k = cmd
        BY <4>1, <4>3 DEF OnlyRestartStops
      <4>5. \A j \in Kernels : kernel'[j].life # "alive"
        BY <4>1, <4>3, <4>4 DEF OnlyRestartStops
      <4> QED
        BY <4>3, <4>5 DEF Up
    <3>4. ~InstallRules
      BY <1>1, SetupFaultsGrow
    <3>5. rules' # rules
      BY <2>3
    <3> QED
      BY <3>1, <3>2, <3>3, <3>4, <3>5, RulesMove
  <2> QED
    BY <2>2, <2>3
<1> QED
  BY <1>2, <1>3

-----------------------------------------------------------------------------
(* The theorem. *)

(* The initial states satisfy the invariant. *)
LEMMA SInit == ReconcileInit => SInv
<1> SUFFICES ASSUME ReconcileInit PROVE SInv
  OBVIOUS
<1>1. /\ ver = 0 /\ post = [h \in Posters |-> NoPost] /\ queue = <<>>
      /\ aside = FALSE /\ worker = NoWork /\ gen = [c \in Callers |-> NoGen]
  BY DEF ReconcileInit
<1>2. /\ \A h \in Posters : post[h].step = "idle"
      /\ worker.step = "idle" /\ gen[Worker].step = "idle" /\ Len(queue) = 0
  BY <1>1, IdleRecords, ReconcileBounds, EmptySeq
<1>3. op[Worker].step = "idle"
  BY ManagerStarts, IdleTypes, ReconcileBounds
<1>4. \A r : ~Waiting(r) /\ ~InWork(r)
  BY <1>2 DEF Waiting, InWork
<1>5. CleanupIsOff /\ InOrder /\ OffIsFollowed
  BY <1>2, <1>4 DEF CleanupIsOff, InOrder, OffIsFollowed
<1>6. CASE InitStarted
  <2>1. /\ running = FALSE /\ exited = {}
        /\ \A k \in Kernels : kernel[k].life = "unborn"
    BY <1>6, IdleTypes DEF InitStarted, Init
  <2>2. PostedWhenDone /\ RunningIsUnpublished /\ Gone /\ Calm
    BY <2>1 DEF PostedWhenDone, RunningIsUnpublished, Gone, Calm
  <2>3. OnlyRestartStops
    BY <1>3, <2>2 DEF OnlyRestartStops, AfterStop
  <2>4. LatestIsLoaded /\ RoutesAreComing
    BY <1>3, <2>1 DEF LatestIsLoaded, RoutesAreComing, Up
  <2> QED
    BY <1>1, <1>2, <1>5, <2>2, <2>3, <2>4, RInit DEF SInv
<1>7. CASE InitRunning
  <2>1. /\ running = TRUE /\ cmd = 1 /\ rules = (IF tun THEN "start" ELSE "none") /\ exited = {} /\ 1 \in Kernels
        /\ \A k \in Kernels : kernel[k].life = IF k = 1 THEN "alive" ELSE "unborn"
        /\ kernel[1].signal = "none" /\ loaded[1] = Whole(Committed)
    BY <1>7, IdleTypes, ReconcileBounds DEF InitRunning, Kernels
  <2>2. PostedWhenDone /\ RunningIsUnpublished /\ Calm
    BY <2>1 DEF PostedWhenDone, RunningIsUnpublished, Calm, Unpublished
  <2>3. OnlyRestartStops
    BY <1>3, <2>2 DEF OnlyRestartStops, AfterStop
  <2>4. LatestIsLoaded /\ RoutesAreComing
    BY <2>1 DEF LatestIsLoaded, RoutesAreComing
  <2> QED
    BY <1>1, <1>2, <1>5, <2>2, <2>3, <2>4, RInit DEF SInv
<1> QED
  BY <1>6, <1>7 DEF ReconcileInit

(* The invariant is kept by every step. *)
LEMMA SStep ==
  ASSUME Alone, SInv, RInv', [ReconcileNext]_allVars
  PROVE  SInv'
<1>1. /\ RInv /\ ReconcileTypeOK /\ NothingIsAhead /\ ~aside /\ PostedWhenDone
      /\ RunningIsUnpublished /\ CleanupIsOff
      /\ (genFaults = 0 => gen[Worker].step # "failed")
  BY DEF SInv, RInv
<1>2. ~aside'
  <2>1. Starters = {}
    BY ReconcileAssumption DEF Alone
  <2>2. CASE Snapshot(Worker)
    BY <1>1, <2>2 DEF Snapshot
  <2>3. CASE ~Snapshot(Worker)
    BY <1>1, <2>1, <2>3, AsideKept
  <2> QED
    BY <2>2, <2>3
<1>3. PostedWhenDone' /\ RunningIsUnpublished' /\ CleanupIsOff'
  BY <1>1, PostedKept, UnpublishedKept, CleanupKept
<1>4. deaths' = 0 => deaths = 0 /\ OnlyRestartStops /\ OnlyRestartStops'
  BY <1>1, DeathsGrow, StopsKept DEF SInv
<1>5. ~swapped' => ~swapped /\ InOrder' /\ OffIsFollowed'
  BY <1>1, SwappedKept, OrderKept, FollowedKept DEF SInv
<1>6. genFaults' = 0 => genFaults = 0 /\ gen[Worker].step # "failed" /\ gen'[Worker].step # "failed"
  BY <1>1, GenerationsKept
<1>7. setupFaults' = 0 => setupFaults = 0
  BY <1>1, SetupFaultsGrow
<1>8. deaths' = 0 /\ genFaults' = 0 /\ setupFaults' = 0 => LatestIsLoaded'
  BY <1>1, <1>4, <1>6, <1>7, LoadedKept DEF SInv
<1>9. deaths' = 0 /\ genFaults' = 0 /\ setupFaults' = 0 /\ ~swapped' => RoutesAreComing'
  BY <1>1, <1>4, <1>5, <1>6, <1>7, RoutesKept DEF SInv
<1> QED
  BY <1>2, <1>3, <1>4, <1>5, <1>6, <1>8, <1>9 DEF SInv

(* What has settled is right: the kernel's file is that of the last commit, *)
(* and a kernel that runs with TUN has its routes.                          *)
LEMMA SettledFollows ==
  ASSUME Alone, SInv, deaths = 0
  PROVE  SettledIsRight
<1> SUFFICES ASSUME genFaults = 0 PROVE LatestIsGenerated /\ TunIsProtected
  BY DEF SettledIsRight
<1>1. /\ RInv /\ ReconcileTypeOK /\ Worker \in Callers /\ ~aside
      /\ ver \in 0..MaxCommits /\ tun \in BOOLEAN
  BY ReconcileBounds DEF SInv, RInv, ReconcileTypeOK, TypeOK
<1>2. Quiet => /\ worker.step = "idle" /\ op[Worker].step = "idle" /\ queue = <<>>
               /\ \A h \in Posters : post[h].step # "committed"
               /\ gen[Worker].step = "idle"
  BY <1>1, IdleRecords DEF Quiet
<1>3. LatestIsGenerated
  BY <1>1, <1>2 DEF LatestIsGenerated, RInv, Pending
<1>4. TunIsProtected
  <2> SUFFICES ASSUME ~swapped, setupFaults = 0, Quiet, running,
                      kernel[cmd].life = "alive", loaded[cmd].tun, rules = "none"
               PROVE  FALSE
    BY DEF TunIsProtected
  <2>1. cmd \in Kernels
    BY <1>1, ReconcileBounds DEF RInv, ManagerInv, ReconcileTypeOK, TypeOK, Kernels
  <2>2. ~Loading
    BY <1>2 DEF Loading, StillToLoad
  <2>3. loaded[cmd] = Whole(Committed)
    BY <2>1, <2>2 DEF SInv, LatestIsLoaded
  <2>4. tun
    BY <2>3 DEF Whole, Committed
  <2>5. Up
    BY <2>1 DEF Up
  <2>6. PICK r \in Request : Coming(r)
    BY <2>4, <2>5 DEF SInv, RoutesAreComing
  <2>7. Len(queue) = 0
    BY <1>2, EmptySeq
  <2> QED
    BY <1>2, <2>6, <2>7 DEF Coming, Waiting, BeforeRoutes
<1> QED
  BY <1>3, <1>4

(* Once everything has settled, however the requests were ordered and       *)
(* whoever gave up waiting, the kernel's file is that of the last commit,   *)
(* and a kernel that has TUN has its routes, as long as no generation fails *)
(* and no kernel dies unasked (runReconcile).                               *)
THEOREM SettledRight ==
  ASSUME Alone
  PROVE  ReconcileSpec => [](deaths = 0 => SettledIsRight)
<1>1. RInv' /\ SInv /\ [ReconcileNext]_allVars => SInv'
  BY SStep
<1>2. SInv => (deaths = 0 => SettledIsRight)
  BY SettledFollows
<1> QED
  BY <1>1, <1>2, SInit, ReconcileInductive, PTL DEF ReconcileSpec
=============================================================================
