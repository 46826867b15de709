------------------------------ MODULE Reconcile ------------------------------
(***************************************************************************)
(* How a committed configuration reaches the kernel (reconcile.go): the    *)
(* handlers that commit and then queue a request, the single worker that   *)
(* generates config.yaml for the kernel, reloads or restarts the kernel    *)
(* and installs or removes the TUN return routes, and beside it the start  *)
(* handler, which generates the same file outside the queue.               *)
(*                                                                         *)
(* The kernel, Start, Stop and Restart are those of MihomoProcess; the     *)
(* worker is one of its callers.  A commit is one step here (ConfigStore   *)
(* has its parts) and a configuration is its version and its system.tun.   *)
(***************************************************************************)
EXTENDS MihomoProcess, Sequences

CONSTANTS Worker,         \* the goroutine of reconcileLoop, a caller
          Users,          \* request handlers that call the process manager
          Starters,       \* those of them that may be the start handler
          Posters,        \* handlers that commit and then reconcile
          QueueCap,       \* cap(reconcileCh)
          MaxCommits,     \* bound: commits
          MaxGenFaults,   \* bound: generations that fail, at any of their steps
          MaxSetupFaults, \* bound: failures of SetupTUNRouting in the worker
          MaxReloadFaults \* bound: reloads refused by a live kernel

ASSUME ReconcileAssumption ==
  /\ Callers = Users \cup {Worker}
  /\ Worker \notin Users
  /\ Starters \subseteq Users
  /\ QueueCap \in Nat \ {0}
  /\ None \notin Posters
  /\ {MaxCommits, MaxGenFaults, MaxSetupFaults, MaxReloadFaults} \subseteq Nat
  /\ MaxKernels # 0  \* there is room for a kernel that already runs

VARIABLES
  ver,      \* the version of the committed configuration
  post,     \* each handler with the request it made of its commit
  queue,    \* reconcileCh
  worker,   \* what the worker does
  gen,      \* each caller's run of GenerateMihomoConfig
  tmp,      \* the kernel's config.yaml.tmp
  file,     \* the kernel's config.yaml
  loaded,   \* the configuration each kernel process runs with
  swapped,  \* history: requests were queued in another order than committed
  aside,    \* history: the start handler has generated beside the queue
  genFaults, setupFaults, reloadFaults  \* the bounded counters

history == <<swapped, aside>>

pipeline == <<post, queue, worker, history>>

files == <<gen, tmp, file>>

faults == <<genFaults, setupFaults, reloadFaults>>

allVars == <<vars, ver, pipeline, files, loaded, faults>>

Content == [ver : 0..MaxCommits, tun : BOOLEAN]

Missing == [ver |-> 0, tun |-> FALSE, state |-> "missing"]
Empty   == [ver |-> 0, tun |-> FALSE, state |-> "empty"]
Torn    == [ver |-> 0, tun |-> FALSE, state |-> "torn"]

Whole(c) == [ver |-> c.ver, tun |-> c.tun, state |-> "whole"]

Files == {Missing, Empty, Torn} \cup {Whole(c) : c \in Content}

Committed == [ver |-> ver, tun |-> tun]

(* A request remembers the commit it was made for. *)
Request == [by : Posters, ver : 1..MaxCommits, sync : BOOLEAN, tun : BOOLEAN]

Nobody == [by |-> None]

Posts == [step : {"idle"}, req : {Nobody}]
           \cup [step : {"committed", "waiting"}, req : Request]

NoPost == [step |-> "idle", req |-> Nobody]

WorkerSteps == {"generate", "check", "setup", "reload", "restart", "cleanup",
                "report"}

Works == [step : {"idle"}, req : {Nobody}, ok : {FALSE}]
           \cup [step : WorkerSteps, req : Request, ok : BOOLEAN]

NoWork == [step |-> "idle", req |-> Nobody, ok |-> FALSE]

(* Where the file that a running os.WriteFile has open is to be found. *)
Places == {"tmp", "file", "gone"}

Gen == [step : {"idle", "ready", "opened", "written", "done", "failed"},
        cfg : Content, place : Places]

NoGen == [step |-> "idle", cfg |-> [ver |-> 0, tun |-> FALSE], place |-> "gone"]

-----------------------------------------------------------------------------
(* A handler commits, queues its request and waits for the answer. *)

Commit(h) ==
  /\ post[h].step = "idle"
  /\ ver < MaxCommits
  /\ ver' = ver + 1
  /\ tun' \in BOOLEAN
  /\ post' = [post EXCEPT ![h] =
       [step |-> "committed",
        req |-> [by |-> h, ver |-> ver + 1, sync |-> tun' # tun, tun |-> tun']]]
  /\ UNCHANGED <<processVars, rules, bounds, queue, worker, history, files, loaded,
                 faults>>

(* Somebody has committed before h and has not queued the request yet. *)
Overtakes(h) ==
  \E g \in Posters :
    post[g].step = "committed" /\ post[g].req.ver < post[h].req.ver

HasRoom == Len(queue) < QueueCap

Enqueue(h) ==
  /\ post[h].step = "committed"
  /\ HasRoom
  /\ queue' = Append(queue, post[h].req)
  /\ post' = [post EXCEPT ![h].step = "waiting"]
  /\ swapped' = (swapped \/ Overtakes(h))
  /\ UNCHANGED <<vars, ver, worker, aside, files, loaded, faults>>

(* The handler answers "timeout"; its request stays queued or in work. *)
PostTimesOut(h) ==
  /\ post[h].step = "waiting"
  /\ post' = [post EXCEPT ![h] = NoPost]
  /\ UNCHANGED <<vars, ver, queue, worker, history, files, loaded, faults>>

-----------------------------------------------------------------------------
(* GenerateMihomoConfig, run by the worker and by the start handler with    *)
(* one temporary file between them.                                         *)

Generate(c, this, g) ==
  /\ gen[c].step = this
  /\ gen' = [gen EXCEPT ![c] = g]

(* Mutant: the worker generates what its request was made for. *)
Current_Requested(c) ==
  IF c = Worker THEN [ver |-> worker.req.ver, tun |-> worker.req.tun] ELSE Committed

(* Mutant: the worker keeps the configuration it generated last. *)
Current_Cached(c) ==
  IF c = Worker /\ file.state = "whole" THEN [ver |-> file.ver, tun |-> file.tun]
                                         ELSE Committed

(* The snapshot of the committed configuration that c generates from. *)
Current(c) == Committed

Snapshot(c) ==
  /\ IF c = Worker THEN worker.step = "generate"
                    ELSE c \in Starters /\ op[c].step = "idle"
  /\ Generate(c, "idle", [step |-> "ready", cfg |-> Current(c), place |-> "gone"])
  /\ aside' = (aside \/ c # Worker)
  /\ UNCHANGED <<vars, ver, post, queue, worker, swapped, tmp, file, loaded,
                 faults>>

GenFault ==
  /\ genFaults < MaxGenFaults
  /\ genFaults' = genFaults + 1
  /\ UNCHANGED <<setupFaults, reloadFaults>>

GivesUp(c, this) == Generate(c, this, [NoGen EXCEPT !.step = "failed"])

(* Nothing can be generated, or the temporary file cannot be opened. *)
GenFails(c) ==
  /\ GivesUp(c, "ready")
  /\ GenFault
  /\ UNCHANGED <<vars, ver, pipeline, tmp, file, loaded>>

(* Mutant: the file is written in place. *)
Open_InPlace(c) ==
  /\ Generate(c, "ready", [gen[c] EXCEPT !.step = "opened", !.place = "file"])
  /\ file' = Empty
  /\ UNCHANGED <<vars, ver, pipeline, tmp, loaded, faults>>

(* os.WriteFile opens the temporary file and cuts it to nothing... *)
Open(c) ==
  /\ Generate(c, "ready", [gen[c] EXCEPT !.step = "opened", !.place = "tmp"])
  /\ tmp' = Empty
  /\ UNCHANGED <<vars, ver, pipeline, file, loaded, faults>>

(* ...and writes from its beginning, over what another has put there. *)
Over(old, cfg) ==
  IF old \in {Empty, Whole(cfg)} THEN {Whole(cfg)} ELSE {Whole(cfg), Torn}

Write(c) ==
  /\ Generate(c, "opened", [gen[c] EXCEPT !.step = "written"])
  /\ IF gen[c].place = "tmp" THEN tmp' \in Over(tmp, gen[c].cfg)
                             ELSE UNCHANGED tmp
  /\ IF gen[c].place = "file" THEN file' \in Over(file, gen[c].cfg)
                              ELSE UNCHANGED file
  /\ UNCHANGED <<vars, ver, pipeline, loaded, faults>>

(* os.WriteFile fails after any part of it: the cut file is left behind. *)
WriteFails(c) ==
  /\ GivesUp(c, "opened")
  /\ GenFault
  /\ IF gen[c].place = "tmp" THEN tmp' \in Over(tmp, gen[c].cfg) \cup {tmp, Torn}
                             ELSE UNCHANGED tmp
  /\ IF gen[c].place = "file" THEN file' \in Over(file, gen[c].cfg) \cup {file, Torn}
                              ELSE UNCHANGED file
  /\ UNCHANGED <<vars, ver, pipeline, loaded>>

(* Where an open file is after somebody has renamed the temporary file. *)
Moved(place) == IF place = "tmp" THEN "file" ELSE "gone"

Replace(c, step) ==
  /\ gen[c].step = "written"
  /\ tmp # Missing
  /\ file' = tmp
  /\ tmp' = Missing
  /\ gen' = [d \in Callers |->
       [gen[d] EXCEPT !.step = IF d = c THEN step ELSE @, !.place = Moved(@)]]
  /\ UNCHANGED <<vars, ver, pipeline, loaded>>

Rename(c) == Replace(c, "done") /\ UNCHANGED faults

(* The file has been replaced, but os.Chmod fails after it. *)
ChmodFails(c) == Replace(c, "failed") /\ GenFault

(* The other generation has renamed the temporary file away. *)
RenameFails(c) ==
  /\ tmp = Missing
  /\ GivesUp(c, "written")
  /\ UNCHANGED <<vars, ver, pipeline, tmp, file, loaded, faults>>

(* os.Rename is refused, and the temporary file is removed. *)
RenameRefused(c) ==
  /\ gen[c].step = "written"
  /\ tmp # Missing
  /\ GenFault
  /\ tmp' = Missing
  /\ gen' = [d \in Callers |->
       IF d = c THEN [NoGen EXCEPT !.step = "failed"]
                ELSE [gen[d] EXCEPT !.place = IF @ = "tmp" THEN "gone" ELSE @]]
  /\ UNCHANGED <<vars, ver, pipeline, file, loaded>>

-----------------------------------------------------------------------------
(* reconcileLoop and runReconcile. *)

WorkerGo(this, that) ==
  /\ worker.step = this
  /\ worker' = [worker EXCEPT !.step = that]

Finish(ok) == worker' = [worker EXCEPT !.step = "report", !.ok = ok]

TurnsOn == worker.req.sync /\ worker.req.tun

TurnsOff == worker.req.sync /\ ~worker.req.tun

(* What follows a kernel that has taken the new configuration. *)
Taken == IF TurnsOff THEN worker' = [worker EXCEPT !.step = "cleanup"]
                     ELSE Finish(TRUE)

Take ==
  /\ worker.step = "idle"
  /\ queue # <<>>
  /\ worker' = [step |-> "generate", req |-> Head(queue), ok |-> FALSE]
  /\ queue' = Tail(queue)
  /\ UNCHANGED <<vars, ver, post, history, files, loaded, faults>>

Generated ==
  /\ worker.step = "generate"
  /\ gen[Worker].step \in {"done", "failed"}
  /\ IF gen[Worker].step = "done" THEN WorkerGo("generate", "check")
                                  ELSE Finish(FALSE)
  /\ gen' = [gen EXCEPT ![Worker] = NoGen]
  /\ UNCHANGED <<vars, ver, post, queue, history, tmp, file, loaded, faults>>

(* Mutant: the kernel is reloaded without the routes. *)
FirstStep_Reload == "reload"

(* Routes come before the kernel that takes over the traffic. *)
FirstStep == IF TurnsOn THEN "setup" ELSE "reload"

CheckRunning ==
  /\ Free
  /\ worker.step = "check"
  /\ IF running THEN WorkerGo("check", FirstStep) ELSE Finish(TRUE)
  /\ UNCHANGED <<vars, ver, post, queue, history, files, loaded, faults>>

InstallRules ==
  /\ worker.step = "setup"
  /\ \/ /\ WorkerGo("setup", "reload")
        /\ SetupForRunning
        /\ UNCHANGED setupFaults
     \/ /\ setupFaults < MaxSetupFaults
        /\ setupFaults' = setupFaults + 1
        /\ rules' \in {rules, "none"}
        /\ Finish(FALSE)
  /\ UNCHANGED <<processVars, tun, bounds, ver, post, queue, history, files,
                 loaded, genFaults, reloadFaults>>

(* The kernel that answers on the API address. *)
Answers(k) == kernel[k].life = "alive"

Reload(k) ==
  /\ worker.step = "reload"
  /\ Answers(k)
  /\ file.state = "whole"
  /\ loaded' = [loaded EXCEPT ![k] = file]
  /\ Taken
  /\ UNCHANGED <<vars, ver, post, queue, history, files, faults>>

ReloadFails ==
  /\ WorkerGo("reload", "restart")
  /\ BeginRestart(Worker)
  /\ IF file.state = "whole" /\ \E k \in Kernels : Answers(k)
       THEN /\ reloadFaults < MaxReloadFaults
            /\ reloadFaults' = reloadFaults + 1
       ELSE UNCHANGED reloadFaults
  /\ UNCHANGED <<ver, post, queue, history, files, loaded, genFaults,
                 setupFaults>>

Restarted ==
  /\ worker.step = "restart"
  /\ IF op[Worker].step = "ok" THEN Taken ELSE Finish(FALSE)
  /\ Return(Worker)
  /\ UNCHANGED <<ver, post, queue, history, files, loaded, faults>>

RemoveRules ==
  /\ worker.step = "cleanup"
  /\ Restore
  /\ Finish(restoreFaults' = restoreFaults)
  /\ UNCHANGED <<processVars, tun, toggles, sync, deaths, ver, post, queue, history,
                 files, loaded, faults>>

(* Mutant: the result channel is not buffered, so that the worker waits for *)
(* a handler that has given up.                                             *)
Report_Unbuffered ==
  /\ worker.step = "report"
  /\ \E h \in Posters :
       /\ post[h] = [step |-> "waiting", req |-> worker.req]
       /\ post' = [post EXCEPT ![h] = NoPost]
  /\ worker' = NoWork
  /\ UNCHANGED <<vars, ver, queue, history, files, loaded, faults>>

(* The answer finds its handler only while that still waits for it. *)
Report ==
  /\ worker.step = "report"
  /\ worker' = NoWork
  /\ post' = [h \in Posters |-> IF post[h] = [step |-> "waiting", req |-> worker.req]
                                 THEN NoPost ELSE post[h]]
  /\ UNCHANGED <<vars, ver, queue, history, files, loaded, faults>>

-----------------------------------------------------------------------------
(* The process manager's steps, with what a spawned kernel reads. *)

Reads ==
  loaded' = [k \in Kernels |->
    IF kernel[k].life = "unborn" /\ kernel'[k].life = "alive" THEN file ELSE loaded[k]]

Calls(c) == CallerStep(c) /\ Reads /\ UNCHANGED <<ver, pipeline, files, faults>>

Waits(k) == WaiterStep(k) /\ UNCHANGED <<ver, pipeline, files, loaded, faults>>

Exits(k) == KernelStep(k) /\ UNCHANGED <<ver, pipeline, files, loaded, faults>>

(* The start handler goes on to Start, or answers that it cannot. *)
StartHandler(u) ==
  /\ \/ /\ gen[u].step = "done"
        /\ BeginStart(u)
     \/ /\ gen[u].step = "failed"
        /\ UNCHANGED vars
  /\ gen' = [gen EXCEPT ![u] = NoGen]
  /\ UNCHANGED <<ver, pipeline, tmp, file, loaded, faults>>

(* The stop and restart handlers. *)
CallHandler(u) ==
  /\ gen[u].step = "idle"
  /\ BeginStop(u) \/ BeginRestart(u)
  /\ UNCHANGED <<ver, pipeline, files, loaded, faults>>

Answered(u) == Return(u) /\ UNCHANGED <<ver, pipeline, files, loaded, faults>>

-----------------------------------------------------------------------------
(* The daemon has just started, or a kernel already runs with the current   *)
(* configuration.                                                           *)

InitStarted ==
  /\ Init
  /\ file \in {Missing, Whole(Committed)}
  /\ loaded = [k \in Kernels |-> Missing]

InitRunning ==
  /\ mu = None
  /\ running = TRUE
  /\ cmd = 1
  /\ tun \in BOOLEAN
  /\ rules = IF tun THEN "start" ELSE "none"
  /\ kernel = [k \in Kernels |-> IF k = 1
                  THEN [life |-> "alive", guarded |-> tun, signal |-> "none"]
                  ELSE NoKernel]
  /\ exited = {}
  /\ op = [c \in Callers |-> NoOp]
  /\ sync = "none"
  /\ toggles = 0 /\ deaths = 0 /\ restoreFaults = 0
  /\ file = Whole(Committed)
  /\ loaded = [k \in Kernels |-> IF k = 1 THEN file ELSE Missing]

ReconcileInit ==
  /\ ver = 0
  /\ post = [h \in Posters |-> NoPost]
  /\ queue = <<>>
  /\ swapped = FALSE /\ aside = FALSE
  /\ worker = NoWork
  /\ gen = [c \in Callers |-> NoGen]
  /\ tmp = Missing
  /\ genFaults = 0 /\ setupFaults = 0 /\ reloadFaults = 0
  /\ InitStarted \/ InitRunning

GenStep(c) ==
  \/ Open(c) \/ Write(c) \/ Rename(c) \/ RenameFails(c)
  \/ GenFails(c) \/ WriteFails(c) \/ ChmodFails(c) \/ RenameRefused(c)

WorkerStep ==
  \/ Take \/ Snapshot(Worker) \/ Generated \/ CheckRunning \/ InstallRules
  \/ (\E k \in Kernels : Reload(k)) \/ ReloadFails
  \/ Restarted \/ RemoveRules \/ Report

ReconcileNext ==
  \/ \E h \in Posters : Commit(h) \/ Enqueue(h) \/ PostTimesOut(h)
  \/ WorkerStep
  \/ \E c \in Callers : GenStep(c) \/ Calls(c)
  \/ \E u \in Starters : Snapshot(u) \/ StartHandler(u)
  \/ \E u \in Users : CallHandler(u) \/ Answered(u)
  \/ \E k \in Kernels : Waits(k) \/ Exits(k)

ReconcileSpec == ReconcileInit /\ [][ReconcileNext]_allVars

(* Every goroutine runs on; the sends to the channel and p.mu are granted   *)
(* in turn, which the Go runtime guarantees; a killed process dies.  That   *)
(* kernels are never slow means that they obey SIGTERM.                     *)
ReconcileFairness ==
  /\ \A h \in Posters : SF_allVars(Enqueue(h)) /\ WF_allVars(PostTimesOut(h))
  /\ SF_allVars(WorkerStep)
  /\ \A c \in Callers : WF_allVars(GenStep(c)) /\ SF_allVars(Calls(c))
  /\ \A k \in Kernels :
       /\ SF_allVars(Waits(k)) /\ WF_allVars(Killed(k) /\ Exits(k))
       /\ WF_allVars(~Slow /\ Terminated(k) /\ Exits(k))

FairReconcileSpec == ReconcileSpec /\ ReconcileFairness

-----------------------------------------------------------------------------

(* Every variable keeps its type. *)
ReconcileTypeOK ==
  /\ TypeOK
  /\ ver \in 0..MaxCommits
  /\ post \in [Posters -> Posts]
  /\ queue \in Seq(Request) /\ Len(queue) <= QueueCap
  /\ {swapped, aside} \subseteq BOOLEAN
  /\ worker \in Works
  /\ gen \in [Callers -> Gen]
  /\ tmp \in Files
  /\ file \in Files
  /\ loaded \in [Kernels -> Files]
  /\ genFaults \in 0..MaxGenFaults
  /\ setupFaults \in 0..MaxSetupFaults
  /\ reloadFaults \in 0..MaxReloadFaults

(* Nothing is under way: nothing is queued, no commit is about to be, no    *)
(* call runs, and every exit has been dealt with.                           *)
Quiet ==
  /\ \A h \in Posters : post[h].step # "committed"
  /\ queue = <<>> /\ worker = NoWork
  /\ \A c \in Callers : op[c].step = "idle" /\ gen[c].step = "idle"
  /\ \A k \in Kernels : kernel[k].life \in {"unborn", "alive", "done"}

(* The kernel's config.yaml is never half written (temporary file and       *)
(* rename in GenerateMihomoConfig).                                         *)
FileIsWhole == file \in {Missing} \cup {Whole(c) : c \in Content}

(* The queue stays within its bound, the workers and handlers in their      *)
(* steps, and the kernel's file is never half written, whichever step of    *)
(* the worker's generation fails and whatever is queued meanwhile.  Where   *)
(* the start handler generates beside the worker this does not hold: one    *)
(* generation can rename what the other has just cut.                       *)
FilesAreSound == ReconcileTypeOK /\ FileIsWhole

(* No older configuration overwrites a newer one in the kernel's file       *)
(* (the claim on reconcileLoop).                                            *)
FileGoesForward ==
  [][file'.state = "whole" => file'.ver >= file.ver]_allVars

(* When everything has settled, the kernel's file holds the configuration   *)
(* committed last, in whatever order the requests were queued.              *)
LatestIsGenerated == Quiet /\ ver > 0 => file = Whole(Committed)

(* Whatever the start handler does to the file meanwhile, the worker works  *)
(* from a configuration at least as new as the commit it was asked to apply *)
(* (the snapshot is taken when the task runs, after the commit).            *)
SnapshotCoversRequest ==
  gen[Worker].step \notin {"idle", "failed"} => gen[Worker].cfg.ver >= worker.req.ver

(* While a user stops and restarts the kernel, a report that a commit is    *)
(* applied means that a kernel that runs has loaded that commit or a newer  *)
(* one.  That takes a start handler that has not written the file meanwhile *)
(* from an older snapshot.                                                  *)
AppliedMeansLoaded ==
  ~aside /\ worker.step = "report" /\ worker.ok /\ running /\ kernel[cmd].life = "alive" =>
    loaded[cmd].ver >= worker.req.ver

(* What the worker generates and what it reports are never older than the   *)
(* commit it was asked to apply, whatever users and the start handler do    *)
(* beside it (runReconcile).                                                *)
WorkIsCurrent == SnapshotCoversRequest /\ AppliedMeansLoaded

(* Once everything has settled, a kernel that runs with TUN is protected    *)
(* by the return routes (the order of steps 2 and 3 of runReconcile).  That *)
(* takes requests queued in the order of their commits, and routes that     *)
(* could be installed whenever they were to be: a later request for the     *)
(* same TUN does not try again.                                             *)
TunIsProtected ==
  /\ ~swapped /\ setupFaults = 0
  /\ Quiet /\ running /\ kernel[cmd].life = "alive" /\ loaded[cmd].tun
  => rules # "none"

(* Once everything has settled, however the requests were ordered and       *)
(* whoever gave up waiting, the kernel's file is that of the last commit,   *)
(* and a kernel that has TUN has its routes (runReconcile).  That takes     *)
(* generations that succeed: one that fails is reported and not tried       *)
(* again, and the routes its request was to install are forgotten with it.  *)
SettledIsRight == genFaults = 0 => LatestIsGenerated /\ TunIsProtected

(* Every commit, or a newer one, reaches the kernel's file, even if its     *)
(* handler gave up waiting, unless a generation fails.                      *)
CommitsAreGenerated ==
  \A v \in 1..MaxCommits :
    ver = v ~> genFaults > 0 \/ (file.ver >= v /\ file.state = "whole")
=============================================================================
