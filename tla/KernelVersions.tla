---------------------------- MODULE KernelVersions ----------------------------
(***************************************************************************)
(* The repository of kernel binaries: which versions are installed, which  *)
(* of them is active, the progress of a download, and how an activation    *)
(* restarts a running kernel or takes itself back (mihomo_versions.go,     *)
(* daemon_handlers_mihomo.go).                                             *)
(*                                                                         *)
(* Downloads run in goroutines of their own, everything else in request    *)
(* handlers. mihomoVersionOpMu serialises the operations on the binaries,  *)
(* d.mu guards the progress; the commit that takes an activation back and  *)
(* the final report of a download hold neither lock for long.              *)
(***************************************************************************)
EXTENDS FiniteSets, Naturals

CONSTANTS Versions,
          Tasks,        \* request handlers and download goroutines
          None,         \* no version, no task
          Elsewhere,    \* the binary findMihomoBinary falls back to
          Catalogs,     \* the releases that the release list may offer
          Ops,          \* the operations that users ask for
          MaxRequests,  \* bound: requests
          MaxOverlaps,  \* bound: requests begun while others are under way
          MaxFaults     \* bound: failing steps

ASSUME VersionAssumption ==
  /\ None \notin Versions \cup Tasks
  /\ Elsewhere \notin Versions \cup {None}
  /\ Catalogs \subseteq SUBSET Versions
  /\ Ops \subseteq {"download", "upgrade", "activate", "delete", "import",
                    "refresh", "start", "stop"}
  /\ {MaxRequests, MaxOverlaps, MaxFaults} \subseteq Nat

VARIABLES
  store,     \* bin/versions/v*: no directory, one without a binary, or both
  drop,      \* the version of the binary in bin/manual
  released,  \* Config.MihomoVersions with an AssetURL
  manual,    \* Config.MihomoVersions marked Manual
  active,    \* Config.MihomoActiveVersion, and MihomoBinaryPath with it
  progress,  \* Daemon.upgradeProgress
  opMu,      \* the task that holds mihomoVersionOpMu
  kernel,    \* the binary that the running kernel was started from
  tasks,     \* what each task does
  requests,  \* the number of requests so far
  overlaps,  \* those of them begun while another was under way
  undos,     \* the number of activations taken back
  faults     \* the number of failed steps so far

vars == <<store, drop, released, manual, active, progress, opMu, kernel,
          tasks, requests, overlaps, undos, faults>>

Config == <<released, manual, active>>

counts == <<requests, overlaps, undos>>

Idle == [op |-> "idle", at |-> "idle", version |-> None, running |-> FALSE,
         old |-> None, failed |-> FALSE, again |-> FALSE]

Good(v) == v # None /\ store[v] = "installed"

Busy == progress.status \in {"downloading", "extracting"}

(* findMihomoBinary *)
Binary == IF Good(active) THEN active ELSE Elsewhere

(* MihomoVersionList: the catalog and the directories of the repository. *)
Listed == released \cup manual \cup {v \in Versions : store[v] # "absent"}

Init ==
  /\ store \in [Versions -> {"absent", "installed"}]
  /\ drop = None
  /\ released \in Catalogs
  /\ manual = {}
  /\ active \in {None} \cup {v \in Versions : store[v] = "installed"}
  /\ progress = [status |-> "idle", version |-> None]
  /\ opMu = None
  /\ kernel \in {None, Binary}
  /\ tasks = [t \in Tasks |-> Idle]
  /\ requests = 0
  /\ overlaps = 0
  /\ undos = 0
  /\ faults = 0
-----------------------------------------------------------------------------
(* How a task goes on, ends, and fails for a reason outside the daemon. *)
Goes(t, at) == tasks' = [tasks EXCEPT ![t].at = at]

Ends(t) == tasks' = [tasks EXCEPT ![t] = Idle]

FailsAt(t, at) == tasks' = [tasks EXCEPT ![t].at = at, ![t].failed = TRUE]

Fault ==
  /\ faults < MaxFaults
  /\ faults' = faults + 1

AllIdle == \A t \in Tasks : tasks[t] = Idle

Begin(t) ==
  /\ tasks[t] = Idle
  /\ overlaps' = overlaps + (IF AllIdle THEN 0 ELSE 1)
  /\ overlaps' <= MaxOverlaps

(* A request is answered by an idle task. *)
Request(t, op) ==
  /\ op \in Ops
  /\ Begin(t)
  /\ requests < MaxRequests
  /\ requests' = requests + 1

At(t, op, at) == tasks[t].op = op /\ tasks[t].at = at

Accept(t, op, at, v) ==
  tasks' = [tasks EXCEPT ![t] = [Idle EXCEPT !.op = op, !.at = at,
                                             !.version = v]]

(* The progress callbacks: only those of startMihomoVersionDownload name    *)
(* the version.                                                             *)
Reports(t, status) ==
  progress' = [status |-> status,
               version |-> IF tasks[t].op = "download" THEN tasks[t].version
                                                       ELSE progress.version]
-----------------------------------------------------------------------------
(* startMihomoVersionDownload *)
RequestDownload(t, v) ==
  /\ Request(t, "download")
  /\ ~Busy
  /\ progress' = [status |-> "downloading", version |-> v]
  /\ Accept(t, "download", "queued", v)
  /\ UNCHANGED <<store, drop, Config, opMu, kernel, undos, faults>>

(* handleMihomoUpgrade; without a version it asks for the latest one. *)
RequestUpgrade(t, v) ==
  /\ Request(t, "upgrade")
  /\ ~Busy
  /\ progress' = [status |-> "downloading", version |-> None]
  /\ Accept(t, "upgrade", "find", v)
  /\ UNCHANGED <<store, drop, Config, opMu, kernel, undos, faults>>

(* DownloadMihomo refreshes the catalog for a version that is not listed. *)
Find(t) ==
  /\ At(t, "upgrade", "find")
  /\ tasks[t].version \in Listed
  /\ Goes(t, "queued")
  /\ UNCHANGED <<store, drop, Config, progress, opMu, kernel, counts,
                 faults>>

FindAfterRefresh(t) ==
  /\ At(t, "upgrade", "find")
  /\ tasks[t].version \notin Listed
  /\ \/ /\ released' \in Catalogs
        /\ manual' = {}
        /\ Goes(t, "queued")
        /\ UNCHANGED faults
     \/ /\ Fault
        /\ FailsAt(t, "ending")
        /\ UNCHANGED <<released, manual>>
  /\ UNCHANGED <<store, drop, active, progress, opMu, kernel, counts>>

AfterDownload(t) == IF tasks[t].op = "upgrade" THEN "activating" ELSE "ending"

(* DownloadMihomoVersionWithProgress, up to the transfer. *)
Lookup(t) ==
  LET v == tasks[t].version IN
  /\ tasks[t].at = "queued"
  /\ opMu = None
  /\ \/ /\ v \notin released
        /\ FailsAt(t, "ending")
        /\ UNCHANGED <<store, progress, opMu>>
     \/ /\ v \in released
        /\ Good(v)
        /\ Reports(t, "done")
        /\ Goes(t, AfterDownload(t))
        /\ UNCHANGED <<store, opMu>>
     \/ /\ v \in released
        /\ ~Good(v)
        /\ store' = [store EXCEPT ![v] = "empty"]
        /\ opMu' = t
        /\ Goes(t, "transferring")
        /\ UNCHANGED progress
  /\ UNCHANGED <<drop, Config, kernel, counts, faults>>

(* downloadMihomoAsset; the callbacks of a second source repeat the status. *)
Transfer(t) ==
  /\ tasks[t].at = "transferring"
  /\ Reports(t, "downloading")
  /\ Goes(t, "transferred")
  /\ UNCHANGED <<store, drop, Config, opMu, kernel, counts, faults>>

Extract(t) ==
  /\ tasks[t].at = "transferred"
  /\ Reports(t, "extracting")
  /\ Goes(t, "extracted")
  /\ UNCHANGED <<store, drop, Config, opMu, kernel, counts, faults>>

(* The verified binary is renamed to its place and the lock released. *)
Install(t) ==
  /\ tasks[t].at = "extracted"
  /\ store' = [store EXCEPT ![tasks[t].version] = "installed"]
  /\ Reports(t, "done")
  /\ opMu' = None
  /\ Goes(t, AfterDownload(t))
  /\ UNCHANGED <<drop, Config, kernel, counts, faults>>

(* A transfer, an archive or a binary that is no good. *)
DownloadFails(t) ==
  /\ tasks[t].at \in {"transferring", "transferred", "extracted"}
  /\ Fault
  /\ opMu' = None
  /\ FailsAt(t, "ending")
  /\ UNCHANGED <<store, drop, Config, progress, kernel, counts>>

(* Mutant: a download that fails leaves the progress as it is. *)
Report_OnlySuccess(t) ==
  /\ tasks[t].at = "ending"
  /\ progress' = IF tasks[t].failed THEN progress
                                    ELSE [progress EXCEPT !.status = "done"]
  /\ Ends(t)
  /\ UNCHANGED <<store, drop, Config, opMu, kernel, counts, faults>>

(* The goroutine's last report, under d.mu; it does not name the version. *)
Report(t) ==
  /\ tasks[t].at = "ending"
  /\ progress' = [progress EXCEPT !.status =
                    IF tasks[t].failed THEN "error" ELSE "done"]
  /\ Ends(t)
  /\ UNCHANGED <<store, drop, Config, opMu, kernel, counts, faults>>

(* handleMihomoUpgradeProgress: a copy of the progress is compared with the *)
(* repository, and the progress is then completed if it is for the same     *)
(* version still.                                                           *)
Poll(t) ==
  /\ Begin(t)
  /\ Busy
  /\ Good(progress.version)
  /\ Accept(t, "poll", "completing", progress.version)
  /\ UNCHANGED <<store, drop, Config, progress, opMu, kernel, requests,
                 undos, faults>>

Complete(t) ==
  /\ At(t, "poll", "completing")
  /\ progress' = IF Busy /\ progress.version = tasks[t].version
                 THEN [progress EXCEPT !.status = "done"] ELSE progress
  /\ Ends(t)
  /\ UNCHANGED <<store, drop, Config, opMu, kernel, counts, faults>>
-----------------------------------------------------------------------------
(* activateMihomoVersion: first the kernel's status, then the old version. *)
RequestActivate(t, v) ==
  /\ Request(t, "activate")
  /\ tasks' = [tasks EXCEPT ![t] = [Idle EXCEPT !.op = "activate",
                 !.at = "noting", !.version = v, !.running = kernel # None]]
  /\ UNCHANGED <<store, drop, Config, progress, opMu, kernel, undos, faults>>

NoteOld(t) ==
  /\ At(t, "activate", "noting")
  /\ tasks' = [tasks EXCEPT ![t].at = "activating", ![t].old = active]
  /\ UNCHANGED <<store, drop, Config, progress, opMu, kernel, counts,
                 faults>>

(* An upgrade activates what it has downloaded without a restart. *)
Restarts(t) == tasks[t].op = "activate" /\ tasks[t].running

(* ActivateMihomoVersion holds the lock from the check to the commit. *)
Activate(t) ==
  /\ tasks[t].at = "activating"
  /\ opMu = None
  /\ Good(tasks[t].version)
  /\ active' = tasks[t].version
  /\ CASE tasks[t].op = "upgrade" -> Goes(t, "ending")
       [] Restarts(t) -> Goes(t, "stopping")
       [] OTHER -> Ends(t)
  /\ UNCHANGED <<store, drop, released, manual, progress, opMu, kernel,
                 counts, faults>>

(* The version is not installed, or the commit fails. *)
ActivateFails(t) ==
  /\ tasks[t].at = "activating"
  /\ opMu = None
  /\ IF Good(tasks[t].version) THEN Fault ELSE UNCHANGED faults
  /\ IF tasks[t].op = "upgrade" THEN FailsAt(t, "ending") ELSE Ends(t)
  /\ UNCHANGED <<store, drop, Config, progress, opMu, kernel, counts>>

(* The two halves of MihomoProcess.Restart (MihomoProcess has its parts). *)
RestartFails(t) == IF tasks[t].again THEN Ends(t) ELSE Goes(t, "undoing")

RestartStop(t) ==
  /\ tasks[t].at = "stopping"
  /\ \/ /\ kernel' = None
        /\ Goes(t, "starting")
        /\ UNCHANGED faults
     \/ /\ kernel # None
        /\ Fault
        /\ RestartFails(t)
        /\ UNCHANGED kernel
  /\ UNCHANGED <<store, drop, Config, progress, opMu, counts>>

RestartStart(t) ==
  /\ tasks[t].at = "starting"
  /\ \/ /\ kernel = None
        /\ kernel' = Binary
        /\ Ends(t)
        /\ UNCHANGED faults
     \/ /\ kernel # None
        /\ RestartFails(t)
        /\ UNCHANGED <<kernel, faults>>
     \/ /\ kernel = None
        /\ Fault
        /\ RestartFails(t)
        /\ UNCHANGED kernel
  /\ UNCHANGED <<store, drop, Config, progress, opMu, counts>>

(* Mutant: the activation stays committed although its restart failed. *)
Undo_KeepsNew(t) ==
  /\ At(t, "activate", "undoing")
  /\ tasks' = [tasks EXCEPT ![t].at = "stopping", ![t].again = TRUE]
  /\ UNCHANGED <<store, drop, Config, progress, opMu, kernel, counts,
                 faults>>

(* The old version is committed again, without the lock, and restarted. *)
Undo(t) ==
  /\ At(t, "activate", "undoing")
  /\ \/ /\ active' = tasks[t].old
        /\ tasks' = [tasks EXCEPT ![t].at = "stopping", ![t].again = TRUE]
        /\ undos' = undos + 1
        /\ UNCHANGED faults
     \/ /\ Fault
        /\ Ends(t)
        /\ UNCHANGED <<active, undos>>
  /\ UNCHANGED <<store, drop, released, manual, progress, opMu, kernel,
                 requests,
                 overlaps>>
-----------------------------------------------------------------------------
(* DeleteMihomoVersion *)
RequestDelete(t, v) ==
  /\ Request(t, "delete")
  /\ Accept(t, "delete", "checking", v)
  /\ UNCHANGED <<store, drop, Config, progress, opMu, kernel, undos, faults>>

(* Mutant: the version is compared with the one of the running kernel. *)
Deletable_RunningOnly(v) == Good(v) /\ kernel # v

Deletable(v) == Good(v) /\ active # v

(* Mutant: the lock is kept when the deletion is refused. *)
CheckDelete_KeepsLock(t) ==
  /\ At(t, "delete", "checking")
  /\ opMu = None
  /\ opMu' = t
  /\ IF Deletable(tasks[t].version) THEN Goes(t, "removing") ELSE Ends(t)
  /\ UNCHANGED <<store, drop, Config, progress, kernel, counts, faults>>

CheckDelete(t) ==
  /\ At(t, "delete", "checking")
  /\ opMu = None
  /\ IF Deletable(tasks[t].version)
     THEN opMu' = t /\ Goes(t, "removing")
     ELSE UNCHANGED opMu /\ Ends(t)
  /\ UNCHANGED <<store, drop, Config, progress, kernel, counts, faults>>

(* The version's directory goes.  A removal that fails ends the deletion,    *)
(* and has left the directory as it was or without its binary.               *)
Remove(t) ==
  /\ At(t, "delete", "removing")
  /\ \/ /\ store' = [store EXCEPT ![tasks[t].version] = "absent"]
        /\ Goes(t, "forgetting")
        /\ UNCHANGED <<opMu, faults>>
     \/ /\ Fault
        /\ store' \in {store, [store EXCEPT ![tasks[t].version] = "empty"]}
        /\ opMu' = None
        /\ Ends(t)
  /\ UNCHANGED <<drop, Config, progress, kernel, counts>>

Forget(t) ==
  /\ At(t, "delete", "forgetting")
  /\ \/ manual' = manual \ {tasks[t].version} /\ UNCHANGED faults
     \/ Fault /\ UNCHANGED manual
  /\ opMu' = None
  /\ Ends(t)
  /\ UNCHANGED <<store, drop, released, active, progress, kernel, counts>>

(* A user copies a binary to the import directory and asks for the import. *)
RequestImport(t, v) ==
  /\ Request(t, "import")
  /\ drop' \in {drop, v}
  /\ Accept(t, "import", "moving", None)
  /\ UNCHANGED <<store, Config, progress, opMu, kernel, undos, faults>>

Importable == drop # None /\ ~Good(drop)

(* ImportManualMihomoBinary *)
MoveImport(t) ==
  /\ At(t, "import", "moving")
  /\ opMu = None
  /\ IF Importable
     THEN /\ store' = [store EXCEPT ![drop] = "installed"]
          /\ drop' = None
          /\ opMu' = t
          /\ tasks' = [tasks EXCEPT ![t].at = "registering",
                                    ![t].version = drop]
     ELSE Ends(t) /\ UNCHANGED <<store, drop, opMu>>
  /\ UNCHANGED <<Config, progress, kernel, counts, faults>>

Register(t) ==
  /\ At(t, "import", "registering")
  /\ \/ /\ manual' = manual \cup {tasks[t].version}
        /\ UNCHANGED <<store, faults>>
     \/ /\ Fault
        /\ store' = [store EXCEPT ![tasks[t].version] = "empty"]
        /\ UNCHANGED manual
  /\ opMu' = None
  /\ Ends(t)
  /\ UNCHANGED <<drop, released, active, progress, kernel, counts>>

(* RefreshMihomoVersionCatalog replaces the whole catalog. *)
Refresh(t) ==
  /\ Request(t, "refresh")
  /\ released' \in Catalogs
  /\ manual' = {}
  /\ UNCHANGED <<store, drop, active, progress, opMu, kernel, tasks, undos,
                 faults>>
-----------------------------------------------------------------------------
(* The other handlers that start and stop the kernel, and its own exit. *)
StartKernel(t) ==
  /\ Request(t, "start")
  /\ kernel = None
  /\ kernel' = Binary
  /\ UNCHANGED <<store, drop, Config, progress, opMu, tasks, undos, faults>>

StopKernel(t) ==
  /\ Request(t, "stop")
  /\ kernel # None
  /\ kernel' = None
  /\ UNCHANGED <<store, drop, Config, progress, opMu, tasks, undos, faults>>

KernelExits ==
  /\ kernel # None
  /\ Fault
  /\ kernel' = None
  /\ UNCHANGED <<store, drop, Config, progress, opMu, tasks, counts>>

Download(t) ==
  \/ Find(t) \/ FindAfterRefresh(t) \/ Lookup(t) \/ Transfer(t)
  \/ Extract(t) \/ Install(t) \/ DownloadFails(t) \/ Report(t)

Handle(t) ==
  \/ Complete(t) \/ NoteOld(t) \/ Activate(t) \/ ActivateFails(t)
  \/ RestartStop(t) \/ RestartStart(t) \/ Undo(t)
  \/ CheckDelete(t) \/ Remove(t) \/ Forget(t) \/ MoveImport(t) \/ Register(t)

Ask(t) ==
  \/ \E v \in Versions :
       \/ RequestDownload(t, v) \/ RequestUpgrade(t, v)
       \/ RequestActivate(t, v) \/ RequestDelete(t, v) \/ RequestImport(t, v)
  \/ Refresh(t) \/ StartKernel(t) \/ StopKernel(t) \/ Poll(t)

Next == KernelExits \/ \E t \in Tasks : Ask(t) \/ Download(t) \/ Handle(t)

Spec == Init /\ [][Next]_vars

(* Handlers and goroutines go on, and a free lock is given to a waiter.     *)
Fairness == \A t \in Tasks : WF_vars(Download(t)) /\ WF_vars(Handle(t))

FairSpec == Spec /\ Fairness
-----------------------------------------------------------------------------
TypeOK ==
  /\ store \in [Versions -> {"absent", "empty", "installed"}]
  /\ {drop, active} \subseteq Versions \cup {None}
  /\ released \subseteq Versions
  /\ manual \subseteq Versions
  /\ progress \in [status : {"idle", "downloading", "extracting", "done",
                             "error"}, version : Versions \cup {None}]
  /\ opMu \in Tasks \cup {None}
  /\ kernel \in Versions \cup {Elsewhere, None}
  /\ tasks \in [Tasks ->
       [op : {"idle", "poll", "download", "upgrade", "activate", "delete",
              "import"},
        at : {"idle", "completing", "find", "queued", "transferring",
              "transferred", "extracted", "ending", "noting", "activating",
              "stopping", "starting", "undoing", "checking", "removing",
              "forgetting", "moving", "registering"},
        version : Versions \cup {None}, running : BOOLEAN,
        old : Versions \cup {None}, failed : BOOLEAN, again : BOOLEAN]]
  /\ requests \in 0..MaxRequests
  /\ overlaps \in 0..MaxOverlaps
  /\ undos \in 0..MaxRequests
  /\ faults \in 0..MaxFaults

(* The version that the configuration selects is installed: downloads,     *)
(* activations, imports and deletions that interleave never leave a        *)
(* selection without its binary, for which findMihomoBinary would start    *)
(* some other one. An activation that is taken back while other requests   *)
(* are under way is the exception: it does not hold the lock.              *)
ActiveIsInstalled ==
  (overlaps = 0 \/ undos = 0) => (active # None => Good(active))

(* The progress says that a download is under way only while one is: no    *)
(* failure leaves the resource page polling forever and every later        *)
(* download refused (startMihomoVersionDownload, handleMihomoUpgrade).     *)
BusyHasTask ==
  Busy => \E t \in Tasks : tasks[t].op \in {"download", "upgrade"}

(* The one progress record, written by the callback, the goroutine and the  *)
(* handlers, never blocks: every variable has its type, and a progress that *)
(* says busy has its task.                                                  *)
ProgressIsTrue == TypeOK /\ BusyHasTask

(* Every request and every goroutine ends: an activation and the one that  *)
(* makes its restart fail do not undo each other for ever, and no path     *)
(* keeps mihomoVersionOpMu.                                                *)
TasksEnd == \A t \in Tasks : tasks[t] # Idle ~> tasks[t] = Idle

(* An activation ends with the selection in force: a kernel that runs then *)
(* was started from the selected version, and an activation whose restart  *)
(* failed has selected the old version again (activateMihomoVersion). This *)
(* is so as long as no other request comes in between, for whether to      *)
(* restart is decided by a status read before the commit, and one step     *)
(* fails at most, for the commit that takes it back may fail as well.      *)
ActivationTakesEffect ==
  [][\A t \in Tasks :
       /\ overlaps' = 0 /\ faults' <= 1
       /\ tasks[t].op = "activate" /\ tasks'[t] = Idle
       /\ active' # tasks[t].old \/ tasks[t].again
       => /\ kernel' \in {None, Binary'}
          /\ tasks[t].again => active' = tasks[t].old]_vars
=============================================================================
