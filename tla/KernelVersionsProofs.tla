------------------------- MODULE KernelVersionsProofs -------------------------
(***************************************************************************)
(* Proofs about KernelVersions, for any versions, catalogs, number of      *)
(* tasks, operations and bounds.                                           *)
(***************************************************************************)
EXTENDS KernelVersions, FiniteSetTheorems, TLAPS

TaskType ==
  [op : {"idle", "poll", "download", "upgrade", "activate", "delete", "import"},
   at : {"idle", "completing", "find", "queued", "transferring",
         "transferred", "extracted", "ending", "noting", "activating",
         "stopping", "starting", "undoing", "checking", "removing",
         "forgetting", "moving", "registering"},
   version : Versions \cup {None}, running : BOOLEAN,
   old : Versions \cup {None}, failed : BOOLEAN, again : BOOLEAN]

(* Which operations come to a step. *)
OpsAt(at) ==
  CASE at = "completing" -> {"poll"}
    [] at = "find" -> {"upgrade"}
    [] at \in {"queued", "transferring", "transferred", "extracted", "ending"}
         -> {"download", "upgrade"}
    [] at \in {"noting", "stopping", "starting", "undoing"} -> {"activate"}
    [] at = "activating" -> {"upgrade", "activate"}
    [] at \in {"checking", "removing", "forgetting"} -> {"delete"}
    [] at \in {"moving", "registering"} -> {"import"}
    [] OTHER -> {"idle"}

(* A task at some step: its operation gets there, and only an import has no *)
(* version yet.                                                             *)
WellFormed(c) ==
  /\ c.op \in OpsAt(c.at)
  /\ c.at = "idle" => c = Idle
  /\ c.at \notin {"idle", "moving"} => c.version \in Versions
  /\ c.at \in {"noting", "activating", "undoing"} => ~c.again
  /\ c.op # "activate" => ~c.again /\ c.old = None

Job == {c \in TaskType : WellFormed(c)}

(* What TypeOK says apart from the tasks and the undone activations. *)
OtherTypes ==
  /\ store \in [Versions -> {"absent", "empty", "installed"}]
  /\ {drop, active} \subseteq Versions \cup {None}
  /\ released \subseteq Versions
  /\ manual \subseteq Versions
  /\ progress \in [status : {"idle", "downloading", "extracting", "done", "error"},
                   version : Versions \cup {None}]
  /\ opMu \in Tasks \cup {None}
  /\ kernel \in Versions \cup {Elsewhere, None}
  /\ requests \in 0..MaxRequests
  /\ overlaps \in 0..MaxOverlaps
  /\ faults \in 0..MaxFaults

(* The steps that hold mihomoVersionOpMu, each for the task that took it. *)
LockSteps == {"transferring", "transferred", "extracted", "removing", "forgetting",
              "registering"}

LockHeld == \A t \in Tasks : tasks[t].at \in LockSteps <=> opMu = t

(* Every activation takes itself back once at most. *)
Undoable == {t \in Tasks : tasks[t].op = "activate" /\ ~tasks[t].again}

UndoBudget ==
  /\ IsFiniteSet(Undoable)
  /\ undos + Cardinality(Undoable) <= requests

(* The inductive invariant behind the types and the progress. *)
VInv == TypeOK /\ tasks \in [Tasks -> Job] /\ LockHeld /\ UndoBudget /\ BusyHasTask

(* The selection is installed, and what is about to be removed, or may be   *)
(* emptied, is not selected.                                                *)
Selected ==
  overlaps = 0 \/ undos = 0 =>
    /\ active # None => Good(active)
    /\ \A t \in Tasks : tasks[t].at \in {"removing", "forgetting", "registering"}
         => tasks[t].version # active

(* Without overlaps a task is alone, and the selection an activation would  *)
(* go back to stays installed.                                              *)
Alone ==
  overlaps = 0 =>
    \A t \in Tasks :
      /\ tasks[t] # Idle => \A s \in Tasks \ {t} : tasks[s] = Idle
      /\ tasks[t].old # None => Good(tasks[t].old)

(* What an activation that is alone relies on at each of its steps. *)
OnItsWay ==
  overlaps = 0 =>
    \A t \in Tasks : tasks[t].op = "activate" =>
      /\ ~tasks[t].running => kernel = None
      /\ tasks[t].at = "activating" \/ tasks[t].again => active = tasks[t].old
      /\ tasks[t].at = "undoing" \/ tasks[t].again => faults > 0
      /\ tasks[t].at = "starting" => kernel = None

(* The inductive invariant behind the selection. *)
SInv == VInv /\ Selected /\ Alone /\ OnItsWay
-----------------------------------------------------------------------------
(* Every step of a task makes it a job of the next step: a job that begins, *)
(* one that is done, and one that goes on.                                  *)
LEMMA NewJob ==
  ASSUME NEW op, NEW at, NEW v \in Versions,
         <<op, at>> \in {<<"poll", "completing">>, <<"download", "queued">>, <<"upgrade", "find">>,
                        <<"activate", "noting">>, <<"delete", "checking">>}
  PROVE  [Idle EXCEPT !.op = op, !.at = at, !.version = v] \in Job
  BY DEF Idle, Job, TaskType, WellFormed, OpsAt

LEMMA NoJob == Idle \in Job
  BY DEF Idle, Job, TaskType, WellFormed, OpsAt

LEMMA GoOn ==
  ASSUME NEW c \in Job, NEW at, c.op \in OpsAt(at), c.version \in Versions,
         at \in {"queued", "transferring", "transferred", "extracted", "ending", "activating",
                "stopping", "starting", "undoing", "removing", "forgetting"},
         at \in {"activating", "undoing"} => ~c.again
  PROVE  /\ [c EXCEPT !.at = at] \in Job
         /\ [c EXCEPT !.at = at, !.failed = TRUE] \in Job
<1>1. c \in TaskType /\ WellFormed(c)
  BY DEF Job
<1>2. [c EXCEPT !.at = at] \in TaskType /\ [c EXCEPT !.at = at, !.failed = TRUE] \in TaskType
  BY <1>1 DEF TaskType
<1>3. WellFormed([c EXCEPT !.at = at]) /\ WellFormed([c EXCEPT !.at = at, !.failed = TRUE])
  BY <1>1 DEF TaskType, WellFormed
<1> QED
  BY <1>2, <1>3 DEF Job

LEMMA NotesOld ==
  ASSUME NEW c \in Job, c.at = "noting", NEW v \in Versions \cup {None}
  PROVE  [c EXCEPT !.at = "activating", !.old = v] \in Job
<1>1. c \in TaskType /\ WellFormed(c)
  BY DEF Job
<1>2. [c EXCEPT !.at = "activating", !.old = v] \in TaskType
  BY <1>1 DEF TaskType
<1>3. WellFormed([c EXCEPT !.at = "activating", !.old = v])
  BY <1>1 DEF TaskType, WellFormed, OpsAt
<1> QED
  BY <1>2, <1>3 DEF Job

LEMMA Undoes ==
  ASSUME NEW c \in Job, c.at = "undoing"
  PROVE  [c EXCEPT !.at = "stopping", !.again = TRUE] \in Job
<1>1. c \in TaskType /\ WellFormed(c)
  BY DEF Job
<1>2. [c EXCEPT !.at = "stopping", !.again = TRUE] \in TaskType
  BY <1>1 DEF TaskType
<1>3. WellFormed([c EXCEPT !.at = "stopping", !.again = TRUE])
  BY <1>1 DEF TaskType, WellFormed, OpsAt
<1> QED
  BY <1>2, <1>3 DEF Job

LEMMA Registers ==
  ASSUME NEW c \in Job, c.at = "moving", NEW v \in Versions
  PROVE  [c EXCEPT !.at = "registering", !.version = v] \in Job
<1>1. c \in TaskType /\ WellFormed(c)
  BY DEF Job
<1>2. [c EXCEPT !.at = "registering", !.version = v] \in TaskType
  BY <1>1 DEF TaskType
<1>3. WellFormed([c EXCEPT !.at = "registering", !.version = v])
  BY <1>1 DEF TaskType, WellFormed, OpsAt
<1> QED
  BY <1>2, <1>3 DEF Job

LEMMA JobsInAsk ==
  ASSUME TypeOK, tasks \in [Tasks -> Job], NEW t \in Tasks, Ask(t)
  PROVE  \E c \in Job : tasks' = [tasks EXCEPT ![t] = c]
<1> USE DEF Accept
<1>1. ASSUME NEW v \in Versions, RequestDownload(t, v)
      PROVE  \E c \in Job : tasks' = [tasks EXCEPT ![t] = c]
  BY <1>1, NewJob DEF RequestDownload
<1>2. ASSUME NEW v \in Versions, RequestUpgrade(t, v)
      PROVE  \E c \in Job : tasks' = [tasks EXCEPT ![t] = c]
  BY <1>2, NewJob DEF RequestUpgrade
<1>3. ASSUME NEW v \in Versions, RequestActivate(t, v)
      PROVE  \E c \in Job : tasks' = [tasks EXCEPT ![t] = c]
  <2> DEFINE c == [Idle EXCEPT !.op = "activate", !.at = "noting", !.version = v,
                               !.running = kernel # None]
  <2>1. c \in Job
    BY DEF Idle, Job, TaskType, WellFormed, OpsAt
  <2> QED
    BY <1>3, <2>1 DEF RequestActivate
<1>4. ASSUME NEW v \in Versions, RequestDelete(t, v)
      PROVE  \E c \in Job : tasks' = [tasks EXCEPT ![t] = c]
  BY <1>4, NewJob DEF RequestDelete
<1>5. ASSUME NEW v \in Versions, RequestImport(t, v)
      PROVE  \E c \in Job : tasks' = [tasks EXCEPT ![t] = c]
  <2> DEFINE c == [Idle EXCEPT !.op = "import", !.at = "moving", !.version = None]
  <2>1. c \in Job
    BY DEF Idle, Job, TaskType, WellFormed, OpsAt
  <2> QED
    BY <1>5, <2>1 DEF RequestImport
<1>6. CASE Refresh(t) \/ StartKernel(t) \/ StopKernel(t)
  BY <1>6 DEF Refresh, StartKernel, StopKernel
<1>7. CASE Poll(t)
  <2>1. progress.version \in Versions
    BY <1>7 DEF Poll, Good, TypeOK
  <2> QED
    BY <1>7, <2>1, NewJob DEF Poll
<1> QED
  BY <1>1, <1>2, <1>3, <1>4, <1>5, <1>6, <1>7 DEF Ask

LEMMA JobsInDownload ==
  ASSUME TypeOK, tasks \in [Tasks -> Job], NEW t \in Tasks, Download(t)
  PROVE  \E c \in Job : tasks' = [tasks EXCEPT ![t] = c]
<1>0. tasks[t] \in Job /\ tasks[t] \in TaskType /\ WellFormed(tasks[t])
  BY DEF Job
<1> USE <1>0, GoOn, NoJob DEF Goes, Ends, FailsAt, At, AfterDownload, WellFormed, OpsAt
<1>1. CASE Find(t)
  BY <1>1 DEF Find
<1>2. CASE FindAfterRefresh(t)
  BY <1>2 DEF FindAfterRefresh
<1>3. CASE Lookup(t)
  BY <1>3 DEF Lookup
<1>4. CASE Transfer(t)
  BY <1>4 DEF Transfer
<1>5. CASE Extract(t)
  BY <1>5 DEF Extract
<1>6. CASE Install(t)
  BY <1>6 DEF Install
<1>7. CASE DownloadFails(t)
  BY <1>7 DEF DownloadFails
<1>8. CASE Report(t)
  BY <1>8 DEF Report
<1> QED
  BY <1>1, <1>2, <1>3, <1>4, <1>5, <1>6, <1>7, <1>8 DEF Download

LEMMA JobsInHandle ==
  ASSUME TypeOK, tasks \in [Tasks -> Job], NEW t \in Tasks, Handle(t)
  PROVE  \E c \in Job : tasks' = [tasks EXCEPT ![t] = c]
<1>0. tasks[t] \in Job /\ tasks[t] \in TaskType /\ WellFormed(tasks[t])
  BY DEF Job
<1> USE <1>0, GoOn, NoJob DEF Goes, Ends, FailsAt, At, RestartFails, WellFormed, OpsAt
<1>1. CASE Complete(t)
  BY <1>1 DEF Complete
<1>2. CASE NoteOld(t)
  BY <1>2, NotesOld DEF NoteOld, TypeOK
<1>3. CASE Activate(t)
  BY <1>3 DEF Activate, Restarts
<1>4. CASE ActivateFails(t)
  BY <1>4 DEF ActivateFails
<1>5. CASE RestartStop(t)
  BY <1>5 DEF RestartStop
<1>6. CASE RestartStart(t)
  BY <1>6 DEF RestartStart
<1>7. CASE Undo(t)
  <2>1. [tasks[t] EXCEPT !.at = "stopping", !.again = TRUE] \in Job
    BY <1>7, Undoes DEF Undo
  <2> QED
    BY <1>7, <2>1 DEF Undo
<1>8. CASE CheckDelete(t)
  BY <1>8 DEF CheckDelete
<1>9. CASE Remove(t)
  BY <1>9 DEF Remove, Fault, Ends
<1>10. CASE Forget(t)
  BY <1>10 DEF Forget
<1>11. CASE MoveImport(t)
  <2>1. drop # None => [tasks[t] EXCEPT !.at = "registering", !.version = drop] \in Job
    BY <1>11, Registers DEF MoveImport, TypeOK
  <2> QED
    BY <1>11, <2>1 DEF MoveImport, Importable
<1>12. CASE Register(t)
  BY <1>12 DEF Register
<1> QED
  BY <1>1, <1>2, <1>3, <1>4, <1>5, <1>6, <1>7, <1>8, <1>9, <1>10, <1>11, <1>12 DEF Handle
-----------------------------------------------------------------------------
(* The other variables keep their types. *)
LEMMA TypesInAsk ==
  ASSUME TypeOK, NEW t \in Tasks, Ask(t)
  PROVE  OtherTypes'
<1> USE VersionAssumption DEF TypeOK, OtherTypes, Config, Request, Begin
<1>1. ASSUME NEW v \in Versions, RequestDownload(t, v) \/ RequestUpgrade(t, v)
      PROVE  OtherTypes'
  BY <1>1 DEF RequestDownload, RequestUpgrade
<1>2. ASSUME NEW v \in Versions,
             RequestActivate(t, v) \/ RequestDelete(t, v) \/ RequestImport(t, v)
      PROVE  OtherTypes'
  BY <1>2 DEF RequestActivate, RequestDelete, RequestImport
<1>3. CASE Refresh(t) \/ Poll(t)
  BY <1>3 DEF Refresh, Poll
<1>4. CASE StartKernel(t) \/ StopKernel(t)
  BY <1>4 DEF StartKernel, StopKernel, Binary, Good
<1> QED
  BY <1>1, <1>2, <1>3, <1>4 DEF Ask

LEMMA TypesInDownload ==
  ASSUME TypeOK, tasks \in [Tasks -> Job], NEW t \in Tasks, Download(t)
  PROVE  OtherTypes'
<1> USE VersionAssumption DEF TypeOK, OtherTypes, Config, counts, Fault, Reports
<1>1. CASE Find(t)
  BY <1>1 DEF Find
<1>2. CASE FindAfterRefresh(t)
  BY <1>2 DEF FindAfterRefresh
<1>3. CASE Lookup(t)
  BY <1>3 DEF Lookup
<1>4. CASE Transfer(t) \/ Extract(t)
  BY <1>4 DEF Transfer, Extract
<1>5. CASE Install(t)
  BY <1>5 DEF Install
<1>6. CASE DownloadFails(t) \/ Report(t)
  BY <1>6 DEF DownloadFails, Report
<1> QED
  BY <1>1, <1>2, <1>3, <1>4, <1>5, <1>6 DEF Download

LEMMA TypesInHandle ==
  ASSUME TypeOK, tasks \in [Tasks -> Job], NEW t \in Tasks, Handle(t)
  PROVE  OtherTypes'
<1>0. tasks[t] \in TaskType /\ WellFormed(tasks[t])
  BY DEF Job
<1> USE <1>0, VersionAssumption DEF TypeOK, OtherTypes, Config, counts, Fault
<1>1. CASE Complete(t) \/ NoteOld(t)
  BY <1>1 DEF Complete, NoteOld
<1>2. CASE Activate(t) \/ ActivateFails(t)
  BY <1>2 DEF Activate, ActivateFails
<1>3. CASE RestartStop(t)
  BY <1>3 DEF RestartStop
<1>4. CASE RestartStart(t)
  BY <1>4 DEF RestartStart, Binary
<1>5. CASE Undo(t)
  BY <1>5 DEF Undo, TaskType
<1>6. CASE CheckDelete(t) \/ Remove(t)
  BY <1>6 DEF CheckDelete, Remove
<1>7. CASE Forget(t) \/ MoveImport(t)
  BY <1>7 DEF Forget, MoveImport
<1>8. CASE Register(t)
  BY <1>8 DEF Register, At, WellFormed
<1> QED
  BY <1>1, <1>2, <1>3, <1>4, <1>5, <1>6, <1>7, <1>8 DEF Handle
-----------------------------------------------------------------------------
(* A task is a record with these fields. *)
IsTask(c) ==
  c = [op |-> c.op, at |-> c.at, version |-> c.version, running |-> c.running,
       old |-> c.old, failed |-> c.failed, again |-> c.again]

LEMMA TaskFields ==
  ASSUME tasks \in [Tasks -> Job], NEW t \in Tasks
  PROVE  IsTask(tasks[t])
  BY DEF Job, TaskType, IsTask

(* mihomoVersionOpMu. *)
LEMMA LockInAsk ==
  ASSUME VInv, NEW t \in Tasks, Ask(t)
  PROVE  LockHeld'
<1>1. opMu' = opMu
  BY DEF Ask, RequestDownload, RequestUpgrade, RequestActivate, RequestDelete, RequestImport,
         Refresh, StartKernel, StopKernel, Poll
<1>2. PICK c : tasks' = [tasks EXCEPT ![t] = c]
  BY JobsInAsk DEF VInv
<1>3. tasks'[t].at \notin LockSteps /\ tasks[t].at \notin LockSteps
  <2>1. tasks[t] = Idle
    BY DEF Ask, RequestDownload, RequestUpgrade, RequestActivate, RequestDelete,
           RequestImport, Refresh, StartKernel, StopKernel, Poll, Request, Begin
  <2>0. tasks \in [Tasks -> Job]
    BY DEF VInv
  <2>2. CASE \E v \in Versions :
               \/ RequestDownload(t, v) \/ RequestUpgrade(t, v) \/ RequestActivate(t, v)
               \/ RequestDelete(t, v) \/ RequestImport(t, v)
    <3>1. PICK v \in Versions :
            \/ RequestDownload(t, v) \/ RequestUpgrade(t, v) \/ RequestActivate(t, v)
            \/ RequestDelete(t, v) \/ RequestImport(t, v)
      BY <2>2
    <3>2. tasks'[t].at \in {"queued", "find", "noting", "checking", "moving"}
      BY <2>0, <3>1 DEF Idle, RequestDownload, RequestUpgrade, RequestActivate,
         RequestDelete, RequestImport, Accept
    <3> QED
      BY <2>1, <3>2 DEF LockSteps, Idle
  <2>3. CASE Poll(t)
    BY <2>0, <2>1, <2>3 DEF LockSteps, Idle, Poll, Accept
  <2>4. CASE Refresh(t) \/ StartKernel(t) \/ StopKernel(t)
    BY <2>1, <2>4 DEF LockSteps, Idle, Refresh, StartKernel, StopKernel
  <2> QED
    BY <2>2, <2>3, <2>4 DEF Ask
<1> QED
  BY <1>1, <1>2, <1>3 DEF VInv, LockHeld

LEMMA LockInDownload ==
  ASSUME VInv, NEW t \in Tasks, Download(t)
  PROVE  LockHeld'
<1> USE VersionAssumption DEF VInv
<1>1. PICK c : tasks' = [tasks EXCEPT ![t] = c]
  BY JobsInDownload
<1>2. \A s \in Tasks \ {t} : tasks'[s] = tasks[s]
  BY <1>1
<1>a. IsTask(tasks[t])
  BY TaskFields
<1> USE <1>a DEF IsTask, Goes, Ends, FailsAt, At, AfterDownload, Idle, LockSteps
<1>3. CASE Find(t) \/ FindAfterRefresh(t) \/ Transfer(t) \/ Extract(t) \/ Report(t)
  <2>1. /\ opMu' = opMu
        /\ tasks'[t].at \in LockSteps <=> tasks[t].at \in LockSteps
    BY <1>3 DEF Find, FindAfterRefresh, Transfer, Extract, Report
  <2> QED
    BY <1>2, <2>1 DEF LockHeld
<1>4. CASE Lookup(t)
  <2>1. \/ opMu' = opMu /\ tasks'[t].at \notin LockSteps
        \/ opMu' = t /\ tasks'[t].at \in LockSteps
    BY <1>4 DEF Lookup
  <2>2. opMu = None
    BY <1>4 DEF Lookup
  <2> QED
    BY <1>2, <2>1, <2>2 DEF LockHeld
<1>5. CASE Install(t) \/ DownloadFails(t)
  <2>1. opMu' = None /\ tasks'[t].at \notin LockSteps /\ tasks[t].at \in LockSteps
    BY <1>5 DEF Install, DownloadFails
  <2> QED
    BY <1>2, <2>1 DEF LockHeld
<1> QED
  BY <1>3, <1>4, <1>5 DEF Download

LEMMA LockInHandle ==
  ASSUME VInv, NEW t \in Tasks, Handle(t)
  PROVE  LockHeld'
<1> USE VersionAssumption DEF VInv
<1>1. PICK c : tasks' = [tasks EXCEPT ![t] = c]
  BY JobsInHandle
<1>2. \A s \in Tasks \ {t} : tasks'[s] = tasks[s]
  BY <1>1
<1>a. IsTask(tasks[t])
  BY TaskFields
<1> USE <1>a DEF IsTask, Goes, Ends, FailsAt, At, RestartFails, Idle, LockSteps
<1>3. CASE \/ Complete(t) \/ NoteOld(t) \/ Activate(t) \/ ActivateFails(t)
           \/ RestartStop(t) \/ RestartStart(t) \/ Undo(t)
  <2>1. /\ opMu' = opMu
        /\ tasks'[t].at \in LockSteps <=> tasks[t].at \in LockSteps
    BY <1>3 DEF Complete, NoteOld, Activate, ActivateFails, RestartStop, RestartStart, Undo,
                Restarts
  <2> QED
    BY <1>2, <2>1 DEF LockHeld
<1>4. CASE CheckDelete(t) \/ MoveImport(t)
  <2>1. \/ opMu' = opMu /\ tasks'[t].at \notin LockSteps
        \/ opMu' = t /\ tasks'[t].at \in LockSteps
    BY <1>4 DEF CheckDelete, MoveImport
  <2>2. opMu = None
    BY <1>4 DEF CheckDelete, MoveImport
  <2> QED
    BY <1>2, <2>1, <2>2 DEF LockHeld
<1>5. CASE (Remove(t) /\ opMu' # opMu) \/ Forget(t) \/ Register(t)
  <2>1. opMu' = None /\ tasks'[t].at \notin LockSteps /\ tasks[t].at \in LockSteps
    BY <1>5 DEF Remove, Forget, Register
  <2> QED
    BY <1>2, <2>1 DEF LockHeld
<1>6. CASE Remove(t) /\ opMu' = opMu
  <2>1. tasks[t].at \in LockSteps /\ opMu # None
    BY <1>6 DEF Remove, LockHeld
  <2>2. tasks'[t].at \in LockSteps
    BY <1>6, <2>1 DEF Remove
  <2> QED
    BY <1>2, <1>6, <2>1, <2>2 DEF LockHeld
<1> QED
  BY <1>3, <1>4, <1>5, <1>6 DEF Handle

(* The progress. *)
LEMMA BusyInAsk ==
  ASSUME VInv, NEW t \in Tasks, Ask(t)
  PROVE  BusyHasTask'
<1>1. tasks[t] = Idle
  BY DEF Ask, RequestDownload, RequestUpgrade, RequestActivate, RequestDelete,
         RequestImport, Refresh, StartKernel, StopKernel, Poll, Request, Begin
<1>2. PICK c : tasks' = [tasks EXCEPT ![t] = c]
  BY JobsInAsk DEF VInv
<1>3. CASE progress' = progress
  BY <1>1, <1>2, <1>3 DEF VInv, BusyHasTask, Busy, Idle
<1>4. CASE progress' # progress
  <2>1. tasks'[t].op \in {"download", "upgrade"}
    <3>1. PICK v \in Versions : RequestDownload(t, v) \/ RequestUpgrade(t, v)
      BY <1>4 DEF Ask, RequestActivate, RequestDelete, RequestImport, Refresh, StartKernel,
                  StopKernel, Poll
    <3>2. \/ tasks' = [tasks EXCEPT ![t] = [Idle EXCEPT !.op = "download", !.at = "queued",
                                                       !.version = v]]
          \/ tasks' = [tasks EXCEPT ![t] = [Idle EXCEPT !.op = "upgrade", !.at = "find",
                                                       !.version = v]]
      BY <3>1 DEF RequestDownload, RequestUpgrade, Accept
    <3> QED
      BY <3>2 DEF VInv, Idle
  <2> QED
    BY <2>1 DEF BusyHasTask
<1> QED
  BY <1>3, <1>4

LEMMA BusyInDownload ==
  ASSUME VInv, NEW t \in Tasks, Download(t)
  PROVE  BusyHasTask'
<1> USE DEF VInv
<1>1. tasks[t].op \in {"download", "upgrade"}
  BY DEF Job, WellFormed, OpsAt, Download, Find, FindAfterRefresh, Lookup, Transfer, Extract,
         Install, DownloadFails, Report, At
<1>2. CASE Report(t)
  BY <1>2 DEF Report, BusyHasTask, Busy, TypeOK
<1>3. CASE ~Report(t)
  <2>1. tasks'[t].op = tasks[t].op
    BY <1>3, TaskFields DEF IsTask, Download, Find, FindAfterRefresh, Lookup, Transfer, Extract,
                Install, DownloadFails, Goes, FailsAt
  <2> QED
    BY <1>1, <2>1 DEF BusyHasTask
<1> QED
  BY <1>2, <1>3

LEMMA BusyInHandle ==
  ASSUME VInv, NEW t \in Tasks, Handle(t)
  PROVE  BusyHasTask'
<1> USE DEF VInv
<1>1. PICK c : tasks' = [tasks EXCEPT ![t] = c]
  BY JobsInHandle
<1>2. Busy' => Busy
  BY DEF Handle, Complete, NoteOld, Activate, ActivateFails, RestartStop, RestartStart, Undo,
         CheckDelete, Remove, Forget, MoveImport, Register, Busy, TypeOK
<1>3. \/ tasks'[t].op = tasks[t].op \/ tasks[t].op \notin {"download", "upgrade"}
  <2>1. CASE Activate(t) \/ ActivateFails(t)
    BY <2>1, TaskFields DEF IsTask, Activate, ActivateFails, Goes, Ends, FailsAt, Job, WellFormed, OpsAt
  <2>2. CASE ~Activate(t) /\ ~ActivateFails(t)
    BY <2>2 DEF Handle, Complete, NoteOld, RestartStop, RestartStart, Undo, CheckDelete,
       Remove, Forget, MoveImport, Register, At, Job, WellFormed, OpsAt
  <2> QED
    BY <2>1, <2>2
<1> QED
  BY <1>1, <1>2, <1>3 DEF BusyHasTask

(* An activation is undone once at most. *)
LEMMA Spends ==
  ASSUME VInv, NEW t \in Tasks, NEW c, tasks' = [tasks EXCEPT ![t] = c],
         requests' \in 0..MaxRequests,
         \/ undos' = undos /\ requests' = requests
              /\ (c.op = "activate" /\ ~c.again => t \in Undoable)
         \/ undos' = undos /\ requests' = requests + 1
         \/ undos' = undos + 1 /\ requests' = requests /\ t \in Undoable /\ c.again
  PROVE  UndoBudget' /\ undos' \in 0..MaxRequests
<1> USE DEF VInv, UndoBudget
<1>0. undos \in Nat /\ requests \in Nat /\ requests' \in Nat /\ undos' \in Nat
  BY VersionAssumption DEF TypeOK
<1>1. Cardinality(Undoable) \in Nat
  BY FS_CardinalityType
<1>2. UndoBudget'
  <2>1. CASE undos' = undos /\ requests' = requests
              /\ (c.op = "activate" /\ ~c.again => t \in Undoable)
    <3>1. Undoable' \subseteq Undoable
      BY <2>1 DEF Undoable
    <3>2. IsFiniteSet(Undoable') /\ Cardinality(Undoable') <= Cardinality(Undoable)
      BY <3>1, FS_Subset
    <3>3. Cardinality(Undoable') \in Nat
      BY <3>2, FS_CardinalityType
    <3> QED
      BY <1>0, <1>1, <2>1, <3>2, <3>3
  <2>2. CASE undos' = undos /\ requests' = requests + 1
    <3>1. Undoable' \subseteq Undoable \cup {t}
      BY DEF Undoable
    <3>2. /\ IsFiniteSet(Undoable \cup {t})
          /\ Cardinality(Undoable \cup {t}) \in {Cardinality(Undoable), Cardinality(Undoable) + 1}
      BY FS_AddElement
    <3>3. IsFiniteSet(Undoable') /\ Cardinality(Undoable') <= Cardinality(Undoable \cup {t})
      BY <3>1, <3>2, FS_Subset
    <3>4. Cardinality(Undoable') \in Nat
      BY <3>3, FS_CardinalityType
    <3> QED
      BY <1>0, <1>1, <2>2, <3>2, <3>3, <3>4
  <2>3. CASE undos' = undos + 1 /\ requests' = requests /\ t \in Undoable /\ c.again
    <3>1. Undoable' = Undoable \ {t}
      BY <2>3 DEF Undoable
    <3>2. IsFiniteSet(Undoable') /\ Cardinality(Undoable') = Cardinality(Undoable) - 1
      BY <2>3, <3>1, FS_RemoveElement
    <3> QED
      BY <1>0, <1>1, <2>3, <3>2
  <2> QED
    BY <2>1, <2>2, <2>3
<1>3. Cardinality(Undoable') \in Nat
  BY <1>2, FS_CardinalityType
<1> QED
  BY <1>0, <1>2, <1>3, VersionAssumption

LEMMA BudgetInAsk ==
  ASSUME VInv, NEW t \in Tasks, Ask(t)
  PROVE  UndoBudget' /\ undos' \in 0..MaxRequests
<1>1. PICK c \in Job : tasks' = [tasks EXCEPT ![t] = c]
  BY JobsInAsk DEF VInv
<1>2. requests \in 0..MaxRequests /\ requests' \in 0..MaxRequests
  BY TypesInAsk DEF VInv, TypeOK, OtherTypes
<1>3. CASE Poll(t)
  <2>1. c.op # "activate"
    BY <1>1, <1>3 DEF VInv, Poll, Accept, Idle
  <2> QED
    BY <1>1, <1>2, <1>3, <2>1, Spends DEF Poll
<1>4. CASE ~Poll(t)
  <2>1. undos' = undos /\ requests' = requests + 1
    BY <1>4 DEF Ask, RequestDownload, RequestUpgrade, RequestActivate, RequestDelete,
       RequestImport, Refresh, StartKernel, StopKernel, Request
  <2> QED
    BY <1>1, <1>2, <2>1, Spends
<1> QED
  BY <1>3, <1>4

LEMMA BudgetInDownload ==
  ASSUME VInv, NEW t \in Tasks, Download(t)
  PROVE  UndoBudget' /\ undos' \in 0..MaxRequests
<1>1. PICK c \in Job : tasks' = [tasks EXCEPT ![t] = c]
  BY JobsInDownload DEF VInv
<1>2. requests' \in 0..MaxRequests /\ undos' = undos /\ requests' = requests
  BY DEF VInv, TypeOK, Download, Find, FindAfterRefresh, Lookup, Transfer, Extract, Install,
         DownloadFails, Report, counts
<1>3. c.op # "activate"
  <2>1. IsTask(tasks[t]) /\ tasks[t].op \in {"download", "upgrade"} /\ c = tasks'[t]
    BY <1>1, TaskFields DEF VInv, Job, WellFormed, OpsAt, Download, Find, FindAfterRefresh, Lookup,
       Transfer, Extract, Install, DownloadFails, Report, At
  <2> QED
    BY <2>1 DEF VInv, IsTask, Download, Find, FindAfterRefresh, Lookup, Transfer, Extract, Install,
       DownloadFails, Report, Goes, FailsAt, Ends, Idle
<1> QED
  BY <1>1, <1>2, <1>3, Spends

LEMMA BudgetInHandle ==
  ASSUME VInv, NEW t \in Tasks, Handle(t)
  PROVE  UndoBudget' /\ undos' \in 0..MaxRequests
<1>0. IsTask(tasks[t]) /\ tasks[t] \in Job /\ tasks \in [Tasks -> Job]
  BY TaskFields DEF VInv
<1>1. PICK c \in Job : tasks' = [tasks EXCEPT ![t] = c]
  BY JobsInHandle DEF VInv
<1>2. requests' \in 0..MaxRequests /\ requests' = requests
  BY DEF VInv, TypeOK, Handle, Complete, NoteOld, Activate, ActivateFails, RestartStop,
         RestartStart, Undo, CheckDelete, Remove, Forget, MoveImport, Register, counts
<1>3. CASE ~Undo(t)
  <2>1. undos' = undos
    BY <1>3 DEF Handle, Complete, NoteOld, Activate, ActivateFails, RestartStop,
       RestartStart, CheckDelete, Remove, Forget, MoveImport, Register, counts
  <2>2. c.op = "activate" => tasks[t].op = "activate" /\ (c.again = tasks[t].again)
    BY <1>0, <1>1, <1>3 DEF IsTask, Handle, Complete, NoteOld, Activate, ActivateFails,
       RestartStop, RestartStart, CheckDelete, Remove, Forget, MoveImport, Register,
       RestartFails, Goes, FailsAt, Ends, Idle
  <2> QED
    BY <1>1, <1>2, <2>1, <2>2, Spends DEF Undoable
<1>4. CASE Undo(t)
  <2>3. undos \in Nat
    BY VersionAssumption DEF VInv, TypeOK
  <2>1. CASE undos' = undos
    <3>1. c.op = "activate" /\ ~c.again => tasks[t].op = "activate" /\ ~tasks[t].again
      BY <1>0, <1>1, <1>4 DEF IsTask, Undo, Ends, Idle, At
    <3> QED
      BY <1>1, <1>2, <2>1, <3>1, Spends DEF Undoable
  <2>2. CASE undos' = undos + 1
    <3>1. tasks[t].op = "activate" /\ c.again
      <4>1. At(t, "activate", "undoing")
        BY <1>4 DEF Undo
      <4>2. tasks' = [tasks EXCEPT ![t].at = "stopping", ![t].again = TRUE]
        BY <1>4, <2>2, <2>3 DEF Undo
      <4>3. tasks'[t].again
        BY <1>0, <4>2 DEF IsTask
      <4> QED
        BY <1>0, <1>1, <4>1, <4>3 DEF At
    <3>2. ~tasks[t].again
      BY <1>0, <1>4 DEF Undo, At, Job, WellFormed
    <3> QED
      BY <1>1, <1>2, <2>2, <3>1, <3>2, Spends DEF Undoable
  <2> QED
    BY <1>4, <2>1, <2>2 DEF Undo
<1> QED
  BY <1>3, <1>4
-----------------------------------------------------------------------------
LEMMA TypeParts ==
  ASSUME OtherTypes, tasks \in [Tasks -> Job], undos \in 0..MaxRequests
  PROVE  TypeOK
<1>1. tasks \in [Tasks -> TaskType]
  BY DEF Job
<1> QED
  BY <1>1 DEF TypeOK, OtherTypes, TaskType

LEMMA VInvInit ==
  ASSUME Init
  PROVE  VInv
<1> USE VersionAssumption DEF Init
<1>1. tasks \in [Tasks -> Job]
  BY NoJob
<1>2. OtherTypes
  BY DEF OtherTypes, Binary, Good
<1>3. undos \in 0..MaxRequests
  OBVIOUS
<1>4. LockHeld
  BY DEF LockHeld, LockSteps, Idle
<1>5. Undoable = {}
  BY DEF Undoable, Idle
<1>6. UndoBudget
  BY <1>5, FS_EmptySet DEF UndoBudget
<1>7. BusyHasTask
  BY DEF BusyHasTask, Busy
<1> QED
  BY <1>1, <1>2, <1>3, <1>4, <1>6, <1>7, TypeParts DEF VInv

LEMMA VInvStep ==
  ASSUME VInv, [Next]_vars
  PROVE  VInv'
<1>1. CASE UNCHANGED vars
  BY <1>1 DEF vars, VInv, TypeOK, LockHeld, UndoBudget, Undoable, BusyHasTask, Busy
<1>2. CASE KernelExits
  BY <1>2, VersionAssumption DEF KernelExits, Fault, Config, counts, VInv, TypeOK, LockHeld,
     UndoBudget, Undoable, BusyHasTask, Busy
<1>3. ASSUME NEW t \in Tasks, Ask(t) \/ Download(t) \/ Handle(t)
      PROVE  VInv'
  <2>1. tasks' \in [Tasks -> Job]
    <3>1. PICK c \in Job : tasks' = [tasks EXCEPT ![t] = c]
      BY <1>3, JobsInAsk, JobsInDownload, JobsInHandle DEF VInv
    <3> QED
      BY <3>1 DEF VInv
  <2>2. OtherTypes'
    BY <1>3, TypesInAsk, TypesInDownload, TypesInHandle DEF VInv
  <2>3. UndoBudget' /\ undos' \in 0..MaxRequests
    BY <1>3, BudgetInAsk, BudgetInDownload, BudgetInHandle
  <2>4. LockHeld'
    BY <1>3, LockInAsk, LockInDownload, LockInHandle
  <2>5. BusyHasTask'
    BY <1>3, BusyInAsk, BusyInDownload, BusyInHandle
  <2>6. tasks' \in [Tasks -> TaskType]
    BY <2>1 DEF Job
  <2>7. TypeOK'
    BY <2>2, <2>3, <2>6 DEF TypeOK, OtherTypes, TaskType
  <2> QED
    BY <2>1, <2>3, <2>4, <2>5, <2>7 DEF VInv
<1> QED
  BY <1>1, <1>2, <1>3 DEF Next

LEMMA VersionInvariant == Spec => []VInv
<1>1. Init => VInv
  BY VInvInit
<1>2. VInv /\ [Next]_vars => VInv'
  BY VInvStep
<1> QED
  BY <1>1, <1>2, PTL DEF Spec

(* Every variable keeps its type, and a progress that says busy has a task  *)
(* whose end will say otherwise (KernelVersions!ProgressIsTrue).            *)
THEOREM Progress == Spec => []ProgressIsTrue
<1>1. VInv => ProgressIsTrue
  BY DEF VInv, ProgressIsTrue
<1> QED
  BY <1>1, VersionInvariant, PTL
-----------------------------------------------------------------------------
(* The selection.  Without overlaps the task that takes a step is alone.    *)
LEMMA AtWork ==
  ASSUME NEW t \in Tasks, Download(t) \/ Handle(t)
  PROVE  tasks[t] # Idle /\ overlaps' = overlaps
<1>1. overlaps' = overlaps
  BY DEF Download, Handle, Find, FindAfterRefresh, Lookup, Transfer, Extract, Install,
         DownloadFails, Report, Complete, NoteOld, Activate, ActivateFails, RestartStop,
         RestartStart, Undo, CheckDelete, Remove, Forget, MoveImport, Register, counts
<1>2. tasks[t].at # "idle"
  BY DEF Download, Handle, Find, FindAfterRefresh, Lookup, Transfer, Extract, Install,
         DownloadFails, Report, Complete, NoteOld, Activate, ActivateFails, RestartStop,
         RestartStart, Undo, CheckDelete, Remove, Forget, MoveImport, Register, At
<1> QED
  BY <1>1, <1>2 DEF Idle

LEMMA Begins ==
  ASSUME NEW t \in Tasks, Ask(t)
  PROVE  Begin(t)
  BY DEF Ask, RequestDownload, RequestUpgrade, RequestActivate, RequestDelete, RequestImport,
         Refresh, StartKernel, StopKernel, Poll, Request

LEMMA OnlyOne ==
  ASSUME VInv, Alone, NEW t \in Tasks, Ask(t) \/ Download(t) \/ Handle(t), overlaps' = 0
  PROVE  overlaps = 0 /\ \A s \in Tasks \ {t} : tasks[s] = Idle /\ tasks'[s] = Idle
<1>1. overlaps = 0 /\ \A s \in Tasks \ {t} : tasks[s] = Idle
  <2>1. CASE Ask(t)
    <3>1. overlaps \in Nat /\ overlaps' = overlaps + (IF AllIdle THEN 0 ELSE 1)
      BY <2>1, Begins, VersionAssumption DEF Begin, VInv, TypeOK
    <3>2. overlaps = 0 /\ AllIdle
      BY <3>1
    <3> QED
      BY <3>2 DEF AllIdle
  <2>2. CASE Download(t) \/ Handle(t)
    BY <2>2, AtWork DEF Alone
  <2> QED
    BY <2>1, <2>2
<1>2. PICK c : tasks' = [tasks EXCEPT ![t] = c]
  BY JobsInAsk, JobsInDownload, JobsInHandle DEF VInv
<1> QED
  BY <1>1, <1>2 DEF VInv

LEMMA NoFewer ==
  ASSUME VInv, Next, overlaps' = 0 \/ undos' = 0
  PROVE  overlaps = 0 \/ undos = 0
<1>1. overlaps \in Nat /\ undos \in Nat
  BY VersionAssumption DEF VInv, TypeOK
<1>2. overlaps' >= overlaps
  <2>1. CASE KernelExits
    BY <1>1, <2>1 DEF KernelExits, counts
  <2>2. ASSUME NEW t \in Tasks, Ask(t) PROVE overlaps' >= overlaps
    BY <1>1, <2>2, Begins DEF Begin
  <2>3. ASSUME NEW t \in Tasks, Download(t) \/ Handle(t) PROVE overlaps' >= overlaps
    BY <1>1, <2>3, AtWork
  <2> QED
    BY <2>1, <2>2, <2>3 DEF Next
<1>3. undos' \in {undos, undos + 1}
  <2>1. CASE KernelExits
    BY <2>1 DEF KernelExits, counts
  <2>2. ASSUME NEW t \in Tasks, Ask(t) PROVE undos' = undos
    BY <2>2 DEF Ask, RequestDownload, RequestUpgrade, RequestActivate, RequestDelete,
       RequestImport, Refresh, StartKernel, StopKernel, Poll
  <2>3. ASSUME NEW t \in Tasks, Download(t) PROVE undos' = undos
    BY <2>3 DEF Download, Find, FindAfterRefresh, Lookup, Transfer, Extract, Install,
       DownloadFails, Report, counts
  <2>4. ASSUME NEW t \in Tasks, Handle(t) PROVE undos' \in {undos, undos + 1}
    BY <2>4 DEF Handle, Complete, NoteOld, Activate, ActivateFails, RestartStop,
       RestartStart, Undo, CheckDelete, Remove, Forget, MoveImport, Register, counts
  <2> QED
    BY <2>1, <2>2, <2>3, <2>4 DEF Next
<1> QED
  BY <1>1, <1>2, <1>3

(* The selection stays, its binary too, and nothing new threatens it. *)
LEMMA SelectionKept ==
  ASSUME VInv, Selected, Next, active' = active, NEW t \in Tasks, NEW c,
         tasks' = [tasks EXCEPT ![t] = c],
         overlaps = 0 \/ undos = 0 =>
           /\ active # None /\ Good(active) => store'[active] = "installed"
           /\ c.at \in {"removing", "forgetting", "registering"} => c.version # active
  PROVE  Selected'
<1> SUFFICES ASSUME overlaps' = 0 \/ undos' = 0
             PROVE  /\ active' # None => Good(active)'
                    /\ \A s \in Tasks :
                         tasks'[s].at \in {"removing", "forgetting", "registering"}
                           => tasks'[s].version # active'
  BY DEF Selected
<1>1. overlaps = 0 \/ undos = 0
  BY NoFewer
<1> QED
  BY <1>1 DEF Selected, Good, VInv

LEMMA SelectedInAsk ==
  ASSUME SInv, NEW t \in Tasks, Ask(t)
  PROVE  Selected'
<1>1. PICK c \in Job : tasks' = [tasks EXCEPT ![t] = c]
  BY JobsInAsk DEF SInv, VInv
<1>2. active' = active /\ store' = store
  BY DEF Ask, RequestDownload, RequestUpgrade, RequestActivate, RequestDelete, RequestImport,
         Refresh, StartKernel, StopKernel, Poll, Config
<1>3. c.at \notin LockSteps
  <2>1. tasks[t].at \notin LockSteps
    BY Begins DEF Begin, Idle, LockSteps
  <2>3. opMu' = opMu
    BY DEF Ask, RequestDownload, RequestUpgrade, RequestActivate,
       RequestDelete, RequestImport, Refresh, StartKernel, StopKernel, Poll
  <2>2. LockHeld /\ LockHeld'
    BY LockInAsk DEF SInv, VInv
  <2> QED
    BY <1>1, <2>1, <2>2, <2>3 DEF SInv, VInv, LockHeld
<1> QED
  BY <1>1, <1>2, <1>3, SelectionKept DEF SInv, Good, Next, LockSteps

LEMMA SelectedInDownload ==
  ASSUME SInv, NEW t \in Tasks, Download(t)
  PROVE  Selected'
<1> USE DEF SInv
<1>0. IsTask(tasks[t]) /\ tasks \in [Tasks -> Job] /\ tasks[t] \in Job
  BY TaskFields DEF VInv
<1>1. PICK c \in Job : tasks' = [tasks EXCEPT ![t] = c]
  BY JobsInDownload DEF VInv
<1>2. active' = active
  BY DEF Download, Find, FindAfterRefresh, Lookup, Transfer, Extract, Install,
         DownloadFails, Report, Config
<1>3. active # None /\ Good(active) => store'[active] = "installed"
  <2>1. store \in [Versions -> {"absent", "empty", "installed"}]
        /\ active \in Versions \cup {None}
    BY DEF VInv, TypeOK
  <2> QED
    BY <2>1 DEF Good, Download, Find, FindAfterRefresh, Lookup, Transfer, Extract, Install,
                DownloadFails, Report
<1>4. c.at \notin {"removing", "forgetting", "registering"}
  BY <1>0, <1>1 DEF IsTask, Download, Find, FindAfterRefresh, Lookup, Transfer, Extract, Install,
     DownloadFails, Report, Goes, FailsAt, Ends, Idle, AfterDownload
<1> QED
  BY <1>1, <1>2, <1>3, <1>4, SelectionKept DEF Next

LEMMA SelectedInHandle ==
  ASSUME SInv, NEW t \in Tasks, Handle(t)
  PROVE  Selected'
<1> USE DEF SInv
<1>0. IsTask(tasks[t]) /\ tasks \in [Tasks -> Job] /\ tasks[t] \in Job
  BY TaskFields DEF VInv
<1>1. PICK c \in Job : tasks' = [tasks EXCEPT ![t] = c]
  BY JobsInHandle DEF VInv
<1>2. /\ store \in [Versions -> {"absent", "empty", "installed"}]
      /\ active \in Versions \cup {None}
  BY DEF VInv, TypeOK
<1>3. Next
  BY DEF Next
<1>4. CASE \/ Complete(t) \/ NoteOld(t) \/ ActivateFails(t) \/ RestartStop(t)
           \/ RestartStart(t)
  <2>1. active' = active /\ store' = store
    BY <1>4 DEF Complete, NoteOld, ActivateFails, RestartStop, RestartStart, Config
  <2>2. c.at \notin {"removing", "forgetting", "registering"}
    BY <1>0, <1>1, <1>4 DEF IsTask, Complete, NoteOld, ActivateFails, RestartStop, RestartStart,
       RestartFails, Goes, FailsAt, Ends, Idle
  <2> QED
    BY <1>1, <1>3, <2>1, <2>2, SelectionKept DEF Good
<1>5. CASE CheckDelete(t)
  <2>1. active' = active /\ store' = store
    BY <1>5 DEF CheckDelete, Config
  <2>2. c.at \in {"removing", "forgetting", "registering"} => c.version # active
    BY <1>0, <1>1, <1>5 DEF IsTask, CheckDelete, Deletable, Goes, Ends, Idle
  <2> QED
    BY <1>1, <1>3, <2>1, <2>2, SelectionKept DEF Good
<1>6. CASE Remove(t)
  <2>1. active' = active /\ tasks[t].at = "removing"
    BY <1>6 DEF Remove, Config, At
  <2>2. \/ /\ store' = [store EXCEPT ![tasks[t].version] = "absent"]
           /\ c.version = tasks[t].version
        \/ /\ store' \in {store, [store EXCEPT ![tasks[t].version] = "empty"]}
           /\ c = Idle
    BY <1>0, <1>1, <1>6 DEF IsTask, Remove, Goes, Ends
  <2>3. overlaps = 0 \/ undos = 0 => tasks[t].version # active
    BY <2>1 DEF Selected
  <2> QED
    BY <1>1, <1>2, <1>3, <2>1, <2>2, <2>3, SelectionKept DEF Good, Idle
<1>7. CASE Forget(t) \/ Register(t)
  <2>1. /\ active' = active
        /\ store' \in {store, [store EXCEPT ![tasks[t].version] = "empty"]}
        /\ tasks[t].at \in {"forgetting", "registering"} /\ c = Idle
    BY <1>0, <1>1, <1>7 DEF IsTask, Forget, Register, At, Ends
  <2>2. overlaps = 0 \/ undos = 0 => tasks[t].version # active
    BY <2>1 DEF Selected
  <2> QED
    BY <1>1, <1>2, <1>3, <2>1, <2>2, SelectionKept DEF Good, Idle
<1>8. CASE MoveImport(t)
  <2>1. CASE Importable
    <3>1. /\ active' = active /\ drop # None
          /\ store' = [store EXCEPT ![drop] = "installed"] /\ store[drop] # "installed"
          /\ c.version = drop
      BY <1>0, <1>1, <1>8, <2>1 DEF IsTask, MoveImport, Importable, Good, Config
    <3>2. active # None /\ Good(active) => active # drop
      BY <3>1 DEF Good
    <3>3. drop \in Versions
      BY <3>1 DEF VInv, TypeOK
    <3>4. overlaps = 0 \/ undos = 0 => c.version # active
      BY <3>1, <3>2 DEF Selected
    <3> QED
      BY <1>1, <1>2, <1>3, <3>1, <3>3, <3>4, SelectionKept DEF Good
  <2>2. CASE ~Importable
    BY <1>1, <1>3, <1>8, <2>2, SelectionKept DEF MoveImport, Ends, Idle, Config, Good, VInv
  <2> QED
    BY <2>1, <2>2
<1>9. CASE Activate(t)
  <2>1. /\ active' = tasks[t].version /\ Good(tasks[t].version) /\ store' = store /\ opMu = None
    BY <1>9 DEF Activate
  <2>2. \A s \in Tasks : tasks[s].at \notin LockSteps
    BY <2>1, VersionAssumption DEF VInv, LockHeld
  <2>3. c.at \notin LockSteps
    BY <1>0, <1>1, <1>9 DEF IsTask, Activate, Goes, Ends, Idle, LockSteps
  <2> QED
    BY <1>0, <1>1, <2>1, <2>2, <2>3 DEF Selected, Good, LockSteps
<1>10. CASE Undo(t)
  <2>1. CASE active' = active
    <3>1. store' = store /\ c.at \notin {"removing", "forgetting", "registering"}
      BY <1>0, <1>1, <1>10 DEF IsTask, Undo, Ends, Idle
    <3> QED
      BY <1>1, <1>3, <2>1, <3>1, SelectionKept DEF Good
  <2>2. CASE active' # active
    <3> SUFFICES ASSUME overlaps' = 0 \/ undos' = 0 PROVE Selected'
      BY DEF Selected
    <3>1. undos' # 0 /\ active' = tasks[t].old /\ store' = store
      BY <1>10, <2>2, VersionAssumption DEF Undo, VInv, TypeOK
    <3>2. overlaps = 0 /\ \A s \in Tasks \ {t} : tasks'[s] = Idle
      BY <3>1, OnlyOne
    <3>3. active' # None => Good(active)'
      BY <3>1, <3>2 DEF Alone, Good
    <3>4. c.at \notin {"removing", "forgetting", "registering"}
      BY <1>0, <1>1, <1>10 DEF IsTask, Undo, Ends, Idle
    <3> QED
      BY <1>0, <1>1, <3>2, <3>3, <3>4 DEF Selected, Idle
  <2> QED
    BY <2>1, <2>2
<1> QED
  BY <1>4, <1>5, <1>6, <1>7, <1>8, <1>9, <1>10 DEF Handle

(* What a task that is alone relies on. *)
LEMMA AloneKept ==
  ASSUME tasks \in [Tasks -> Job], NEW t \in Tasks, NEW c, tasks' = [tasks EXCEPT ![t] = c],
         \A s \in Tasks \ {t} : tasks'[s] = Idle,
         c.old # None => Good(c.old)'
  PROVE  Alone'
<1> SUFFICES ASSUME NEW u \in Tasks
             PROVE  /\ tasks'[u] # Idle => \A s \in Tasks \ {u} : tasks'[s] = Idle
                    /\ tasks'[u].old # None => Good(tasks[u].old)'
  BY DEF Alone
<1>1. CASE u = t
  BY <1>1
<1>2. CASE u # t
  BY <1>2 DEF Idle
<1> QED
  BY <1>1, <1>2

LEMMA AloneInAsk ==
  ASSUME SInv, NEW t \in Tasks, Ask(t)
  PROVE  Alone' /\ OnItsWay'
<1> SUFFICES ASSUME overlaps' = 0
             PROVE  Alone' /\ OnItsWay'
  BY DEF Alone, OnItsWay
<1> USE DEF SInv
<1>1. overlaps = 0 /\ \A s \in Tasks \ {t} : tasks[s] = Idle /\ tasks'[s] = Idle
  BY OnlyOne
<1>2. PICK c \in Job : tasks' = [tasks EXCEPT ![t] = c]
  BY JobsInAsk DEF VInv
<1>3. tasks[t] = Idle /\ tasks \in [Tasks -> Job]
  BY Begins DEF Begin, VInv
<1>4. CASE \E v \in Versions : RequestActivate(t, v)
  <2>1. /\ c.old = None /\ ~c.again /\ c.at = "noting" /\ (~c.running => kernel = None)
        /\ kernel' = kernel
    BY <1>2, <1>3, <1>4 DEF RequestActivate, Idle
  <2>2. Alone'
    BY <1>1, <1>2, <1>3, <2>1, AloneKept
  <2>3. OnItsWay'
    BY <1>1, <1>2, <1>3, <2>1 DEF OnItsWay, Idle
  <2> QED
    BY <2>2, <2>3
<1>5. CASE ~\E v \in Versions : RequestActivate(t, v)
  <2>1. c.op # "activate"
    <3>0. c = tasks'[t]
      BY <1>2, <1>3
    <3>1. CASE Refresh(t) \/ StartKernel(t) \/ StopKernel(t)
      BY <1>3, <3>0, <3>1 DEF Refresh, StartKernel, StopKernel, Idle
    <3>2. CASE Poll(t)
      BY <1>3, <3>0, <3>2 DEF Poll, Accept, Idle
    <3>3. ASSUME NEW v \in Versions, RequestDownload(t, v) \/ RequestUpgrade(t, v)
          PROVE  c.op # "activate"
      BY <1>3, <3>0, <3>3 DEF RequestDownload, RequestUpgrade, Accept, Idle
    <3>4. ASSUME NEW v \in Versions, RequestDelete(t, v) \/ RequestImport(t, v)
          PROVE  c.op # "activate"
      BY <1>3, <3>0, <3>4 DEF RequestDelete, RequestImport, Accept, Idle
    <3> QED
      BY <1>5, <3>1, <3>2, <3>3, <3>4 DEF Ask
  <2>2. c.old = None
    BY <2>1 DEF Job, WellFormed
  <2>3. Alone'
    BY <1>1, <1>2, <1>3, <2>2, AloneKept
  <2>4. OnItsWay'
    BY <1>1, <1>2, <1>3, <2>1 DEF OnItsWay, Idle
  <2> QED
    BY <2>3, <2>4
<1> QED
  BY <1>4, <1>5

LEMMA AloneInDownload ==
  ASSUME SInv, NEW t \in Tasks, Download(t)
  PROVE  Alone' /\ OnItsWay'
<1> SUFFICES ASSUME overlaps' = 0
             PROVE  Alone' /\ OnItsWay'
  BY DEF Alone, OnItsWay
<1> USE DEF SInv
<1>1. overlaps = 0 /\ \A s \in Tasks \ {t} : tasks[s] = Idle /\ tasks'[s] = Idle
  BY OnlyOne
<1>2. PICK c \in Job : tasks' = [tasks EXCEPT ![t] = c]
  BY JobsInDownload DEF VInv
<1>3. tasks \in [Tasks -> Job] /\ IsTask(tasks[t]) /\ tasks[t] \in Job
  BY TaskFields DEF VInv
<1>4. tasks[t].op \in {"download", "upgrade"}
  BY <1>3 DEF Job, WellFormed, OpsAt, Download, Find, FindAfterRefresh, Lookup, Transfer, Extract,
     Install, DownloadFails, Report, At
<1>5. c.op # "activate"
  BY <1>2, <1>3, <1>4 DEF IsTask, Download, Find, FindAfterRefresh, Lookup, Transfer, Extract, Install,
     DownloadFails, Report, Goes, FailsAt, Ends, Idle
<1>6. c.old = None
  BY <1>5 DEF Job, WellFormed
<1>7. Alone'
  BY <1>1, <1>2, <1>3, <1>6, AloneKept
<1>8. OnItsWay'
  BY <1>1, <1>2, <1>3, <1>5 DEF OnItsWay, Idle
<1> QED
  BY <1>7, <1>8

LEMMA AloneInHandle ==
  ASSUME SInv, NEW t \in Tasks, Handle(t)
  PROVE  Alone' /\ OnItsWay'
<1> SUFFICES ASSUME overlaps' = 0
             PROVE  Alone' /\ OnItsWay'
  BY DEF Alone, OnItsWay
<1> USE DEF SInv
<1>1. overlaps = 0 /\ \A s \in Tasks \ {t} : tasks[s] = Idle /\ tasks'[s] = Idle
  BY OnlyOne
<1>2. PICK c \in Job : tasks' = [tasks EXCEPT ![t] = c]
  BY JobsInHandle DEF VInv
<1>3. tasks \in [Tasks -> Job] /\ IsTask(tasks[t]) /\ tasks[t] \in Job
  BY TaskFields DEF VInv
(* An activation leaves the repository alone. *)
<1>4. c.old # None => Good(c.old)'
  <2>1. CASE c.op = "activate"
    <3>1. tasks[t].op = "activate"
      BY <1>2, <1>3, <2>1 DEF IsTask, Handle, Complete, NoteOld, Activate, ActivateFails,
         RestartStop, RestartStart, Undo, CheckDelete, Remove, Forget, MoveImport, Register,
         RestartFails, Goes, FailsAt, Ends, Idle
    <3>2. store' = store
      BY <1>3, <3>1 DEF Handle, Complete, NoteOld, Activate, ActivateFails,
         RestartStop, RestartStart, Undo, CheckDelete, Remove, Forget, MoveImport, Register, At,
         Job, WellFormed, OpsAt
    <3>3. c.old \in {tasks[t].old, active}
      BY <1>2, <1>3, <2>1 DEF IsTask, Handle, Complete, NoteOld, Activate, ActivateFails,
         RestartStop, RestartStart, Undo, CheckDelete, Remove, Forget, MoveImport, Register,
         RestartFails, Goes, FailsAt, Ends, Idle
    <3> QED
      BY <1>1, <3>2, <3>3 DEF Alone, Selected, Good
  <2>2. CASE c.op # "activate"
    BY <2>2 DEF Job, WellFormed
  <2> QED
    BY <2>1, <2>2
<1>5. Alone'
  BY <1>1, <1>2, <1>3, <1>4, AloneKept
<1>6. c.op = "activate" =>
        /\ ~c.running => kernel' = None
        /\ c.at = "activating" \/ c.again => active' = c.old
        /\ c.at = "undoing" \/ c.again => faults' > 0
        /\ c.at = "starting" => kernel' = None
  <2> SUFFICES ASSUME c.op = "activate"
               PROVE  /\ ~c.running => kernel' = None
                      /\ c.at = "activating" \/ c.again => active' = c.old
                      /\ c.at = "undoing" \/ c.again => faults' > 0
                      /\ c.at = "starting" => kernel' = None
    OBVIOUS
  <2>0. c = tasks'[t] /\ faults \in Nat /\ c # Idle
    BY <1>2, <1>3, VersionAssumption DEF VInv, TypeOK, Idle
  <2>1. tasks[t].op = "activate" =>
          /\ ~tasks[t].running => kernel = None
          /\ tasks[t].at = "activating" \/ tasks[t].again => active = tasks[t].old
          /\ tasks[t].at = "undoing" \/ tasks[t].again => faults > 0
          /\ tasks[t].at = "starting" => kernel = None
    BY <1>1 DEF OnItsWay
  <2> USE <1>2, <1>3, <2>0, <2>1 DEF IsTask, Goes, Ends, FailsAt, At
  <2>2. CASE NoteOld(t)
    BY <2>2 DEF NoteOld, Config, Job, WellFormed
  <2>3. CASE Activate(t)
    BY <2>3 DEF Activate, Restarts, Job, WellFormed
  <2>4. CASE RestartStop(t)
    BY <2>4 DEF RestartStop, RestartFails, Fault, Config
  <2>5. CASE RestartStart(t)
    BY <2>5 DEF RestartStart, RestartFails, Fault, Config
  <2>6. CASE Undo(t)
    BY <2>6 DEF Undo, Fault
  <2>7. CASE \/ Complete(t) \/ ActivateFails(t) \/ CheckDelete(t) \/ Remove(t) \/ Forget(t)
             \/ MoveImport(t) \/ Register(t)
    BY <2>7 DEF Complete, ActivateFails, CheckDelete, Remove, Forget, MoveImport, Register
  <2> QED
    BY <2>2, <2>3, <2>4, <2>5, <2>6, <2>7 DEF Handle
<1>7. OnItsWay'
  BY <1>1, <1>2, <1>3, <1>6 DEF OnItsWay, Idle
<1> QED
  BY <1>5, <1>7
-----------------------------------------------------------------------------
LEMMA SInvStep ==
  ASSUME SInv, [Next]_vars
  PROVE  SInv'
<1>1. VInv'
  BY VInvStep DEF SInv
<1>2. CASE UNCHANGED vars
  BY <1>1, <1>2 DEF vars, SInv, Selected, Alone, OnItsWay, Good
<1>3. CASE KernelExits
  <2>1. /\ UNCHANGED <<store, active, tasks, overlaps, undos>> /\ kernel' = None
        /\ faults \in Nat /\ faults' = faults + 1
    BY <1>3, VersionAssumption DEF KernelExits, Fault, Config, counts, SInv, VInv, TypeOK
  <2>2. Selected' /\ Alone'
    BY <2>1 DEF SInv, Selected, Alone, Good
  <2>3. OnItsWay'
    BY <2>1 DEF SInv, OnItsWay
  <2> QED
    BY <1>1, <2>2, <2>3 DEF SInv
<1>4. ASSUME NEW t \in Tasks, Ask(t) \/ Download(t) \/ Handle(t)
      PROVE  SInv'
  BY <1>1, <1>4, SelectedInAsk, SelectedInDownload, SelectedInHandle, AloneInAsk,
     AloneInDownload, AloneInHandle DEF SInv
<1> QED
  BY <1>2, <1>3, <1>4 DEF Next

LEMMA SelectionInvariant == Spec => []SInv
<1>1. Init => SInv
  <2> SUFFICES ASSUME Init PROVE SInv
    OBVIOUS
  <2>1. VInv
    BY VInvInit
  <2>2. Selected /\ Alone /\ OnItsWay
    BY DEF Init, Selected, Alone, OnItsWay, Good, Idle
  <2> QED
    BY <2>1, <2>2 DEF SInv
<1>2. SInv /\ [Next]_vars => SInv'
  BY SInvStep
<1> QED
  BY <1>1, <1>2, PTL DEF Spec

(* No interleaving of downloads, activations, imports and deletions leaves  *)
(* a selection without its binary, unless an activation takes itself back   *)
(* among other requests (KernelVersions!ActiveIsInstalled): the lock of the *)
(* binaries covers the check of a deletion and the commit of an activation. *)
THEOREM Selection == Spec => []ActiveIsInstalled
<1>1. SInv => ActiveIsInstalled
  BY DEF SInv, Selected, ActiveIsInstalled
<1> QED
  BY <1>1, SelectionInvariant, PTL

(* An activation that no other request overlaps, and in which one step      *)
(* fails at most, ends with a kernel of the selected version or none, and   *)
(* one that restarted twice has the old version back                        *)
(* (KernelVersions!ActivationTakesEffect).                                  *)
THEOREM Effect == Spec => ActivationTakesEffect
<1> DEFINE Works == \A t \in Tasks :
       /\ overlaps' = 0 /\ faults' <= 1
       /\ tasks[t].op = "activate" /\ tasks'[t] = Idle
       /\ active' # tasks[t].old \/ tasks[t].again
       => /\ kernel' \in {None, Binary'}
          /\ tasks[t].again => active' = tasks[t].old
<1>1. SInv /\ [Next]_vars => [Works]_vars
  <2> SUFFICES ASSUME SInv, Next, NEW t \in Tasks, overlaps' = 0, faults' <= 1,
                      tasks[t].op = "activate", tasks'[t] = Idle,
                      active' # tasks[t].old \/ tasks[t].again
               PROVE  /\ kernel' \in {None, Binary'}
                      /\ tasks[t].again => active' = tasks[t].old
    OBVIOUS
  <2>0. /\ faults \in Nat /\ tasks \in [Tasks -> Job] /\ tasks[t] \in Job
        /\ IsTask(tasks[t]) /\ tasks[t].at # "idle"
    BY TaskFields, VersionAssumption DEF SInv, VInv, TypeOK, Job, WellFormed, Idle
  <2>1. Handle(t) /\ overlaps = 0
    <3>1. ~KernelExits
      BY <2>0 DEF KernelExits, Idle
    <3>2. PICK s \in Tasks : Ask(s) \/ Download(s) \/ Handle(s)
      BY <3>1 DEF Next
    <3>3. s = t
      BY <2>0, <3>2, JobsInAsk, JobsInDownload, JobsInHandle DEF SInv, VInv, Idle
    <3>4. ~Ask(t)
      BY <2>0, Begins DEF Begin, Idle
    <3>5. ~Download(t)
      BY <2>0 DEF Job, WellFormed, OpsAt, Download, Find, FindAfterRefresh, Lookup, Transfer,
         Extract, Install, DownloadFails, Report, At
    <3>6. overlaps = 0
      BY <3>2, OnlyOne DEF SInv
    <3> QED
      BY <3>2, <3>3, <3>4, <3>5, <3>6
  <2>2. /\ ~tasks[t].running => kernel = None
        /\ tasks[t].at = "activating" \/ tasks[t].again => active = tasks[t].old
        /\ tasks[t].at = "undoing" \/ tasks[t].again => faults > 0
        /\ tasks[t].at = "starting" => kernel = None
    BY <2>1 DEF SInv, OnItsWay
  <2> USE <2>0, <2>2 DEF IsTask, Goes, Ends, FailsAt, At, Idle
  <2>3. CASE Activate(t)
    BY <2>3 DEF Activate, Restarts, Job, WellFormed
  <2>4. CASE ActivateFails(t)
    BY <2>4 DEF ActivateFails, Config, Job, WellFormed
  <2>5. CASE RestartStop(t)
    BY <2>5 DEF RestartStop, RestartFails, Fault, Config
  <2>6. CASE RestartStart(t)
    BY <2>6 DEF RestartStart, RestartFails, Fault, Config, Binary, Good
  <2>7. CASE Undo(t)
    BY <2>7 DEF Undo, Fault, Job, WellFormed
  <2>8. CASE \/ Complete(t) \/ NoteOld(t) \/ CheckDelete(t) \/ Remove(t) \/ Forget(t)
             \/ MoveImport(t) \/ Register(t)
    BY <2>8 DEF Complete, NoteOld, CheckDelete, Remove, Forget, MoveImport, Register, Job,
       WellFormed, OpsAt
  <2> QED
    BY <2>1, <2>3, <2>4, <2>5, <2>6, <2>7, <2>8 DEF Handle
<1>2. ActivationTakesEffect <=> [][Works]_vars
  BY DEF ActivationTakesEffect
<1> QED
  BY <1>1, <1>2, SelectionInvariant, PTL DEF Spec
=============================================================================
