-------------------------- MODULE ConfigStoreProofs --------------------------
(***************************************************************************)
(* Proofs about ConfigStore, for every set of sessions, writers, fields    *)
(* and values, every validation predicate and every bound.                 *)
(***************************************************************************)
EXTENDS ConfigStore, TLAPS

(* The fresh configuration and the idle records are of the right types. *)
LEMMA ConstantTypes ==
  /\ Fresh \in Versioned
  /\ Fresh.ver = 0 /\ Fresh.val = Default
  /\ NoEdit \in Edits
  /\ NoTask \in Task /\ NoTask.step = "idle"
  /\ NoSession \in Session /\ NoSession.step = "idle"
<1>1. Default \in Configs
  BY StoreAssumption
<1>2. Fresh \in Versioned /\ Fresh.ver = 0 /\ Fresh.val = Default
  BY <1>1 DEF Fresh, Versioned
<1>3. NoEdit \in Edits
  BY <1>1, StoreAssumption DEF NoEdit, Edits, Configs
<1>4. NoTask \in Task /\ NoTask.step = "idle"
  BY <1>2 DEF NoTask, Task
<1>5. NoSession \in Session /\ NoSession.step = "idle"
  BY <1>2 DEF NoSession, Session
<1> QED
  BY <1>2, <1>3, <1>4, <1>5

(* An edit of a configuration is a configuration. *)
LEMMA ApplyType ==
  ASSUME NEW val \in Configs, NEW e \in Edits
  PROVE  Apply(val, e) \in Configs
  BY DEF Apply, Configs, Edits

(* The answer to a committer is a task for it. *)
LEMMA AnswerType ==
  ASSUME task \in [Committers -> Task], NEW p \in Committers,
         NEW how \in {"committed", "error"}
  PROVE  Answer(p, how) \in [Committers -> Task]
<1>1. [task EXCEPT ![p].step = how] \in [Committers -> Task]
  BY DEF Task
<1>2. [task EXCEPT ![p] = NoTask] \in [Committers -> Task]
  BY ConstantTypes
<1> QED
  BY <1>1, <1>2 DEF Answer

(* Every variable keeps its type. *)
THEOREM TypeCorrect == Spec => []TypeOK
<1>1. ASSUME Init PROVE TypeOK
  <2>1. task \in [Committers -> Task] /\ sess \in [Sessions -> Session]
    BY <1>1, ConstantTypes DEF Init
  <2>2. edit \in [Committers -> Edits]
    BY <1>1, ConstantTypes DEF Init
  <2> QED
    BY <1>1, <2>1, <2>2, ConstantTypes DEF Init, TypeOK
<1>2. TypeOK /\ [Next]_vars => TypeOK'
  <2> SUFFICES ASSUME TypeOK, [Next]_vars PROVE TypeOK'
    OBVIOUS
  <2> USE DEF TypeOK
  <2>1. CASE Start
    BY <2>1 DEF Start, counters
  <2>2. CASE StartFresh
    BY <2>2, ConstantTypes DEF StartFresh, counters
  <2>3. CASE StartUnreadable
    BY <2>3, ConstantTypes DEF StartUnreadable, counters
  <2>4. CASE Crash
    <3>1. sess' \in [Sessions -> Session] /\ task' \in [Committers -> Task]
      BY <2>4, ConstantTypes DEF Crash
    <3>2. configMu' = None /\ up' = FALSE /\ crashes' = crashes + 1
      BY <2>4 DEF Crash
    <3>3. UNCHANGED <<mem, disk, tmp, edit, edits, flushFaults, chmodFaults, loadFaults>>
      BY <2>4 DEF Crash
    <3>4. crashes' \in Nat
      BY <3>2
    <3>5. up' \in BOOLEAN /\ configMu' \in Committers \cup {None}
      BY <3>2
    <3> QED
      BY <3>1, <3>3, <3>4, <3>5
  <2>5. ASSUME NEW s \in Sessions, Client(s) PROVE TypeOK'
    <3>1. CASE BeginMutate(s)
      <4>1. sess' \in [Sessions -> Session]
        BY <3>1 DEF BeginMutate, Session
      <4>2. edit' \in [Committers -> Edits]
        BY <3>1 DEF BeginMutate, Committers
      <4> QED
        BY <3>1, <4>1, <4>2 DEF BeginMutate, faults
    <3>2. CASE ReadConfig(s)
      <4>1. sess' \in [Sessions -> Session]
        BY <3>2 DEF ReadConfig, Session
      <4> QED
        BY <3>2, <4>1 DEF ReadConfig, counters
    <3>3. CASE ReadCredentials(s)
      <4> DEFINE read == [sess[s].snap.val EXCEPT ![Credential] = mem.val[Credential]]
                 after == Apply(read, edit[s])
      <4>1. /\ sess[s].snap \in Versioned /\ mem \in Versioned
            /\ edit[s] \in Edits
        BY DEF Session, Committers
      <4>2. read \in Configs
        BY <4>1, StoreAssumption DEF Versioned, Configs
      <4>3. [step |-> "queued", next |-> [ver |-> sess[s].snap.ver, val |-> after]] \in Task
        BY <4>1, <4>2, ApplyType DEF Versioned, Task
      <4>4. [sess EXCEPT ![s].step = "waiting"] \in [Sessions -> Session]
        BY DEF Session
      <4>5. [sess EXCEPT ![s] = NoSession] \in [Sessions -> Session]
        BY ConstantTypes
      <4>6. task' \in [Committers -> Task] /\ sess' \in [Sessions -> Session]
        BY <3>3, <4>3, <4>4, <4>5 DEF BaseVersion, ReadCredentials, Committers
      <4> QED
        BY <3>3, <4>6 DEF ReadCredentials, counters
    <3>4. CASE Refused(s)
      BY <3>4, ConstantTypes DEF Refused, counters
    <3>5. CASE GiveUp(s)
      BY <3>5, ConstantTypes DEF GiveUp, counters
    <3>6. CASE Receive(s)
      <4>1. sess[s].attempt = 1 =>
              [step |-> "reading", attempt |-> sess[s].attempt + 1, snap |-> Fresh] \in Session
        BY ConstantTypes DEF Session
      <4> QED
        BY <3>6, <4>1, ConstantTypes DEF MayRetry, Receive, counters
    <3> QED
      BY <2>5, <3>1, <3>2, <3>3, <3>4, <3>5, <3>6 DEF Client
  <2>6. ASSUME NEW s \in Sessions, Replace(s) PROVE TypeOK'
    <3> DEFINE merged == Merge(task[s].next.val)
    <3>1. s \in Committers /\ task[s] \in Task /\ mem \in Versioned
      BY DEF Committers
    <3>2. merged \in Configs
      BY <3>1 DEF Merge, Task, Versioned, Configs
    <3>3. [step |-> "write", next |-> [ver |-> mem.ver + 1, val |-> merged]] \in Task
      BY <3>1, <3>2 DEF Task, Versioned
    <3>4. \A how \in {"error", "conflict"} :
            [task EXCEPT ![s].step = how] \in [Committers -> Task]
      BY <3>1 DEF Task
    <3>5. task' \in [Committers -> Task] /\ configMu' \in Committers \cup {None}
      BY <2>6, <3>1, <3>3, <3>4 DEF Replace
    <3> QED
      BY <2>6, <3>5 DEF Replace, counters
  <2>7. ASSUME NEW w \in Writers, Update(w) PROVE TypeOK'
    <3>1. w \in Committers /\ mem \in Versioned
      BY DEF Committers
    <3>2. PICK e \in Edits :
            /\ edit' = [edit EXCEPT ![w] = e]
            /\ task' = [task EXCEPT ![w] =
                 [step |-> "write",
                  next |-> [ver |-> mem.ver + 1, val |-> Apply(mem.val, e)]]]
      BY <2>7 DEF Update
    <3>3. [step |-> "write",
           next |-> [ver |-> mem.ver + 1, val |-> Apply(mem.val, e)]] \in Task
      BY <3>1, ApplyType DEF Task, Versioned
    <3>4. task' \in [Committers -> Task] /\ edit' \in [Committers -> Edits]
      BY <3>1, <3>2, <3>3
    <3> QED
      BY <2>7, <3>1, <3>4 DEF Update, faults
  <2>8. ASSUME NEW p \in Committers, Commit(p) PROVE TypeOK'
    <3>1. task[p].next \in Versioned
      BY DEF Task
    <3>2. \A step \in {"rename", "chmod"} :
            [task EXCEPT ![p].step = step] \in [Committers -> Task]
      BY DEF Task
    <3>3. CASE WriteTmp(p)
      BY <3>1, <3>2, <3>3 DEF WriteTmp, counters
    <3>4. CASE WriteTmpFails(p)
      BY <3>4, AnswerType DEF WriteTmpFails, Fail
    <3>5. CASE RenameTmp(p)
      BY <3>2, <3>5 DEF RenameTmp, counters
    <3>6. CASE RenameTmpFails(p)
      BY <3>6, AnswerType DEF RenameTmpFails, Fail
    <3>7. CASE Publish(p)
      BY <3>1, <3>7, AnswerType DEF Publish, counters
    <3>8. CASE ChmodFails(p)
      BY <3>8, AnswerType DEF ChmodFails, Fail
    <3> QED
      BY <2>8, <3>3, <3>4, <3>5, <3>6, <3>7, <3>8 DEF Commit
  <2>9. CASE UNCHANGED vars
    BY <2>9 DEF vars
  <2> QED
    BY <2>1, <2>2, <2>3, <2>4, <2>5, <2>6, <2>7, <2>8, <2>9 DEF Next, Daemon
<1> QED
  BY <1>1, <1>2, PTL DEF Spec

-----------------------------------------------------------------------------
(* Mutual exclusion and validity, which need no assumption on the faults.  *)

(* At most one committer is between taking configMu and giving it back.    *)
LEMMA OneCommitter ==
  ASSUME LockHeld, NEW p \in Committers, NEW q \in Committers,
         task[p].step \in Committing, task[q].step \in Committing
  PROVE  p = q
BY DEF LockHeld

(* An answer ends the commit of its committer and touches no other task.   *)
LEMMA AnswerEffect ==
  ASSUME TypeOK, NEW p \in Committers, NEW how \in {"committed", "error"},
         task' = Answer(p, how)
  PROVE  /\ \A q \in Committers : q # p => task'[q] = task[q]
         /\ task'[p].step \in {"idle", how}
<1>1. [task EXCEPT ![p].step = how][p].step = how
  BY DEF TypeOK, Task
<1> QED
  BY <1>1, ConstantTypes DEF Answer, TypeOK

(* The invariant of a commit: whoever commits holds the lock, and what it  *)
(* is about to write is the valid next version of the one in memory.       *)
BaseInv == LockHeld /\ CommitPrepared /\ ValidInForce

LEMMA BaseInit == Init => BaseInv
<1> SUFFICES ASSUME Init PROVE BaseInv
  OBVIOUS
<1>1. \A p \in Committers : task[p].step = "idle"
  BY ConstantTypes DEF Init
<1>2. mem.val \in Valid /\ disk = None
  BY ConstantTypes, StoreAssumption DEF Init
<1> QED
  BY <1>1, <1>2 DEF BaseInv, LockHeld, CommitPrepared, ValidInForce, Committing

(* The steps that leave tasks, lock, memory and files alone. *)
LEMMA BaseQuiet ==
  ASSUME BaseInv,
         UNCHANGED <<up, mem, disk, tmp, configMu>>,
         \A p \in Committers :
           \/ task'[p] = task[p]
           \/ task'[p].step \notin Committing /\ (task'[p].step # "idle" => up)
  PROVE  BaseInv'
<1>1. LockHeld'
  BY DEF BaseInv, LockHeld
<1>2. CommitPrepared'
  BY DEF BaseInv, CommitPrepared
<1>3. ValidInForce'
  BY DEF BaseInv, ValidInForce
<1> QED
  BY <1>1, <1>2, <1>3 DEF BaseInv

(* A start or a crash finds or leaves every task idle. *)
LEMMA BaseIdle ==
  ASSUME \A p \in Committers : task'[p].step = "idle",
         mem'.val \in Valid, disk' # None => disk'.val \in Valid
  PROVE  BaseInv'
BY DEF BaseInv, LockHeld, CommitPrepared, ValidInForce, Committing

LEMMA BaseStep == TypeOK /\ BaseInv /\ [Next]_vars => BaseInv'
<1> SUFFICES ASSUME TypeOK, BaseInv, [Next]_vars PROVE BaseInv'
  OBVIOUS
<1>1. \A p \in Committers : ~up => task[p].step = "idle"
  BY DEF BaseInv, LockHeld
<1>2. CASE Start \/ StartFresh \/ StartUnreadable
  <2>1. mem' \in {disk, Fresh} /\ disk' \in {disk, Fresh} /\ UNCHANGED task /\ ~up
    BY <1>2 DEF Start, StartFresh, StartUnreadable, counters
  <2>2. mem'.val \in Valid /\ (disk' # None => disk'.val \in Valid)
    BY <1>2, <2>1, ConstantTypes, StoreAssumption
    DEF BaseInv, ValidInForce, Start, StartFresh, StartUnreadable
  <2> QED
    BY <1>1, <2>1, <2>2, BaseIdle
<1>3. CASE Crash
  <2>1. \A p \in Committers : task'[p].step = "idle"
    BY <1>3, ConstantTypes DEF Crash
  <2> QED
    BY <1>3, <2>1, BaseIdle DEF Crash, BaseInv, ValidInForce
<1>4. ASSUME NEW s \in Sessions, Client(s) PROVE BaseInv'
  <2>1. UNCHANGED <<up, mem, disk, tmp, configMu>>
    BY <1>4 DEF Client, BeginMutate, ReadConfig, ReadCredentials, Refused, GiveUp,
                Receive, counters, faults
  <2>2. s \in Committers
    BY DEF Committers
  <2>3. CASE BeginMutate(s)
    BY <2>1, <2>2, <2>3, BaseQuiet DEF BeginMutate, TypeOK, Committing
  <2>4. CASE ReadCredentials(s)
    BY <2>1, <2>2, <2>4, BaseQuiet DEF ReadCredentials, TypeOK, Committing
  <2>5. CASE ReadConfig(s) \/ Refused(s) \/ GiveUp(s)
    <3>1. UNCHANGED <<task, edit>>
      BY <2>5 DEF ReadConfig, Refused, GiveUp
    <3> QED
      BY <2>1, <3>1, BaseQuiet
  <2>6. CASE Receive(s)
    BY <2>1, <2>2, <2>6, BaseQuiet, ConstantTypes DEF Receive, TypeOK, Committing
  <2> QED
    BY <1>4, <2>3, <2>4, <2>5, <2>6 DEF Client
<1>5. ASSUME NEW p \in Committers,
             task[p].step \in {"idle", "queued"}, up,
             configMu = None, configMu' = p,
             NEW val \in Valid,
             task' = [task EXCEPT ![p] =
               [step |-> "write", next |-> [ver |-> mem.ver + 1, val |-> val]]],
             UNCHANGED <<up, mem, disk, tmp>>
      PROVE  BaseInv'
  <2>1. \A q \in Committers : task[q].step \notin Committing
    BY <1>5, StoreAssumption DEF BaseInv, LockHeld
  <2>2. \A q \in Committers : q # p => task'[q] = task[q]
    BY <1>5 DEF TypeOK
  <2>3. /\ task'[p].step = "write" /\ task'[p].next.ver = mem.ver + 1
        /\ task'[p].next.val = val
    BY <1>5 DEF TypeOK
  <2>4. LockHeld'
    BY <1>5, <2>1, <2>2, <2>3 DEF BaseInv, LockHeld, Committing
  <2>5. CommitPrepared'
    BY <1>5, <2>1, <2>2, <2>3 DEF CommitPrepared
  <2> QED
    BY <1>5, <2>4, <2>5 DEF BaseInv, ValidInForce
<1>6. ASSUME NEW s \in Sessions, Replace(s) PROVE BaseInv'
  <2>1. s \in Committers /\ task[s].step = "queued" /\ configMu = None
    BY <1>6 DEF Unlocked, Committers, Replace
  <2>2. UNCHANGED <<up, mem, disk, tmp>>
    BY <1>6 DEF Replace
  <2>3. up
    BY <1>1, <2>1
  <2>4. CASE /\ UNCHANGED configMu
             /\ \/ task' = [task EXCEPT ![s].step = "error"]
                \/ task' = [task EXCEPT ![s].step = "conflict"]
    BY <2>1, <2>2, <2>3, <2>4, BaseQuiet DEF TypeOK, Task, Committing
  <2>5. CASE /\ Merge(task[s].next.val) \in Valid
             /\ task' = [task EXCEPT ![s] =
                  [step |-> "write",
                   next |-> [ver |-> mem.ver + 1, val |-> Merge(task[s].next.val)]]]
             /\ configMu' = s
    BY <1>5, <2>1, <2>2, <2>3, <2>5
  <2> QED
    BY <1>6, <2>4, <2>5 DEF Accepts, Stale, Replace
<1>7. ASSUME NEW w \in Writers, Update(w) PROVE BaseInv'
  <2>1. w \in Committers
    BY DEF Committers
  <2>2. PICK e \in Edits :
          /\ Apply(mem.val, e) \in Valid
          /\ task' = [task EXCEPT ![w] =
               [step |-> "write",
                next |-> [ver |-> mem.ver + 1, val |-> Apply(mem.val, e)]]]
    BY <1>7 DEF Accepts, Update
  <2>3. /\ task[w].step = "idle" /\ up /\ configMu = None /\ configMu' = w
        /\ UNCHANGED <<up, mem, disk, tmp>>
    BY <1>7 DEF Unlocked, Update
  <2> QED
    BY <1>5, <2>1, <2>2, <2>3
<1>8. ASSUME NEW p \in Committers, Commit(p) PROVE BaseInv'
  <2>1. task[p].step \in Committing
    BY <1>8 DEF Commit, WriteTmp, WriteTmpFails, RenameTmp, RenameTmpFails, Publish,
                ChmodFails, Committing
  <2>2. /\ up /\ configMu = p
        /\ task[p].next.ver = mem.ver + 1 /\ task[p].next.val \in Valid
    BY <2>1 DEF BaseInv, LockHeld, CommitPrepared, Committing
  <2>3. \A q \in Committers : q # p => task[q].step \notin Committing
    BY <2>1, OneCommitter DEF BaseInv
  <2>4. ASSUME task' = [task EXCEPT ![p].step = "rename"], tmp' = task[p].next,
               UNCHANGED <<up, mem, disk, configMu>>
        PROVE  BaseInv'
    <3>1. /\ task'[p].step = "rename" /\ task'[p].next = task[p].next
          /\ \A q \in Committers : q # p => task'[q] = task[q]
      BY <2>4 DEF TypeOK, Task
    <3>2. LockHeld'
      BY <2>2, <2>3, <2>4, <3>1 DEF BaseInv, LockHeld
    <3>3. CommitPrepared'
      BY <2>2, <2>3, <2>4, <3>1 DEF CommitPrepared
    <3> QED
      BY <2>4, <3>2, <3>3 DEF BaseInv, ValidInForce
  <2>5. ASSUME task' = [task EXCEPT ![p].step = "chmod"], disk' = task[p].next,
               UNCHANGED <<up, mem, configMu>>
        PROVE  BaseInv'
    <3>1. /\ task'[p].step = "chmod" /\ task'[p].next = task[p].next
          /\ \A q \in Committers : q # p => task'[q] = task[q]
      BY <2>5 DEF TypeOK, Task
    <3>2. LockHeld'
      BY <2>2, <2>3, <2>5, <3>1 DEF BaseInv, LockHeld
    <3>3. CommitPrepared'
      BY <2>2, <2>3, <2>5, <3>1 DEF CommitPrepared
    <3>4. ValidInForce'
      BY <2>2, <2>5 DEF BaseInv, ValidInForce
    <3> QED
      BY <3>2, <3>3, <3>4 DEF BaseInv
  <2>6. ASSUME NEW how \in {"committed", "error"}, task' = Answer(p, how),
               configMu' = None, mem' \in {mem, task[p].next},
               UNCHANGED <<up, disk>>
        PROVE  BaseInv'
    <3>1. /\ task'[p].step \notin Committing
          /\ \A q \in Committers : q # p => task'[q] = task[q]
      BY <2>6, AnswerEffect DEF Committing
    <3>2. LockHeld'
      BY <2>2, <2>3, <2>6, <3>1 DEF BaseInv, LockHeld
    <3>3. CommitPrepared'
      BY <2>3, <3>1 DEF CommitPrepared
    <3>4. ValidInForce'
      BY <2>2, <2>6 DEF BaseInv, ValidInForce
    <3> QED
      BY <3>2, <3>3, <3>4 DEF BaseInv
  <2>7. CASE WriteTmp(p)
    BY <2>4, <2>7 DEF WriteTmp
  <2>8. CASE RenameTmp(p)
    <3>1. disk' = task[p].next
      BY <2>8 DEF RenameTmp, BaseInv, CommitPrepared, Committing
    <3> QED
      BY <2>5, <2>8, <3>1 DEF RenameTmp
  <2>9. CASE WriteTmpFails(p) \/ RenameTmpFails(p) \/ ChmodFails(p)
    BY <2>6, <2>9 DEF WriteTmpFails, RenameTmpFails, ChmodFails, Fail
  <2>10. CASE Publish(p)
    BY <2>6, <2>10 DEF Publish
  <2> QED
    BY <1>8, <2>7, <2>8, <2>9, <2>10 DEF Commit
<1>9. CASE UNCHANGED vars
  BY <1>9, BaseQuiet DEF vars
<1> QED
  BY <1>2, <1>3, <1>4, <1>6, <1>7, <1>8, <1>9 DEF Next, Daemon

(* Every configuration that is committed or left on disk by a failed or    *)
(* interrupted commit has passed Config.Validate.                          *)
THEOREM Validity == Spec => []ValidInForce
<1>1. Spec => []BaseInv
  BY BaseInit, BaseStep, TypeCorrect, PTL DEF Spec
<1>2. BaseInv => ValidInForce
  BY DEF BaseInv
<1> QED
  BY <1>1, <1>2, PTL

(* The file keeps ahead of memory because version 0 on disk is always the  *)
(* default configuration, which is what a start that cannot read begins    *)
(* with.                                                                   *)
DurableInv == DiskNeverBehind /\ (disk # None /\ disk.ver = 0 => disk = Fresh)

LEMMA DurableStep ==
  TypeOK /\ TypeOK' /\ BaseInv /\ DurableInv /\ [Next]_vars => DurableInv'
<1> SUFFICES ASSUME TypeOK, TypeOK', BaseInv, DurableInv, [Next]_vars PROVE DurableInv'
  OBVIOUS
<1>1. mem.ver \in Nat /\ (disk # None => disk.ver \in Nat)
  BY DEF TypeOK, Versioned
<1>2. CASE UNCHANGED <<up, mem, disk>>
  BY <1>2 DEF DurableInv, DiskNeverBehind
<1>3. CASE Start \/ StartUnreadable
  <2>1. UNCHANGED disk /\ disk # None /\ mem' \in {disk, Fresh}
    BY <1>3 DEF Start, StartUnreadable
  <2> QED
    BY <1>1, <2>1, ConstantTypes DEF DurableInv, DiskNeverBehind
<1>4. CASE StartFresh
  <2>1. disk = None /\ mem' = Fresh /\ disk' \in {disk, Fresh}
    BY <1>4 DEF StartFresh
  <2> QED
    BY <2>1, ConstantTypes DEF DurableInv, DiskNeverBehind
<1>5. CASE Crash
  BY <1>5 DEF Crash, DurableInv, DiskNeverBehind
<1>6. ASSUME NEW p \in Committers, RenameTmp(p) PROVE DurableInv'
  <2>1. disk' = task[p].next /\ task[p].next.ver = mem.ver + 1 /\ UNCHANGED mem
    BY <1>6 DEF RenameTmp, BaseInv, CommitPrepared, Committing
  <2> QED
    BY <1>1, <2>1 DEF DurableInv, DiskNeverBehind
<1>7. ASSUME NEW p \in Committers, Publish(p) PROVE DurableInv'
  <2>1. disk = task[p].next /\ mem' = disk /\ UNCHANGED disk
    BY <1>7 DEF Publish, BaseInv, CommitPrepared, Committing
  <2> QED
    BY <1>1, <2>1 DEF DurableInv, DiskNeverBehind
<1>8. ASSUME NEW s \in Sessions, Client(s) \/ Replace(s) PROVE UNCHANGED <<up, mem, disk>>
  BY <1>8 DEF Client, BeginMutate, ReadConfig, ReadCredentials, Refused, GiveUp,
              Receive, Replace
<1>9. ASSUME NEW w \in Writers, Update(w) PROVE UNCHANGED <<up, mem, disk>>
  BY <1>9 DEF Update
<1>10. ASSUME NEW p \in Committers, Commit(p)
       PROVE  RenameTmp(p) \/ Publish(p) \/ UNCHANGED <<up, mem, disk>>
  BY <1>10 DEF Commit, WriteTmp, WriteTmpFails, RenameTmpFails, ChmodFails
<1>11. CASE UNCHANGED vars
  BY <1>2, <1>11 DEF vars
<1> QED
  BY <1>2, <1>3, <1>4, <1>5, <1>6, <1>7, <1>8, <1>9, <1>10, <1>11 DEF Next, Daemon

(* Neither a crash nor a failed commit loses a committed configuration     *)
(* (the temporary file, the rename, and memory replaced last).             *)
THEOREM Durability == Spec => []DiskNeverBehind
<1>1. Init => DurableInv
  BY DEF Init, DurableInv, DiskNeverBehind
<1>2. Spec => []BaseInv
  BY BaseInit, BaseStep, TypeCorrect, PTL DEF Spec
<1>3. DurableInv => DiskNeverBehind
  BY DEF DurableInv
<1> QED
  BY <1>1, <1>2, <1>3, DurableStep, TypeCorrect, PTL DEF Spec

-----------------------------------------------------------------------------
(* What holds as long as every start has read the file it found. *)

(* What could be read once has been read ever since. *)
LEMMA IntactBefore ==
  ASSUME TypeOK, [Next]_vars, Intact'
  PROVE  Intact
<1>1. loadFaults' = loadFaults \/ StartUnreadable
  BY DEF Next, Daemon, Start, StartFresh, Crash, Client, BeginMutate, ReadConfig,
         ReadCredentials, Refused, GiveUp, Receive, Replace, Update, Commit, WriteTmp,
         WriteTmpFails, RenameTmp, RenameTmpFails, Publish, ChmodFails, vars, counters,
         faults
<1>2. loadFaults \in Nat
  BY DEF TypeOK
<1> QED
  BY <1>1, <1>2 DEF StartUnreadable, Intact

(* A commit changes at most one field. *)
LEMMA EffectIsOneEdit ==
  ASSUME TypeOK, NEW p \in Committers
  PROVE  OneEditApart(mem.val, Effect(p, mem.val))
<1>1. edit[p].field \in Fields /\ edit[p].value \in Values
  BY DEF TypeOK, Edits
<1> QED
  BY <1>1 DEF OneEditApart, Effect, Apply

(* Merging a submitted edit of the snapshot in memory is the effect of it. *)
LEMMA MergeIsEffect ==
  ASSUME TypeOK, NEW s \in Sessions
  PROVE  Merge(Apply(mem.val, edit[s])) = Effect(s, mem.val)
<1>1. mem.val \in [Fields -> Values] /\ edit[s] \in Edits
  BY DEF TypeOK, Versioned, Configs, Committers
<1> DEFINE submitted == Apply(mem.val, edit[s])
<1>2. /\ submitted \in [Fields -> Values]
      /\ submitted[edit[s].field] = edit[s].value
      /\ \A f \in Fields \ {edit[s].field} : submitted[f] = mem.val[f]
  BY <1>1 DEF Apply, Edits
<1> HIDE DEF submitted
<1>3. CASE Keeps(edit[s].field, edit[s].value)
  <2>1. \A f \in Fields : Merge(submitted)[f] = mem.val[f]
    BY <1>2, <1>3 DEF Merge
  <2>2. Merge(submitted) = mem.val
    BY <1>1, <2>1 DEF Merge
  <2> QED
    BY <1>3, <2>2 DEF Effect, submitted
<1>4. CASE ~Keeps(edit[s].field, edit[s].value)
  <2>1. \A f \in Fields : Merge(submitted)[f] = submitted[f]
    BY <1>2, <1>4 DEF Merge
  <2>2. Merge(submitted) = submitted
    BY <1>2, <2>1 DEF Merge
  <2> QED
    BY <1>4, <2>2 DEF Effect, submitted
<1> QED
  BY <1>3, <1>4

(* Every step leaves the configuration in force alone or moves it to the   *)
(* next version by one valid edit.                                         *)
InForceMoves ==
  \/ InForce' = InForce
  \/ /\ InForce'.ver = InForce.ver + 1
     /\ InForce'.val \in Valid
     /\ OneEditApart(InForce.val, InForce'.val)

LEMMA InForceStep ==
  ASSUME Intact, Intact', TypeOK, BaseInv, IInv, [Next]_vars
  PROVE  InForceMoves
<1>1. ~StartUnreadable
  BY DEF StartUnreadable, Intact
<1>2. CASE Start \/ StartFresh
  <2>1. InForce' = InForce
    BY <1>2 DEF Start, StartFresh, InForce
  <2> QED
    BY <2>1 DEF InForceMoves
<1>3. CASE Crash
  <2>1. InForce = mem /\ InForce' = IF disk = None THEN Fresh ELSE disk
    BY <1>3 DEF Crash, InForce
  <2>2. up /\ DiskKnown
    BY <1>3 DEF Crash, IInv
  <2>3. mem # None
    BY StoreAssumption DEF TypeOK
  <2> QED
    BY <2>1, <2>2, <2>3 DEF DiskKnown, InForceMoves
<1>4. CASE UNCHANGED <<up, mem, disk>>
  BY <1>4 DEF InForceMoves, InForce
<1>5. ASSUME NEW s \in Sessions, Client(s) \/ Replace(s) PROVE InForceMoves
  <2>1. UNCHANGED <<up, mem, disk>>
    BY <1>5 DEF Client, BeginMutate, ReadConfig, ReadCredentials, Refused, GiveUp,
                Receive, Replace
  <2> QED
    BY <1>4, <2>1
<1>6. ASSUME NEW w \in Writers, Update(w) PROVE InForceMoves
  BY <1>4, <1>6 DEF Update
<1>7. ASSUME NEW p \in Committers, Commit(p) PROVE InForceMoves
  <2>1. CASE Publish(p)
    <3>1. /\ up /\ task[p].next.ver = mem.ver + 1 /\ task[p].next.val \in Valid
          /\ task[p].next.val = Effect(p, mem.val)
      BY <2>1 DEF Publish, IInv, LockHeld, CommitPrepared, CommitIsEdit, Committing
    <3>2. InForce = mem /\ InForce' = task[p].next
      BY <2>1, <3>1 DEF Publish, InForce
    <3> QED
      BY <3>1, <3>2, EffectIsOneEdit DEF InForceMoves
  <2>2. CASE ~Publish(p)
    <3>1. task[p].step \in Committing
      BY <1>7 DEF Commit, WriteTmp, WriteTmpFails, RenameTmp, RenameTmpFails, Publish,
                  ChmodFails, Committing
    <3>2. up /\ UNCHANGED <<up, mem>>
      BY <1>7, <2>2, <3>1
      DEF Commit, WriteTmp, WriteTmpFails, RenameTmp, RenameTmpFails, ChmodFails, IInv,
          LockHeld, Committing
    <3> QED
      BY <3>2 DEF InForceMoves, InForce
  <2> QED
    BY <2>1, <2>2
<1> QED
  BY <1>1, <1>2, <1>3, <1>4, <1>5, <1>6, <1>7 DEF Next, Daemon, vars

LEMMA InForceMonotone ==
  ASSUME TypeOK, TypeOK', InForceMoves, NEW n \in Nat, n <= InForce.ver
  PROVE  /\ n <= InForce'.ver
         /\ n = InForce'.ver => n = InForce.ver /\ InForce' = InForce
<1>1. InForce \in Versioned
  BY ConstantTypes DEF TypeOK, InForce
<1>2. InForce.ver \in Nat
  BY <1>1 DEF Versioned
<1> QED
  BY <1>2 DEF InForceMoves

(* A commit keeps writing its edit of the snapshot in memory. *)
LEMMA CommitIsEditStep ==
  ASSUME Intact, Intact', TypeOK, BaseInv, IInv, [Next]_vars
  PROVE  CommitIsEdit'
<1>1. ASSUME NEW p \in Committers, task'[p].step \in Committing,
             task[p].step \in Committing
      PROVE  /\ task'[p].next = task[p].next
             /\ mem' = mem
             /\ edit'[p] = edit[p]
  <2>1. up /\ LockHeld
    BY <1>1 DEF IInv, LockHeld, Committing
  <2>2. CASE Daemon \/ StartUnreadable
    BY <1>1, <2>1, <2>2, ConstantTypes
    DEF Daemon, Start, StartFresh, StartUnreadable, Crash, Committing
  <2>3. ASSUME NEW s \in Sessions, Client(s) PROVE
              (task'[p].next = task[p].next /\ mem' = mem /\ edit'[p] = edit[p])
    <3>1. s \in Committers /\ mem' = mem
      BY <2>3 DEF Committers, Client, BeginMutate, ReadConfig, ReadCredentials, Refused,
                  GiveUp, Receive
    <3>2. CASE BeginMutate(s)
      BY <1>1, <3>1, <3>2 DEF BeginMutate, TypeOK, Committing
    <3>3. CASE ReadCredentials(s)
      BY <1>1, <3>1, <3>3 DEF ReadCredentials, TypeOK, Committing
    <3>4. CASE Receive(s)
      BY <1>1, <3>1, <3>4, ConstantTypes DEF Receive, TypeOK, Committing
    <3> QED
      BY <2>3, <3>1, <3>2, <3>3, <3>4 DEF Client, ReadConfig, Refused, GiveUp
  <2>4. ASSUME NEW s \in Sessions, Replace(s) PROVE
              (task'[p].next = task[p].next /\ mem' = mem /\ edit'[p] = edit[p])
    <3>1. s \in Committers /\ s # p /\ mem' = mem /\ edit' = edit
      BY <1>1, <2>4 DEF Committers, Replace, Committing
    <3>2. task'[p] = task[p]
      BY <2>4, <3>1 DEF Replace, TypeOK
    <3> QED
      BY <3>1, <3>2
  <2>5. ASSUME NEW w \in Writers, Update(w) PROVE
              (task'[p].next = task[p].next /\ mem' = mem /\ edit'[p] = edit[p])
    <3>1. w \in Committers /\ w # p /\ mem' = mem
      BY <1>1, <2>5 DEF Committers, Update, Committing
    <3>2. task'[p] = task[p] /\ edit'[p] = edit[p]
      BY <2>5, <3>1 DEF Update, TypeOK
    <3> QED
      BY <3>1, <3>2
  <2>6. ASSUME NEW q \in Committers, Commit(q) PROVE
              (task'[p].next = task[p].next /\ mem' = mem /\ edit'[p] = edit[p])
    <3>1. task[q].step \in Committing
      BY <2>6 DEF Commit, WriteTmp, WriteTmpFails, RenameTmp, RenameTmpFails, Publish,
                  ChmodFails, Committing
    <3>2. q = p
      BY <1>1, <2>1, <3>1, OneCommitter
    <3>3. CASE WriteTmp(p) \/ RenameTmp(p)
      BY <3>3 DEF WriteTmp, RenameTmp, TypeOK, Task
    <3>4. ~(task' = Answer(p, "error") \/ task' = Answer(p, "committed"))
      BY <1>1, AnswerEffect DEF Committing
    <3> QED
      BY <2>6, <3>2, <3>3, <3>4
      DEF Commit, WriteTmpFails, RenameTmpFails, Publish, ChmodFails, Fail
  <2>7. CASE UNCHANGED vars
    BY <2>7 DEF vars
  <2> QED
    BY <2>2, <2>3, <2>4, <2>5, <2>6, <2>7 DEF Next
<1>2. ASSUME NEW p \in Committers, task'[p].step \in Committing,
             task[p].step \notin Committing
      PROVE  task'[p].next.val = Effect(p, mem.val)' /\ mem' = mem
  <2>1. task'[p] # task[p]
    BY <1>2
  <2>2. ~(Daemon \/ StartUnreadable)
    BY <1>2, <2>1, ConstantTypes
    DEF Daemon, Start, StartFresh, StartUnreadable, Crash, Committing
  <2>3. ASSUME NEW s \in Sessions, Client(s) PROVE FALSE
    <3>1. s \in Committers
      BY DEF Committers
    <3>2. ~ReadCredentials(s)
      BY <1>2, <2>1, <3>1 DEF ReadCredentials, TypeOK, Committing
    <3>3. ~Receive(s)
      BY <1>2, <2>1, <3>1, ConstantTypes DEF Receive, TypeOK, Committing
    <3> QED
      BY <2>1, <2>3, <3>2, <3>3 DEF Client, BeginMutate, ReadConfig, Refused, GiveUp
  <2>4. ASSUME NEW s \in Sessions, Replace(s) PROVE
              (task'[p].next.val = Effect(p, mem.val)' /\ mem' = mem)
    <3>1. s \in Committers /\ mem' = mem /\ edit' = edit /\ task[s].step = "queued"
      BY <2>4 DEF Committers, Replace
    <3>2. s = p
      BY <2>1, <2>4, <3>1 DEF Replace, TypeOK
    <3>3. /\ task[p].next.ver = mem.ver
          /\ task'[p].next.val = Merge(task[p].next.val)
      BY <1>2, <2>4, <3>1, <3>2 DEF Replace, Accepts, Stale, TypeOK, Task, Committing
    <3>4. task[p].next.val = Apply(mem.val, edit[p])
      BY <2>4, <3>1, <3>2, <3>3 DEF IInv, SnapshotsFresh
    <3>5. task'[p].next.val = Effect(p, mem.val)
      BY <2>4, <3>2, <3>3, <3>4, MergeIsEffect
    <3> QED
      BY <3>1, <3>5 DEF Effect
  <2>5. ASSUME NEW w \in Writers, Update(w) PROVE
              (task'[p].next.val = Effect(p, mem.val)' /\ mem' = mem)
    <3>1. w \in Committers /\ mem' = mem /\ w \notin Sessions
      BY <2>5, StoreAssumption DEF Committers, Update
    <3>2. w = p
      BY <2>1, <2>5, <3>1 DEF Update, TypeOK
    <3>3. PICK e \in Edits :
            /\ edit' = [edit EXCEPT ![w] = e]
            /\ task' = [task EXCEPT ![w] =
                 [step |-> "write",
                  next |-> [ver |-> mem.ver + 1, val |-> Apply(mem.val, e)]]]
      BY <2>5 DEF Update
    <3>4. edit'[p] = e /\ task'[p].next.val = Apply(mem.val, e)
      BY <3>1, <3>2, <3>3 DEF TypeOK
    <3> QED
      BY <3>1, <3>2, <3>4 DEF Effect
  <2>6. ASSUME NEW q \in Committers, Commit(q) PROVE FALSE
    <3>1. task[q].step \in Committing
      BY <2>6 DEF Commit, WriteTmp, WriteTmpFails, RenameTmp, RenameTmpFails, Publish,
                  ChmodFails, Committing
    <3>2. q # p
      BY <1>2, <3>1
    <3>3. ~(task' = Answer(q, "error") \/ task' = Answer(q, "committed"))
      BY <2>1, <3>2, AnswerEffect
    <3>4. ~(WriteTmp(q) \/ RenameTmp(q))
      BY <2>1, <3>2 DEF WriteTmp, RenameTmp, TypeOK
    <3> QED
      BY <2>6, <3>3, <3>4
      DEF Commit, WriteTmpFails, RenameTmpFails, Publish, ChmodFails, Fail
  <2>7. ~UNCHANGED vars
    BY <2>1 DEF vars
  <2> QED
    BY <2>2, <2>3, <2>4, <2>5, <2>6, <2>7 DEF Next
<1> QED
  BY <1>1, <1>2 DEF IInv, CommitIsEdit, Effect, Apply

(* The file stays with the snapshot in memory, or one valid edit ahead.    *)
LEMMA DiskKnownStep ==
  ASSUME Intact, Intact', TypeOK, BaseInv, IInv, [Next]_vars, BaseInv'
  PROVE  DiskKnown'
<1>1. DiskKnown /\ mem # None
  BY StoreAssumption DEF IInv, TypeOK
<1>2. disk' # None => disk'.val \in Valid
  BY DEF BaseInv, ValidInForce
<1>3. CASE UNCHANGED <<up, mem, disk>>
  BY <1>1, <1>2, <1>3 DEF DiskKnown
<1>4. CASE Start \/ StartFresh
  BY <1>2, <1>4 DEF Start, StartFresh, DiskKnown
<1>5. CASE Crash
  BY <1>2, <1>5 DEF Crash, DiskKnown
<1>6. ~StartUnreadable
  BY DEF StartUnreadable, Intact
<1>7. ASSUME NEW s \in Sessions, Client(s) \/ Replace(s) PROVE DiskKnown'
  <2>1. UNCHANGED <<up, mem, disk>>
    BY <1>7 DEF Client, BeginMutate, ReadConfig, ReadCredentials, Refused, GiveUp,
                Receive, Replace
  <2> QED
    BY <1>3, <2>1
<1>8. ASSUME NEW w \in Writers, Update(w) PROVE DiskKnown'
  BY <1>3, <1>8 DEF Update
<1>9. ASSUME NEW p \in Committers, Commit(p) PROVE DiskKnown'
  <2>1. CASE WriteTmp(p) \/ WriteTmpFails(p) \/ RenameTmpFails(p) \/ ChmodFails(p)
    <3>1. UNCHANGED <<up, mem, disk>>
      BY <2>1 DEF WriteTmp, WriteTmpFails, RenameTmpFails, ChmodFails
    <3> QED
      BY <1>3, <3>1
  <2>2. CASE RenameTmp(p)
    <3>1. /\ disk' = task[p].next /\ mem' = mem
          /\ task[p].next.ver = mem.ver + 1
          /\ task[p].next.val = Effect(p, mem.val)
          /\ disk' # None
      BY <2>2 DEF RenameTmp, IInv, CommitPrepared, CommitIsEdit, Committing
    <3>2. OneEditApart(mem.val, task[p].next.val)
      BY <3>1, EffectIsOneEdit
    <3>3. OneEditApart(mem.val, disk.val)'
      BY <3>1, <3>2 DEF OneEditApart
    <3> QED
      BY <1>2, <3>1, <3>3 DEF DiskKnown
  <2>3. CASE Publish(p)
    <3>1. disk' = mem'
      BY <2>3 DEF Publish, IInv, CommitPrepared, Committing
    <3> QED
      BY <1>2, <3>1 DEF DiskKnown
  <2> QED
    BY <1>9, <2>1, <2>2, <2>3 DEF Commit
<1> QED
  BY <1>3, <1>4, <1>5, <1>6, <1>7, <1>8, <1>9 DEF Next, Daemon, vars

(* What a session has read or submitted stays comparable with what is in   *)
(* force.                                                                  *)
LEMMA SnapshotsFreshStep ==
  ASSUME Intact, Intact', TypeOK, TypeOK', BaseInv, IInv, [Next]_vars, BaseInv'
  PROVE  SnapshotsFresh'
<1>1. InForceMoves
  BY InForceStep
<1> SUFFICES ASSUME NEW s \in Sessions
             PROVE  /\ sess'[s].step \in {"reading", "credentials"} => task'[s].step = "idle"
                    /\ sess'[s].step = "credentials" =>
                         /\ sess'[s].snap.ver <= InForce'.ver
                         /\ sess'[s].snap.ver = InForce'.ver =>
                              sess'[s].snap.val = InForce'.val
                    /\ task'[s].step = "queued" =>
                         /\ task'[s].next.ver <= mem'.ver
                         /\ task'[s].next.ver = mem'.ver =>
                              task'[s].next.val = Apply(mem'.val, edit'[s])
  BY DEF SnapshotsFresh
<1> DEFINE Reads == sess'[s].step \in {"reading", "credentials"} => task'[s].step = "idle"
           Read == sess'[s].step = "credentials" =>
                     /\ sess'[s].snap.ver <= InForce'.ver
                     /\ sess'[s].snap.ver = InForce'.ver => sess'[s].snap.val = InForce'.val
           Queued == task'[s].step = "queued" =>
                       /\ task'[s].next.ver <= mem'.ver
                       /\ task'[s].next.ver = mem'.ver =>
                            task'[s].next.val = Apply(mem'.val, edit'[s])
<1>2. s \in Committers /\ task[s] \in Task /\ sess[s] \in Session
  BY DEF Committers, TypeOK
<1>3. /\ sess[s].step \in {"reading", "credentials"} => task[s].step = "idle"
      /\ sess[s].step = "credentials" =>
           /\ sess[s].snap.ver <= InForce.ver
           /\ sess[s].snap.ver = InForce.ver => sess[s].snap.val = InForce.val
      /\ task[s].step = "queued" =>
           /\ task[s].next.ver <= mem.ver
           /\ task[s].next.ver = mem.ver =>
                task[s].next.val = Apply(mem.val, edit[s])
  BY DEF IInv, SnapshotsFresh
<1>4. ASSUME sess'[s] = sess[s] PROVE Read
  <2>1. sess[s].snap.ver \in Nat
    BY <1>2 DEF Session, Versioned
  <2> QED
    BY <1>1, <1>3, <1>4, <2>1, InForceMonotone
<1>5. ASSUME task'[s] = task[s], edit'[s] = edit[s] PROVE Queued
  <2> SUFFICES ASSUME task[s].step = "queued" PROVE Queued
    BY <1>5
  <2>1. task[s].next.ver \in Nat
    BY <1>2 DEF Task, Versioned
  <2>2. up /\ up'
    BY <1>2, <1>5 DEF BaseInv, LockHeld
  <2>3. InForce = mem /\ InForce' = mem'
    BY <2>2 DEF InForce
  <2> QED
    BY <1>1, <1>3, <1>5, <2>1, <2>3, InForceMonotone
<1>6. ASSUME task'[s] = task[s], edit'[s] = edit[s], sess'[s] = sess[s]
      PROVE  Reads /\ Read /\ Queued
  BY <1>3, <1>4, <1>5, <1>6
<1>7. CASE Daemon \/ StartUnreadable
  <2>1. CASE Crash
    <3>1. task'[s].step = "idle"
      BY <1>2, <2>1, ConstantTypes DEF Crash
    <3>2. sess'[s] = sess[s] \/ sess'[s].step = "idle"
      BY <2>1, ConstantTypes DEF Crash
    <3> QED
      BY <1>4, <3>1, <3>2
  <2>2. CASE Start \/ StartFresh \/ StartUnreadable
    BY <1>6, <2>2 DEF Start, StartFresh, StartUnreadable
  <2> QED
    BY <1>7, <2>1, <2>2 DEF Daemon
<1>8. ASSUME NEW t \in Sessions, Client(t) PROVE Reads /\ Read /\ Queued
  <2>1. t \in Committers
    BY DEF Committers
  <2>2. CASE t # s
    <3>1. task'[s] = task[s] /\ edit'[s] = edit[s] /\ sess'[s] = sess[s]
      BY <1>2, <1>8, <2>1, <2>2
      DEF Client, BeginMutate, ReadConfig, ReadCredentials, Refused, GiveUp, Receive, TypeOK
    <3> QED
      BY <1>6, <3>1
  <2>3. CASE BeginMutate(s)
    <3>1. sess'[s].step = "reading" /\ task'[s].step = "idle"
      BY <2>3 DEF BeginMutate, TypeOK, Session
    <3> QED
      BY <3>1
  <2>4. CASE ReadConfig(s)
    <3>1. /\ task'[s] = task[s] /\ task[s].step = "idle"
          /\ sess'[s].step = "credentials" /\ sess'[s].snap = mem
      BY <1>3, <2>4 DEF ReadConfig, TypeOK, Session
    <3>2. InForce' = mem /\ mem.ver \in Nat
      BY <2>4 DEF ReadConfig, InForce, TypeOK, Versioned
    <3> QED
      BY <3>1, <3>2
  <2>5. CASE ReadCredentials(s)
    <3> DEFINE read == [sess[s].snap.val EXCEPT ![Credential] = mem.val[Credential]]
               next == [ver |-> sess[s].snap.ver, val |-> Apply(read, edit[s])]
    <3>1. sess'[s].step \in {"idle", "waiting"}
      BY <1>2, <2>5, ConstantTypes DEF ReadCredentials, TypeOK, Session
    <3>2. CASE task' = task
      <4>1. task'[s].step = "idle"
        BY <1>3, <2>5, <3>2 DEF ReadCredentials
      <4> QED
        BY <3>1, <4>1
    <3>3. CASE task' # task
      <4>1. task'[s] = [step |-> "queued", next |-> next]
        BY <1>2, <2>5, <3>3 DEF BaseVersion, ReadCredentials, TypeOK
      <4>2. mem' = mem /\ edit' = edit /\ InForce = mem
        BY <2>5 DEF ReadCredentials, InForce
      <4>3. next.ver <= mem.ver /\ (next.ver = mem.ver => sess[s].snap.val = mem.val)
        BY <1>3, <2>5, <4>2 DEF ReadCredentials
      <4>4. sess[s].snap.val = mem.val => read = mem.val
        BY StoreAssumption DEF TypeOK, Versioned, Configs
      <4> QED
        BY <3>1, <4>1, <4>2, <4>3, <4>4
    <3> QED
      BY <3>2, <3>3
  <2>6. CASE Refused(s) \/ GiveUp(s)
    <3>1. sess'[s].step = "idle" /\ task' = task /\ edit' = edit
      BY <2>6, ConstantTypes DEF Refused, GiveUp, TypeOK
    <3> QED
      BY <1>5, <3>1
  <2>7. CASE Receive(s)
    <3>1. task'[s].step = "idle" /\ sess'[s].step \in {"idle", "reading"}
      BY <1>2, <2>7, ConstantTypes DEF Receive, TypeOK
    <3> QED
      BY <3>1
  <2> QED
    BY <1>8, <2>2, <2>3, <2>4, <2>5, <2>6, <2>7 DEF Client
<1>9. ASSUME NEW t \in Sessions, Replace(t) PROVE Reads /\ Read /\ Queued
  <2>1. t \in Committers /\ sess' = sess /\ edit' = edit
    BY <1>9 DEF Committers, Replace
  <2>2. CASE t # s
    <3>1. task'[s] = task[s]
      BY <1>2, <1>9, <2>1, <2>2 DEF Replace, TypeOK
    <3> QED
      BY <1>6, <2>1, <3>1
  <2>3. CASE t = s
    <3>1. task[s].step = "queued" /\ task'[s].step # "queued"
      BY <1>2, <1>9, <2>3 DEF Replace, TypeOK, Task
    <3> QED
      BY <1>3, <1>4, <2>1, <3>1
  <2> QED
    BY <2>2, <2>3
<1>10. ASSUME NEW w \in Writers, Update(w) PROVE Reads /\ Read /\ Queued
  <2>1. w \in Committers /\ w # s
    BY StoreAssumption DEF Committers
  <2>2. task'[s] = task[s] /\ edit'[s] = edit[s] /\ sess'[s] = sess[s]
    BY <1>2, <1>10, <2>1 DEF Update, TypeOK
  <2> QED
    BY <1>6, <2>2
<1>11. ASSUME NEW p \in Committers, Commit(p) PROVE Reads /\ Read /\ Queued
  <2>1. sess' = sess /\ edit' = edit /\ task[p].step \in Committing
    BY <1>11 DEF Commit, WriteTmp, WriteTmpFails, RenameTmp, RenameTmpFails, Publish,
                ChmodFails, Committing
  <2>2. CASE p # s
    <3>1. task' \in {[task EXCEPT ![p].step = "rename"], [task EXCEPT ![p].step = "chmod"],
                     Answer(p, "error"), Answer(p, "committed")}
      BY <1>11 DEF Commit, WriteTmp, WriteTmpFails, RenameTmp, RenameTmpFails, Publish,
                  ChmodFails, Fail
    <3>2. task'[s] = task[s]
      BY <1>2, <2>2, <3>1, AnswerEffect DEF TypeOK
    <3> QED
      BY <1>6, <2>1, <3>2
  <2>3. CASE p = s
    <3>1. task'[s].step # "queued"
      BY <1>2, <1>11, <2>3, AnswerEffect
      DEF Commit, WriteTmp, WriteTmpFails, RenameTmp, RenameTmpFails, Publish,
          ChmodFails, Fail, TypeOK, Task
    <3> QED
      BY <1>3, <1>4, <2>1, <2>3, <3>1 DEF Committing
  <2> QED
    BY <2>2, <2>3
<1>12. CASE UNCHANGED vars
  BY <1>6, <1>12 DEF vars
<1> QED
  BY <1>7, <1>8, <1>9, <1>10, <1>11, <1>12 DEF Next

(* IInv is inductive. *)
LEMMA Inductive == Spec => [](TypeOK /\ IInv)
<1>1. ASSUME Init PROVE IInv
  <2>1. /\ \A p \in Committers : task[p].step = "idle"
        /\ \A s \in Sessions : sess[s].step = "idle" /\ task[s].step = "idle"
        /\ disk = None /\ up = FALSE
    BY <1>1, ConstantTypes DEF Init, Committers
  <2>2. CommitIsEdit /\ DiskKnown /\ SnapshotsFresh
    BY <2>1 DEF CommitIsEdit, DiskKnown, SnapshotsFresh, Committing
  <2> QED
    BY <1>1, <2>2, BaseInit DEF IInv, BaseInv
<1>2. TypeOK /\ TypeOK' /\ IInv /\ [Next]_vars => IInv'
  <2> SUFFICES ASSUME TypeOK, TypeOK', IInv, [Next]_vars PROVE IInv'
    OBVIOUS
  <2>1. BaseInv
    BY DEF IInv, BaseInv
  <2>2. BaseInv'
    BY <2>1, BaseStep
  <2>3. ASSUME Intact' PROVE CommitIsEdit' /\ DiskKnown' /\ SnapshotsFresh'
    <3>1. Intact
      BY <2>3, IntactBefore
    <3> QED
      BY <2>1, <2>2, <2>3, <3>1, CommitIsEditStep, DiskKnownStep, SnapshotsFreshStep
  <2> QED
    BY <2>2, <2>3 DEF IInv, BaseInv
<1>3. Spec => []TypeOK
  BY TypeCorrect
<1> QED
  BY <1>1, <1>2, <1>3, PTL DEF Spec

(* The inductive invariant holds of every execution. *)
THEOREM Invariance == Spec => []IInv
  BY Inductive, PTL

(* The store is sound: the types, the lock, the file and the snapshots of  *)
(* every session, whatever fails.                                          *)
THEOREM Soundness == Spec => []StoreIsSound
  BY TypeCorrect, Invariance, PTL DEF StoreIsSound

(* The version check makes a commit of a whole, possibly old, snapshot     *)
(* equivalent to an edit of the newest configuration.                      *)
THEOREM NoUpdateIsLost == Spec => NoLostUpdate
<1>1. ASSUME TypeOK, IInv, [Next]_vars
      PROVE  [\A p \in Committers :
                (Intact /\ up /\ task[p].step = "chmod" /\ mem' # mem)
                  => mem'.val = Effect(p, mem.val)]_vars
  <2> SUFFICES ASSUME Next, NEW p \in Committers, Intact, up,
                      task[p].step = "chmod", mem' # mem
               PROVE  mem'.val = Effect(p, mem.val)
    BY <1>1
  <2>1. task[p].step \in Committing
    BY DEF Committing
  <2>2. ~(Daemon \/ StartUnreadable)
    BY DEF Daemon, Start, StartFresh, StartUnreadable, Crash
  <2>3. \A s \in Sessions : ~(Client(s) \/ Replace(s))
    BY DEF Client, BeginMutate, ReadConfig, ReadCredentials, Refused, GiveUp, Receive, Replace
  <2>4. \A w \in Writers : ~Update(w)
    BY DEF Update
  <2>5. PICK q \in Committers : Commit(q)
    BY <2>2, <2>3, <2>4 DEF Next
  <2>6. Publish(q)
    BY <2>5 DEF Commit, WriteTmp, WriteTmpFails, RenameTmp, RenameTmpFails, ChmodFails
  <2>7. q = p
    BY <1>1, <2>1, <2>6, OneCommitter DEF Publish, Committing, IInv
  <2> QED
    BY <1>1, <2>1, <2>6, <2>7 DEF Publish, IInv, CommitIsEdit
<1> QED
  BY <1>1, Inductive, PTL DEF Spec, NoLostUpdate

(* The store of the code implements the abstract store. *)
THEOREM Refinement == Spec => AtomicSpec
<1>1. Init => AC!Init
  BY DEF Init, AC!Init, AC!Fresh, Fresh, InForce, Intact
<1>2. ASSUME TypeOK, TypeOK', IInv, IInv', [Next]_vars
      PROVE  [AC!Next]_<<InForce, Intact>>
  <2>1. InForce' \in Versioned
    BY <1>2, ConstantTypes DEF TypeOK, InForce
  <2>2. CASE Intact'
    <3>1. Intact
      BY <1>2, <2>2, IntactBefore
    <3>2. InForceMoves
      BY <1>2, <2>2, <3>1, InForceStep DEF IInv, BaseInv
    <3>3. ASSUME InForce'.ver = InForce.ver + 1, InForce'.val \in Valid,
                 OneEditApart(InForce.val, InForce'.val)
          PROVE  AC!Next
      <4>1. InForce'.val \in AC!Configs
        BY <2>1 DEF Versioned, Configs, AC!Configs
      <4>2. InForce' = [ver |-> InForce.ver + 1, val |-> InForce'.val]
        BY <2>1, <3>3 DEF Versioned
      <4>3. AC!Commit(InForce'.val)
        BY <2>2, <3>1, <3>3, <4>2 DEF AC!Commit, OneEditApart
      <4> QED
        BY <4>1, <4>3 DEF AC!Next
    <3> QED
      BY <2>2, <3>1, <3>2, <3>3 DEF InForceMoves
  <2>3. CASE ~Intact'
    <3>1. InForce'.ver \in Nat
      BY <2>1 DEF Versioned
    <3>2. InForce'.val \in Valid
      BY <1>2, ConstantTypes, StoreAssumption DEF IInv, ValidInForce, InForce
    <3> QED
      BY <2>3, <3>1, <3>2 DEF AC!Next, AC!Lose
  <2> QED
    BY <2>2, <2>3
<1> QED
  BY <1>1, <1>2, Inductive, PTL DEF Spec, AtomicSpec, AC!Spec

=============================================================================
