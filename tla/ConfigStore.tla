----------------------------- MODULE ConfigStore -----------------------------
(***************************************************************************)
(* The daemon's configuration store (config_store.go, config.go) with the  *)
(* sessions that edit it over IPC (MutateServerConfig in ipc_client.go,    *)
(* handleConfig in daemon_handlers_config.go) and the daemon's own updates *)
(* (UpdateGlobalConfig).                                                   *)
(*                                                                         *)
(* A commit holds configMu while it writes a temporary file, renames it    *)
(* over config.yaml, restricts the file's mode and replaces the snapshot   *)
(* in memory.  Each of the file operations may fail and the daemon may die *)
(* between any two of them.  A session reads the configuration, then the   *)
(* credentials, edits the copy and submits all of it with the version it   *)
(* read; on a version conflict it starts again, once.                      *)
(***************************************************************************)
EXTENDS Integers

CONSTANTS Sessions,        \* TUI sessions that edit through MutateServerConfig
          Writers,         \* daemon goroutines that call UpdateGlobalConfig
          Fields, Values,  \* a configuration gives every field a value
          Default,         \* defaultConfig()
          Valid,           \* the configurations Config.Validate accepts
          Credential,      \* the field the credentials endpoint delivers
          Empty,           \* its value when there is none
          ServerOwned,     \* the fields a root daemon never takes from a session
          None,            \* no owner, no file
          MaxEdits,        \* bound: edits started by sessions and writers
          MaxFlushFaults,  \* bound: failed writes and renames
          MaxChmodFaults,  \* bound: failed os.Chmod after the rename
          MaxCrashes,      \* bound: deaths of the daemon
          MaxLoadFaults    \* bound: starts that cannot read or parse config.yaml

Committers == Sessions \cup Writers

Configs == [Fields -> Values]

Versioned == [ver : Nat, val : Configs]

Edits == [field : Fields, value : Values]

ASSUME StoreAssumption ==
  /\ Sessions \cap Writers = {}
  /\ None \notin Committers
  /\ None \notin Versioned
  /\ Valid \subseteq Configs
  /\ Default \in Valid
  /\ Credential \in Fields
  /\ ServerOwned \subseteq Fields
  /\ {MaxEdits, MaxFlushFaults, MaxChmodFaults, MaxCrashes, MaxLoadFaults}
       \subseteq Nat

VARIABLES
  up,          \* the daemon process is alive
  mem,         \* globalConfig
  disk,        \* config.yaml
  tmp,         \* config.yaml.tmp
  configMu,    \* the committer that holds configMu for writing
  task,        \* the commit each committer has in progress in the daemon
  sess,        \* the client side of each session
  edit,        \* the edit each committer is making
  edits, flushFaults, chmodFaults, crashes, loadFaults  \* the bounded counters

vars == <<up, mem, disk, tmp, configMu, task, sess, edit,
          edits, flushFaults, chmodFaults, crashes, loadFaults>>

counters == <<edits, flushFaults, chmodFaults, crashes, loadFaults>>

faults == <<flushFaults, chmodFaults, crashes, loadFaults>>

-----------------------------------------------------------------------------

Fresh == [ver |-> 0, val |-> Default]

(* Mutant: the commit does not validate. *)
Accepts_All(val) == TRUE

(* Config.Validate. *)
Accepts(val) == val \in Valid

(* Mutant: configMu excludes nobody. *)
Unlocked_Always == TRUE

Unlocked == configMu = None

NoEdit == [field |-> Credential, value |-> Default[Credential]]

Apply(val, e) == [val EXCEPT ![e.field] = e.value]

(* Every start so far could read its file. *)
Intact == loadFaults = 0

(* What the daemon does not take from a session: a field that a root daemon *)
(* owns, and an empty secret, in whose place the current one stays.         *)
Keeps(field, value) ==
  field \in ServerOwned \/ (field = Credential /\ value = Empty)

(* What a commit of p makes of the values in force.                         *)
Effect(p, val) ==
  IF p \in Sessions /\ Keeps(edit[p].field, edit[p].value) THEN val
                                                          ELSE Apply(val, edit[p])

(* The merge in ReplaceGlobalConfig. *)
Merge(submitted) ==
  [f \in Fields |-> IF Keeps(f, submitted[f]) THEN mem.val[f] ELSE submitted[f]]

NoTask == [step |-> "idle", next |-> Fresh]

Task == [step : {"idle", "queued", "write", "rename", "chmod",
                 "committed", "conflict", "error"},
         next : Versioned]

Session == [step : {"idle", "reading", "credentials", "waiting"},
            attempt : 1..2,
            snap : Versioned]

NoSession == [step |-> "idle", attempt |-> 1, snap |-> Fresh]

(* The configuration in force: the snapshot in memory, or, while the daemon *)
(* is down, what its next start finds on disk.                              *)
InForce == IF up THEN mem ELSE IF disk = None THEN Fresh ELSE disk

-----------------------------------------------------------------------------
(* LoadConfig, on a daemon start. *)

Start ==
  /\ ~up
  /\ disk # None
  /\ up' = TRUE
  /\ mem' = disk
  /\ UNCHANGED <<disk, tmp, configMu, task, sess, edit, counters>>

(* No file: the default configuration, whose own Flush may fail unnoticed. *)
StartFresh ==
  /\ ~up
  /\ disk = None
  /\ up' = TRUE
  /\ mem' = Fresh
  /\ \/ /\ disk' = Fresh
        /\ UNCHANGED flushFaults
     \/ /\ flushFaults < MaxFlushFaults
        /\ flushFaults' = flushFaults + 1
        /\ UNCHANGED disk
  /\ UNCHANGED <<tmp, configMu, task, sess, edit,
                 edits, chmodFaults, crashes, loadFaults>>

(* A file that cannot be read or parsed: the default configuration, at     *)
(* version 0 again, with the old file left in place.                       *)
StartUnreadable ==
  /\ ~up
  /\ disk # None
  /\ loadFaults < MaxLoadFaults
  /\ loadFaults' = loadFaults + 1
  /\ up' = TRUE
  /\ mem' = Fresh
  /\ UNCHANGED <<disk, tmp, configMu, task, sess, edit,
                 edits, flushFaults, chmodFaults, crashes>>

(* The daemon dies: commits and handlers vanish, and every session waiting *)
(* for an answer gets an error.                                            *)
Crash ==
  /\ up
  /\ crashes < MaxCrashes
  /\ crashes' = crashes + 1
  /\ up' = FALSE
  /\ configMu' = None
  /\ task' = [p \in Committers |-> NoTask]
  /\ sess' = [s \in Sessions |->
                IF sess[s].step = "waiting" THEN NoSession ELSE sess[s]]
  /\ UNCHANGED <<mem, disk, tmp, edit, edits, flushFaults, chmodFaults, loadFaults>>

-----------------------------------------------------------------------------
(* MutateServerConfig, the client side of a session. *)

BeginMutate(s) ==
  /\ sess[s].step = "idle"
  /\ task[s].step = "idle"
  /\ edits < MaxEdits
  /\ edits' = edits + 1
  /\ \E e \in Edits : edit' = [edit EXCEPT ![s] = e]
  /\ sess' = [sess EXCEPT ![s].step = "reading"]
  /\ UNCHANGED <<up, mem, disk, tmp, configMu, task, faults>>

(* GET /config: GlobalConfig() takes configMu for reading. *)
ReadConfig(s) ==
  /\ sess[s].step = "reading"
  /\ up
  /\ Unlocked
  /\ sess' = [sess EXCEPT ![s].step = "credentials", ![s].snap = mem]
  /\ UNCHANGED <<up, mem, disk, tmp, configMu, task, edit, counters>>

(* Mutant: the version is that of the second read. *)
BaseVersion_Late(s) == mem.ver

(* The version a session submits is the one it read with the configuration. *)
BaseVersion(s) == sess[s].snap.ver

(* GET /mihomo/api-credentials completes the snapshot; the edit is applied, *)
(* and nothing is submitted when it changes nothing.                        *)
ReadCredentials(s) ==
  LET read  == [sess[s].snap.val EXCEPT ![Credential] = mem.val[Credential]]
      after == Apply(read, edit[s])
  IN  /\ sess[s].step = "credentials"
      /\ up
      /\ Unlocked
      /\ \/ /\ after = read
            /\ sess' = [sess EXCEPT ![s] = NoSession]
            /\ UNCHANGED task
         \/ /\ after # read
            /\ sess' = [sess EXCEPT ![s].step = "waiting"]
            /\ task' = [task EXCEPT ![s] =
                 [step |-> "queued",
                  next |-> [ver |-> BaseVersion(s), val |-> after]]]
      /\ UNCHANGED <<up, mem, disk, tmp, configMu, edit, counters>>

(* Connecting to the socket of a dead daemon fails. *)
Refused(s) ==
  /\ sess[s].step \in {"reading", "credentials"}
  /\ ~up
  /\ sess' = [sess EXCEPT ![s] = NoSession]
  /\ UNCHANGED <<up, mem, disk, tmp, configMu, task, edit, counters>>

(* DefaultIPCRequestTimeout: the client gives up, the handler does not. *)
GiveUp(s) ==
  /\ sess[s].step = "waiting"
  /\ sess' = [sess EXCEPT ![s] = NoSession]
  /\ UNCHANGED <<up, mem, disk, tmp, configMu, task, edit, counters>>

MayRetry(s) == sess[s].attempt = 1

(* The handler's answer reaches the session, or nobody. *)
Receive(s) ==
  /\ task[s].step \in {"committed", "conflict", "error"}
  /\ task' = [task EXCEPT ![s] = NoTask]
  /\ sess' = [sess EXCEPT ![s] =
       IF /\ sess[s].step = "waiting"
          /\ task[s].step = "conflict"
          /\ MayRetry(s)
       THEN [step |-> "reading", attempt |-> sess[s].attempt + 1, snap |-> Fresh]
       ELSE NoSession]
  /\ UNCHANGED <<up, mem, disk, tmp, configMu, edit, counters>>

-----------------------------------------------------------------------------
(* handleConfig POST and ReplaceGlobalConfig, up to the file operations. *)

(* Mutant: any version is accepted. *)
Stale_Ignored(s) == FALSE

Stale(s) == task[s].next.ver # mem.ver

Replace(s) ==
  LET submitted == task[s].next
      merged    == Merge(submitted.val)
  IN  /\ task[s].step = "queued"
      /\ Unlocked
      /\ \/ /\ \/ ~Accepts(submitted.val)
               \/ ~Stale(s) /\ ~Accepts(merged)
            /\ task' = [task EXCEPT ![s].step = "error"]
            /\ UNCHANGED configMu
         \/ /\ Accepts(submitted.val)
            /\ Stale(s)
            /\ task' = [task EXCEPT ![s].step = "conflict"]
            /\ UNCHANGED configMu
         \/ /\ Accepts(submitted.val)
            /\ ~Stale(s)
            /\ Accepts(merged)
            /\ task' = [task EXCEPT ![s] =
                 [step |-> "write",
                  next |-> [ver |-> mem.ver + 1, val |-> merged]]]
            /\ configMu' = s
      /\ UNCHANGED <<up, mem, disk, tmp, sess, edit, counters>>

(* UpdateGlobalConfig: the edit is made on a clone, under the lock.  An     *)
(* error of fn or of Validate changes nothing.                              *)
Update(w) ==
  /\ task[w].step = "idle"
  /\ up
  /\ Unlocked
  /\ edits < MaxEdits
  /\ edits' = edits + 1
  /\ \E e \in Edits :
       LET next == Apply(mem.val, e) IN
       /\ Accepts(next)
       /\ edit' = [edit EXCEPT ![w] = e]
       /\ task' = [task EXCEPT ![w] =
            [step |-> "write", next |-> [ver |-> mem.ver + 1, val |-> next]]]
  /\ configMu' = w
  /\ UNCHANGED <<up, mem, disk, tmp, sess, faults>>

-----------------------------------------------------------------------------
(* commitConfigLocked and Flush. *)

Answer(p, how) ==
  IF p \in Sessions THEN [task EXCEPT ![p].step = how]
                    ELSE [task EXCEPT ![p] = NoTask]

(* Mutant: the error path keeps the lock. *)
Fail_Locked(p) ==
  /\ task' = Answer(p, "error")
  /\ UNCHANGED configMu

Fail(p) ==
  /\ task' = Answer(p, "error")
  /\ configMu' = None

(* Mutant: memory is replaced before the file. *)
WriteTmp_MemoryFirst(p) ==
  /\ task[p].step = "write"
  /\ tmp' = task[p].next
  /\ mem' = task[p].next
  /\ task' = [task EXCEPT ![p].step = "rename"]
  /\ UNCHANGED <<up, disk, configMu, sess, edit, counters>>

WriteTmp(p) ==
  /\ task[p].step = "write"
  /\ tmp' = task[p].next
  /\ task' = [task EXCEPT ![p].step = "rename"]
  /\ UNCHANGED <<up, mem, disk, configMu, sess, edit, counters>>

WriteTmpFails(p) ==
  /\ task[p].step = "write"
  /\ flushFaults < MaxFlushFaults
  /\ flushFaults' = flushFaults + 1
  /\ tmp' = None
  /\ Fail(p)
  /\ UNCHANGED <<up, mem, disk, sess, edit, edits, chmodFaults, crashes, loadFaults>>

RenameTmp(p) ==
  /\ task[p].step = "rename"
  /\ tmp # None
  /\ disk' = tmp
  /\ tmp' = None
  /\ task' = [task EXCEPT ![p].step = "chmod"]
  /\ UNCHANGED <<up, mem, configMu, sess, edit, counters>>

RenameTmpFails(p) ==
  /\ task[p].step = "rename"
  /\ flushFaults < MaxFlushFaults
  /\ flushFaults' = flushFaults + 1
  /\ tmp' = None
  /\ Fail(p)
  /\ UNCHANGED <<up, mem, disk, sess, edit, edits, chmodFaults, crashes, loadFaults>>

(* os.Chmod succeeds and the commit is published. *)
Publish(p) ==
  /\ task[p].step = "chmod"
  /\ mem' = task[p].next
  /\ configMu' = None
  /\ task' = Answer(p, "committed")
  /\ UNCHANGED <<up, disk, tmp, sess, edit, counters>>

(* os.Chmod fails: config.yaml is already the new one. *)
ChmodFails(p) ==
  /\ task[p].step = "chmod"
  /\ chmodFaults < MaxChmodFaults
  /\ chmodFaults' = chmodFaults + 1
  /\ Fail(p)
  /\ UNCHANGED <<up, mem, disk, tmp, sess, edit,
                 edits, flushFaults, crashes, loadFaults>>

-----------------------------------------------------------------------------

Init ==
  /\ up = FALSE
  /\ mem = Fresh
  /\ disk = None
  /\ tmp = None
  /\ configMu = None
  /\ task = [p \in Committers |-> NoTask]
  /\ sess = [s \in Sessions |-> NoSession]
  /\ edit = [p \in Committers |-> NoEdit]
  /\ edits = 0
  /\ flushFaults = 0
  /\ chmodFaults = 0
  /\ crashes = 0
  /\ loadFaults = 0

Client(s) ==
  \/ BeginMutate(s) \/ ReadConfig(s) \/ ReadCredentials(s)
  \/ Refused(s) \/ GiveUp(s) \/ Receive(s)

Commit(p) ==
  \/ WriteTmp(p) \/ WriteTmpFails(p) \/ RenameTmp(p) \/ RenameTmpFails(p)
  \/ Publish(p) \/ ChmodFails(p)

Daemon == Start \/ StartFresh \/ Crash

Next ==
  \/ Daemon
  \/ StartUnreadable
  \/ \E s \in Sessions : Client(s) \/ Replace(s)
  \/ \E w \in Writers : Update(w)
  \/ \E p \in Committers : Commit(p)

Spec == Init /\ [][Next]_vars

(* The service manager restarts a dead daemon, goroutines and clients run,  *)
(* and sync.RWMutex starves nobody that asks for it.                        *)
Fairness ==
  /\ WF_vars(Start) /\ WF_vars(StartFresh)
  /\ \A p \in Committers : WF_vars(Commit(p))
  /\ \A s \in Sessions :
       /\ SF_vars(ReadConfig(s)) /\ SF_vars(ReadCredentials(s)) /\ SF_vars(Replace(s))
       /\ WF_vars(Refused(s)) /\ WF_vars(Receive(s))

FairSpec == Spec /\ Fairness

-----------------------------------------------------------------------------
(* Every variable has its type, in particular every file and every request *)
(* carries a whole configuration with a version.                           *)
TypeOK ==
  /\ up \in BOOLEAN
  /\ mem \in Versioned
  /\ disk \in Versioned \cup {None}
  /\ tmp \in Versioned \cup {None}
  /\ configMu \in Committers \cup {None}
  /\ task \in [Committers -> Task]
  /\ sess \in [Sessions -> Session]
  /\ edit \in [Committers -> Edits]
  /\ edits \in Nat
  /\ flushFaults \in Nat
  /\ chmodFaults \in Nat
  /\ crashes \in Nat
  /\ loadFaults \in Nat

(* A session submits a whole configuration it read some time ago, from two *)
(* endpoints, yet a commit never undoes what anybody else committed in     *)
(* between: whatever is published is the edit of its committer applied to  *)
(* the configuration in force (the version check of ReplaceGlobalConfig).  *)
(* A start that fell back to the default configuration ends this: it       *)
(* counts versions from 0 again, and an old snapshot may pass the check.   *)
NoLostUpdate ==
  [][\A p \in Committers :
       (Intact /\ up /\ task[p].step = "chmod" /\ mem' # mem)
         => mem'.val = Effect(p, mem.val)]_vars

(* Whatever the faults and the interleaving, the configuration in force,   *)
(* and the one a restart would find on disk, passes Config.Validate.       *)
ValidInForce ==
  /\ mem.val \in Valid
  /\ disk # None => disk.val \in Valid

(* No committed configuration is lost by a crash or by a failed commit:    *)
(* the file is never older than the snapshot in memory, and at the same    *)
(* version it is the same configuration.                                   *)
DiskNeverBehind ==
  up /\ disk # None =>
    /\ disk.ver >= mem.ver
    /\ disk.ver = mem.ver => disk = mem

(* Every edit a session starts comes to an end, with an answer, a refused  *)
(* connection or a timeout, whatever the other committers do.              *)
MutationEnds ==
  \A s \in Sessions : sess[s].step # "idle" ~> sess[s].step = "idle"

(* The store implements the promise: as the sessions see it, across        *)
(* crashes and failed commits, one valid configuration that changes by one *)
(* edit and one version at a time, until a start cannot read its file.     *)
AC == INSTANCE AtomicConfig WITH store <- InForce, intact <- Intact

AtomicSpec == AC!Spec

-----------------------------------------------------------------------------
(* Why the promise holds, as an inductive invariant. *)

Committing == {"write", "rename", "chmod"}

(* Who is between taking configMu and giving it back. *)
LockHeld ==
  \A p \in Committers :
    /\ task[p].step \in Committing => configMu = p
    /\ task[p].step # "idle" => up

(* A commit in progress is the next version, and its files follow it. *)
CommitPrepared ==
  \A p \in Committers :
    task[p].step \in Committing =>
      /\ task[p].next.ver = mem.ver + 1
      /\ task[p].next.val \in Valid
      /\ task[p].step = "rename" => tmp = task[p].next
      /\ task[p].step = "chmod" => disk = task[p].next

(* What a commit writes is its committer's edit of the snapshot in memory. *)
CommitIsEdit ==
  \A p \in Committers :
    task[p].step \in Committing => task[p].next.val = Effect(p, mem.val)

OneEditApart(old, new) ==
  \/ new = old
  \/ \E f \in Fields, v \in Values : new = [old EXCEPT ![f] = v]

(* The file is the snapshot in memory or one valid edit ahead of it. *)
DiskKnown ==
  /\ disk # None => disk.val \in Valid
  /\ up => \/ disk = mem
           \/ disk = None /\ mem = Fresh
           \/ /\ disk # None
              /\ disk.ver = mem.ver + 1
              /\ OneEditApart(mem.val, disk.val)

(* What a session read, or submits, is the configuration in force unless   *)
(* the version in force has moved on.                                      *)
SnapshotsFresh ==
  \A s \in Sessions :
    /\ sess[s].step \in {"reading", "credentials"} => task[s].step = "idle"
    /\ sess[s].step = "credentials" =>
         /\ sess[s].snap.ver <= InForce.ver
         /\ sess[s].snap.ver = InForce.ver => sess[s].snap.val = InForce.val
    /\ task[s].step = "queued" =>
         /\ task[s].next.ver <= mem.ver
         /\ task[s].next.ver = mem.ver =>
              task[s].next.val = Apply(mem.val, edit[s])

(* The store is consistent under every fault, and knows what it holds      *)
(* while every start has read its file.                                    *)
IInv ==
  /\ LockHeld /\ CommitPrepared /\ ValidInForce
  /\ Intact => CommitIsEdit /\ DiskKnown /\ SnapshotsFresh

(* Whatever fails, one committer at a time writes, the file is the snapshot *)
(* in memory or the commit about to be published, and a session that has    *)
(* the version in force has the configuration in force, however its two     *)
(* requests and the commits of others interleave (config_store.go, Flush,   *)
(* MutateServerConfig).                                                     *)
StoreIsSound == TypeOK /\ IInv

=============================================================================
