------------------------------ MODULE SystemProxy ------------------------------
(***************************************************************************)
(* The system proxy of one user: a preference on disk that every process   *)
(* reads once and caches (preferences.go), a block in the shell files      *)
(* (system_proxy.go, ShellFiles), the environment of the user's session    *)
(* (system_proxy_session.go), and the operations of TUIs and of the        *)
(* command line that keep the three together (ui/system_proxy_action.go,   *)
(* ui/dashboard.go, ui/settings.go, cmd/cmd.go).                           *)
(*                                                                         *)
(* Processes share nothing but the files. Within a TUI each operation is a *)
(* goroutine, so two of them may run at once. A shell file is rewritten in *)
(* place: it is empty between its truncation and the write. The preference *)
(* file is replaced by a rename, one step here.                            *)
(***************************************************************************)
EXTENDS FiniteSets, ShellFiles

CONSTANTS Candidates,  \* the files of a home directory, in their order
          Profile,     \* .profile, created when there is no file at all
          LoginOnly,   \* .bash_profile and .bash_login: only if they exist
          Missing,     \* no such file
          Processes,   \* processes of the user
          Tasks,       \* their goroutines
          Owner,       \* the process of a task
          Ports,       \* the port as one line of exports
          Homes,       \* what the files may hold at first
          MaxRequests, \* bound: operations
          MaxFaults    \* bound: failing steps and killed processes

Files == ToSet(Candidates)

Line == STRING \cup Ports \cup {Start, End, Guard}

Assumptions ==
  /\ Candidates \in Seq(Files)
  /\ Profile \in Files /\ LoginOnly \subseteq Files \ {Profile}
  /\ Ports # {} /\ Ports \cap {Start, End} = {}
  /\ Owner \in [Tasks -> Processes]
  /\ Tasks \cap {"stopped", "other"} = {}
  /\ Homes \subseteq [Files -> Seq(Line) \cup {Missing}]
  /\ Missing \notin Seq(Line)
  /\ {MaxRequests, MaxFaults} \subseteq Nat

VARIABLES
  rc,        \* the text of each shell file
  pref,      \* system_proxy in preferences.yaml: missing, on, off
  port,      \* the proxy port of the daemon's configuration
  kernel,    \* whether that port is listened on
  session,   \* the session environments that hold the variables
  procs,     \* per process: down or not, cached preference and port
  tasks,     \* what each goroutine does
  requests,  \* the number of operations so far
  faults,    \* the number of faults so far
  typed,     \* history: the user's lines of each file at first
  hurt,      \* history: files of which a write was cut short or overlapped
  wish,      \* history: the stop under way that was last asked for,
             \* "stopped" after it, "other" when it failed or was overtaken
  late       \* history: processes started after a stop was completed

files == <<rc, session>>
history == <<typed, hurt, wish, late>>
vars == <<rc, pref, port, kernel, session, procs, tasks, requests, faults,
          typed, hurt, wish, late>>

Down == [role |-> "down", on |-> FALSE, stale |-> FALSE,
         port |-> CHOOSE p \in Ports : TRUE]

Idle == [kind |-> "idle", on |-> FALSE, port |-> Down.port, left |-> <<>>,
         todo |-> {}, found |-> FALSE, writing |-> <<>>, failed |-> FALSE,
         alone |-> TRUE]

(* k has truncated f and not yet written it.                                *)
Cutting(k, f) ==
  tasks[k].writing # <<>> /\ tasks[k].writing[1] = f /\ tasks[k].writing[3]

OthersCut(k, f) == \E j \in Tasks \ {k} : Cutting(j, f)

Init ==
  /\ rc \in Homes
  /\ pref \in {"missing", "on", "off"}
  /\ port = Down.port
  /\ kernel \in BOOLEAN
  /\ session = {}
  /\ procs = [p \in Processes |-> Down]
  /\ tasks = [k \in Tasks |-> Idle]
  /\ requests = 0
  /\ faults = 0
  /\ typed = [f \in Files |-> IF rc[f] = Missing THEN <<>>
                                                 ELSE UserText(rc[f])]
  /\ hurt = {f \in Files : rc[f] # Missing /\ Broken(rc[f])}
  /\ wish = "other"
  /\ late = {}
-----------------------------------------------------------------------------
(* The order of the steps of an operation. A switch saves the preference    *)
(* last; the stop of the kernel saves it first.                             *)
Plan_StopSavesNothing(kind) ==
  CASE kind \in {"enable", "disable"} -> <<"files", "session", "pref">>
    [] kind = "stop" -> <<"files", "session">>
    [] OTHER -> <<"files">>

Plan(kind) ==
  CASE kind \in {"enable", "disable"} -> <<"files", "session", "pref">>
    [] kind = "stop" -> <<"pref", "files", "session">>
    [] OTHER -> <<"files">>

(* shellConfigFiles; cleanup takes every candidate.                         *)
Targets(kind) ==
  {f \in Files : kind = "cleanup" \/ f \notin LoginOnly \/ rc[f] # Missing}

First(todo) == Candidates[SelectInSeq(Candidates, LAMBDA f : f \in todo)]

(* The preference a process reads when it first needs it: a missing file is *)
(* migrated from the configuration, whose default is on. A file that cannot *)
(* be read counts as off, and is not read again.                            *)
Loaded == IF pref = "missing" THEN {TRUE} ELSE {pref = "on"}

Reads == Loaded \cup {FALSE}

Enlist(k, kind, on, withPort) ==
  /\ tasks[k] = Idle
  /\ requests < MaxRequests
  /\ requests' = requests + 1
  /\ LET others == {j \in Tasks : tasks[j] # Idle} IN
     tasks' = [j \in Tasks |->
       IF j = k
       THEN [Idle EXCEPT !.kind = kind, !.on = on, !.port = withPort,
                         !.left = Plan(kind), !.todo = Targets(kind),
                         !.alone = others = {}]
       ELSE [tasks[j] EXCEPT !.alone = tasks[j] = Idle]]

Fault == faults < MaxFaults /\ faults' = faults + 1

Starts(p, role, on) ==
  /\ procs[p].role = "down"
  /\ procs' = [procs EXCEPT ![p] = [role |-> role, on |-> on,
                                    stale |-> on \notin Loaded, port |-> port]]
  /\ IF on \in Loaded THEN UNCHANGED faults ELSE Fault
  /\ late' = IF wish = "stopped" THEN late \cup {p} ELSE late

(* ReconcileSystemProxyEnvIfUsable does nothing when the preference is on   *)
(* and the port is dead.                                                    *)
ReconcileIfUsable(k, on, listening) ==
  IF on /\ ~listening
  THEN /\ requests < MaxRequests
       /\ requests' = requests + 1
       /\ UNCHANGED tasks
  ELSE Enlist(k, "start", on, port)

(* ui.Run: the cached copy of the configuration, the preference, and the    *)
(* reconciliation.                                                          *)
Run(k, on) ==
  /\ Starts(Owner[k], "tui", on)
  /\ ReconcileIfUsable(k, on, kernel)
  /\ UNCHANGED <<files, pref, port, kernel, typed, hurt, wish>>

(* `start` and `restart` reconcile after the kernel, whose port need not be *)
(* listened on yet.                                                         *)
RunMihomoStart(k, on) ==
  /\ kernel' = TRUE
  /\ Starts(Owner[k], "cli", on)
  /\ \E listening \in BOOLEAN : ReconcileIfUsable(k, on, listening)
  /\ UNCHANGED <<files, pref, port, typed, hurt, wish>>

(* toggleSystemProxy. A dead port only asks for confirmation, and the box   *)
(* of the settings page need not show what this process has cached.         *)
Toggle(k, on) ==
  /\ procs[Owner[k]].role = "tui"
  /\ Enlist(k, IF on THEN "enable" ELSE "disable", on, procs[Owner[k]].port)
  /\ wish' = IF on THEN "other" ELSE wish
  /\ late' = IF on THEN {} ELSE late
  /\ UNCHANGED <<files, pref, port, kernel, procs, faults, typed, hurt>>

(* The kernel is stopped, then DisableSystemProxyOnKernelStop: from the     *)
(* dashboard, or by `stop`, which is a process of its own.                  *)
KernelStops(k, on, withPort) ==
  /\ kernel' = FALSE
  /\ Enlist(k, "stop", FALSE, withPort)
  /\ wish' = IF on THEN k ELSE wish
  /\ UNCHANGED <<files, pref, port, typed, hurt>>

StopFromDashboard(k) ==
  /\ procs[Owner[k]].role = "tui"
  /\ KernelStops(k, procs[Owner[k]].on, procs[Owner[k]].port)
  /\ UNCHANGED <<procs, faults, late>>

RunMihomoStop(k, on) ==
  /\ Starts(Owner[k], "cli", on)
  /\ KernelStops(k, on, port)

(* The settings page saves a port, then reconciles without a probe.         *)
ChangePort(k, new) ==
  /\ procs[Owner[k]].role = "tui"
  /\ new # port
  /\ port' = new
  /\ procs' = [procs EXCEPT ![Owner[k]].port = new]
  /\ Enlist(k, "ports", procs[Owner[k]].on, new)
  /\ UNCHANGED <<files, pref, kernel, faults, history>>

(* CleanupSystemProxyEnv, of `cleanup` and of the uninstallation: run by    *)
(* root, whose preference is another file.                                  *)
Cleanup(k) ==
  /\ procs[Owner[k]].role = "down"
  /\ procs' = [procs EXCEPT ![Owner[k]].role = "cli"]
  /\ Enlist(k, "cleanup", FALSE, port)
  /\ UNCHANGED <<files, pref, port, kernel, faults, history>>
-----------------------------------------------------------------------------
Do(k, phase) == tasks[k].left # <<>> /\ Head(tasks[k].left) = phase

(* p has saved a preference: what others have cached may differ from it.    *)
Saved(p, on) ==
  /\ pref' = IF on THEN "on" ELSE "off"
  /\ procs' = [q \in Processes |->
       IF q = p THEN [procs[q] EXCEPT !.on = on, !.stale = FALSE]
                ELSE [procs[q] EXCEPT !.stale = procs[q].role # "down"]]
  /\ wish' = IF on THEN "other" ELSE wish
  /\ late' = IF on THEN {} ELSE late

(* A step that fails: a switch ends, a stop only does not go on to save.    *)
Rest(k, failed) ==
  IF failed /\ (tasks[k].kind # "stop" \/ Do(k, "pref")) THEN <<>>
  ELSE Tail(tasks[k].left)

PhaseEnds(k, failed) ==
  tasks' = [tasks EXCEPT ![k].left = Rest(k, failed), ![k].todo = {},
                         ![k].failed = @ \/ failed]

(* upsertBlockInFile or removeBlockFromFile on one file of the loop: a      *)
(* missing file is passed over, an equal text is not written.               *)
NewText(k, f) == IF tasks[k].on THEN Upsert(rc[f], tasks[k].port)
                                ELSE Strip(rc[f])

ReadFile(k) ==
  /\ Do(k, "files")
  /\ tasks[k].writing = <<>> /\ tasks[k].todo # {}
  /\ LET f == First(tasks[k].todo)
         there == rc[f] # Missing
     IN /\ tasks' = [tasks EXCEPT
             ![k].todo = @ \ {First(@)},
             ![k].found = @ \/ there,
             ![k].writing = IF there /\ NewText(k, f) # rc[f]
                            THEN <<f, NewText(k, f), FALSE>> ELSE <<>>]
        /\ hurt' = IF OthersCut(k, f) THEN hurt \cup {f} ELSE hurt
  /\ UNCHANGED <<files, pref, port, kernel, procs, requests, faults, typed,
                 wish, late>>

(* os.WriteFile opens with O_TRUNC and then writes.                         *)
Truncate(k) ==
  /\ tasks[k].writing # <<>>
  /\ ~tasks[k].writing[3]
  /\ rc' = [rc EXCEPT ![tasks[k].writing[1]] = <<>>]
  /\ tasks' = [tasks EXCEPT ![k].writing[3] = TRUE]
  /\ hurt' = IF OthersCut(k, tasks[k].writing[1])
             THEN hurt \cup {tasks[k].writing[1]} ELSE hurt
  /\ UNCHANGED <<session, pref, port, kernel, procs, requests, faults, typed,
                 wish, late>>

Fill(k) ==
  /\ tasks[k].writing # <<>>
  /\ tasks[k].writing[3]
  /\ rc' = [rc EXCEPT ![tasks[k].writing[1]] = tasks[k].writing[2]]
  /\ tasks' = [tasks EXCEPT ![k].writing = <<>>]
  /\ UNCHANGED <<session, pref, port, kernel, procs, requests, faults,
                 history>>

(* A file that cannot be read or written ends the loop, except in           *)
(* CleanupSystemProxyEnv, which goes on with the next one.                  *)
FileFails(k) ==
  /\ Do(k, "files")
  /\ Fault
  /\ IF tasks[k].writing = <<>>
     THEN /\ tasks[k].todo # {} /\ rc[First(tasks[k].todo)] # Missing
          /\ UNCHANGED hurt
          /\ IF tasks[k].kind = "cleanup"
             THEN tasks' = [tasks EXCEPT ![k].todo = @ \ {First(@)}]
             ELSE PhaseEnds(k, TRUE)
     ELSE /\ hurt' = IF tasks[k].writing[3]
                     THEN hurt \cup {tasks[k].writing[1]} ELSE hurt
          /\ tasks' = [tasks EXCEPT
               ![k].writing = <<>>, ![k].failed = TRUE,
               ![k].left = IF tasks[k].kind = "cleanup" THEN @
                           ELSE Rest(k, TRUE),
               ![k].todo = IF tasks[k].kind = "cleanup" THEN @ ELSE {}]
  /\ UNCHANGED <<files, pref, port, kernel, procs, requests, typed, wish,
                 late>>

(* The loop is over. To switch on where there is no file at all, .profile   *)
(* is created, which may fail and leave it empty.                           *)
FilesDone(k) ==
  /\ Do(k, "files")
  /\ tasks[k].todo = {} /\ tasks[k].writing = <<>>
  /\ LET creates == tasks[k].on /\ ~tasks[k].found IN
     \/ /\ rc' = IF creates THEN [rc EXCEPT ![Profile] = Block(tasks[k].port)]
                             ELSE rc
        /\ PhaseEnds(k, FALSE)
        /\ UNCHANGED faults
     \/ /\ creates
        /\ rc' \in {rc, [rc EXCEPT ![Profile] = <<>>]}
        /\ PhaseEnds(k, TRUE)
        /\ Fault
  /\ UNCHANGED <<session, pref, port, kernel, procs, requests, history>>

(* SyncSystemProxySession: both commands may fail, which is only logged;    *)
(* the activation environment of D-Bus cannot be cleared.                   *)
Session(k) ==
  /\ Do(k, "session")
  /\ \E done \in SUBSET {"systemd", "dbus"} :
       /\ IF done = {"systemd", "dbus"} THEN UNCHANGED faults ELSE Fault
       /\ session' = IF tasks[k].on THEN session \cup done
                     ELSE session \ (done \cap {"systemd"})
  /\ PhaseEnds(k, FALSE)
  /\ UNCHANGED <<rc, pref, port, kernel, procs, requests, history>>

(* SetSystemProxyPreference: the cached value is compared, replaced and     *)
(* then saved; when that fails it stays replaced. DisableSystemProxyOn-     *)
(* KernelStop does nothing at all when the cached value is off.             *)
Unchanged(k) == procs[Owner[k]].on = tasks[k].on

PrefStays(k) ==
  /\ Do(k, "pref")
  /\ Unchanged(k)
  /\ IF tasks[k].kind = "stop"
     THEN tasks' = [tasks EXCEPT ![k].left = <<>>, ![k].todo = {}]
     ELSE PhaseEnds(k, FALSE)
  /\ UNCHANGED <<files, pref, port, kernel, procs, requests, faults, history>>

(* The file may be replaced and its mode not set: saved, but an error.      *)
SavePref(k, saved) ==
  /\ Do(k, "pref")
  /\ ~Unchanged(k)
  /\ IF saved
     THEN /\ Saved(Owner[k], tasks[k].on)
          /\ \/ tasks' = [tasks EXCEPT ![k].left = Tail(@)] /\ UNCHANGED faults
             \/ PhaseEnds(k, TRUE) /\ Fault
     ELSE /\ Fault
          /\ procs' = [procs EXCEPT ![Owner[k]].on = tasks[k].on,
                                    ![Owner[k]].stale = TRUE]
          /\ PhaseEnds(k, TRUE)
          /\ wish' = "other"
          /\ UNCHANGED <<pref, late>>
  /\ UNCHANGED <<files, port, kernel, requests, typed, hurt>>

Finish(k) ==
  /\ tasks[k] # Idle /\ tasks[k].left = <<>>
  /\ tasks' = [tasks EXCEPT ![k] = Idle]
  /\ wish' = IF wish = k THEN "stopped" ELSE wish
  /\ UNCHANGED <<files, pref, port, kernel, procs, requests, faults, typed,
                 hurt, late>>
-----------------------------------------------------------------------------
(* setLanguagePreference writes the whole record, with the value of         *)
(* system_proxy that this process has cached; a failed save changes nothing.*)
SetLanguage(p) ==
  /\ procs[p].role = "tui"
  /\ requests < MaxRequests
  /\ requests' = requests + 1
  /\ Saved(p, procs[p].on)
  /\ tasks' = [k \in Tasks |-> [tasks[k] EXCEPT !.alone =
                                  @ /\ tasks[k] = Idle]]
  /\ UNCHANGED <<files, port, kernel, faults, typed, hurt>>

(* A process ends when it has nothing to do, or is killed.                  *)
EndProcess(p) ==
  LET own == {k \in Tasks : Owner[k] = p}
      cut == {f \in Files : \E k \in own : Cutting(k, f)}
  IN /\ procs[p].role # "down"
     /\ IF \A k \in own : tasks[k] = Idle
        THEN UNCHANGED <<faults, wish>>
        ELSE Fault /\ wish' = "other"
     /\ procs' = [procs EXCEPT ![p] = Down]
     /\ tasks' = [k \in Tasks |-> IF k \in own THEN Idle ELSE tasks[k]]
     /\ hurt' = hurt \cup cut
     /\ late' = late \ {p}
     /\ UNCHANGED <<files, pref, port, kernel, requests, typed>>

Next ==
  \/ \E k \in Tasks : \E on \in Reads :
       Run(k, on) \/ RunMihomoStart(k, on) \/ RunMihomoStop(k, on)
  \/ \E k \in Tasks, on \in BOOLEAN : Toggle(k, on)
  \/ \E k \in Tasks : StopFromDashboard(k) \/ Cleanup(k)
  \/ \E k \in Tasks, new \in Ports : ChangePort(k, new)
  \/ \E k \in Tasks : ReadFile(k) \/ Truncate(k) \/ Fill(k) \/ FileFails(k) \/ FilesDone(k)
  \/ \E k \in Tasks : Session(k) \/ PrefStays(k) \/ Finish(k)
  \/ \E k \in Tasks, saved \in BOOLEAN : SavePref(k, saved)
  \/ \E p \in Processes : SetLanguage(p) \/ EndProcess(p)

Spec == Init /\ [][Next]_vars
-----------------------------------------------------------------------------
TypeOK ==
  /\ DOMAIN rc = Files
  /\ pref \in {"missing", "on", "off"}
  /\ port \in Ports /\ kernel \in BOOLEAN
  /\ session \subseteq {"systemd", "dbus"}
  /\ \A p \in Processes : procs[p].role = "down" => procs[p] = Down
  /\ \A k \in Tasks : procs[Owner[k]].role = "down" => tasks[k] = Idle
  /\ hurt \subseteq Files /\ late \subseteq Processes
  /\ wish \in Tasks \cup {"stopped", "other"}

(* Whatever the switch, the reconciliations and the cleanups do to a shell  *)
(* file, the user's own lines stay, in their order. Not promised, because   *)
(* files are rewritten in place: a file of which a write was cut short or   *)
(* was read or begun again meanwhile, and one whose block had lost its end. *)
UserTextKept ==
  \A f \in Files \ hurt :
    rc[f] = Missing \/ (\E k \in Tasks : Cutting(k, f))
                    \/ UserText(rc[f]) = typed[f]

(* A switch that ends without an error, and beside which no other operation *)
(* ran, has done all it says: on, every file of the login and interactive   *)
(* shells that exists, and one at least, exports the proxy at its port; off,*)
(* none does; and the file holds the new preference, unless what this       *)
(* process has cached differs from the file: its own first read failed, or  *)
(* another process saved one, or a save failed, since it read it.  (Then a  *)
(* switch to the cached value saves nothing, SetSystemProxyPreference.)     *)
SwitchTakesEffect ==
  \A k \in Tasks :
    LET t == tasks[k]
        present == {f \in Targets(t.kind) : rc[f] # Missing}
    IN t.kind \in {"enable", "disable"} /\ t.left = <<>> /\ t.alone /\ ~t.failed
       => /\ t.on => present # {} /\ \A f \in present : HasBlock(rc[f], t.port)
          /\ ~t.on => \A f \in present, p \in Ports :
                        ~Broken(rc[f]) => ~HasBlock(rc[f], p)
          /\ ~procs[Owner[k]].stale => Loaded = {t.on}

(* Once the kernel has been stopped and the preference with it, a process   *)
(* started later never writes the block back, even if removing it failed,   *)
(* until somebody switches the proxy on (or saves an older preference).     *)
StopIsRemembered == \A k \in Tasks : Owner[k] \in late => ~tasks[k].on
=============================================================================
