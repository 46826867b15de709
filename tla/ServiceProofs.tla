---------------------------- MODULE ServiceProofs ----------------------------
(***************************************************************************)
(* Proofs about Daemon, Installation, SystemProxy and ShellFiles, as parts *)
(* of Surroundings: for any TUIs, daemons, processes and shell files, and  *)
(* any number of jobs, operations and faults.                              *)
(***************************************************************************)
EXTENDS Surroundings, SequenceTheorems, WellFoundedInduction, TLAPS

-----------------------------------------------------------------------------
(* Daemon. *)
user == s1
phase == s2
socket == s3
tui == s4
calm == s7
wronged == s8

USE DEF user, phase, socket, tui, calm, wronged

Paths == {"root", "user"}

Phases == {"off", "starting", "clear", "bound", "serving", "asked"}

Places == {"off", "launch", "wait", "sync", "running", "left", "gone"}

TuiRecord == [at : Places, mine : BOOLEAN, sock : Paths,
              pool : SUBSET DA!Daemons, saw : SUBSET DA!Daemons]

DaemonTypes ==
  /\ user \in {"root", "operator", "reader", "stranger"}
  /\ phase \in [DA!Daemons -> Phases]
  /\ socket \in [Paths -> DA!Daemons \cup {None}]
  /\ tui \in [Tuis -> TuiRecord]
  /\ calm \in BOOLEAN /\ wronged \subseteq DA!Daemons

(* A name leads to a daemon of that name. *)
NamesLeadHome == \A p \in Paths : socket[p] # None => DA!Path(socket[p]) = p

(* A TUI that has not started a daemon has none, and one that is about to   *)
(* has seen none.                                                           *)
ChildIsUnborn ==
  \A t \in Tuis :
    /\ tui[t].at \in {"off", "launch"} => ~tui[t].mine
    /\ tui[t].at \in {"off", "launch", "sync", "running", "left"} /\ ~tui[t].mine =>
         phase[Child[t]] = "off"
    /\ tui[t].at = "launch" => tui[t].saw = {}

(* As long as no start crosses another, two daemons that live have          *)
(* different names, and each has its own.                                   *)
NamesAreOwn ==
  \A d \in DA!Daemons :
    /\ \A e \in DA!Daemons \ {d} : DA!Alive(d) /\ DA!Alive(e) => DA!Path(d) # DA!Path(e)
    /\ phase[d] = "clear" => socket[DA!Path(d)] = None
    /\ DA!Listening(d) => socket[DA!Path(d)] = d

(* Then the daemon of a TUI that waits for it, or has just found it, is     *)
(* alone, ...                                                               *)
ChildIsAlone ==
  \A t \in Tuis :
    tui[t].at = "wait" \/ (tui[t].at = "sync" /\ tui[t].mine) =>
      /\ phase[Child[t]] \in {"starting", "clear", "bound", "serving"}
      /\ \A d \in DA!Daemons \ {Child[t]} : ~DA!Alive(d)

(* ... and the one of a TUI that runs is all that its client reaches.       *)
ClientHasChild ==
  \A t \in Tuis :
    tui[t].at = "running" /\ tui[t].mine =>
      /\ phase[Child[t]] = "serving"
      /\ tui[t].sock = DA!Path(Child[t])
      /\ tui[t].pool \subseteq {Child[t]}

DInv ==
  /\ DaemonTypes
  /\ NamesLeadHome
  /\ ChildIsUnborn
  /\ calm => /\ NamesAreOwn
             /\ ChildIsAlone
             /\ ClientHasChild
             /\ wronged = {}
  /\ DA!QuitEndsItsDaemon

-----------------------------------------------------------------------------
LEMMA DaemonFacts ==
  /\ \A t \in Tuis : Child[t] \in DA!Daemons /\ Child[t] # Service /\ Child[t] \notin ByHand
  /\ \A t, u \in Tuis : Child[t] = Child[u] => t = u
  /\ \A d \in DA!Daemons : d # None /\ DA!Path(d) \in Paths
  /\ Service \in DA!Daemons
  /\ \A path : DA!Dial(path) \in {"denied", "open", "refused"}
BY SurroundingsAssumption DEF DA!Assumptions, DA!Daemons, DA!Path, Paths, DA!Dial

(* Who answers a probe is a daemon that lives, and listens at that name. *)
LEMMA ProbeIsAnswered ==
  ASSUME DaemonTypes, DA!Probe("ok")
  PROVE  /\ DA!ClientPath \in Paths
         /\ socket[DA!ClientPath] \in DA!Daemons
         /\ DA!Answering(socket[DA!ClientPath])
<1>1. DA!ClientPath \in Paths
  BY DEF DA!ClientPath, Paths
<1>2. DA!Dial(DA!ClientPath) = "open" /\ DA!Answering(socket[DA!ClientPath])
  BY DaemonFacts DEF DA!Probe
<1>3. socket[DA!ClientPath] # None
  BY <1>2 DEF DA!Dial
<1> QED
  BY <1>1, <1>2, <1>3 DEF DaemonTypes

(* A TUI that is refused sees nobody. *)
LEMMA Refused ==
  ASSUME DaemonTypes, DA!Probe("refused")
  PROVE  DA!Reachable(DA!ClientPath) = {}
<1>1. DA!Dial(DA!ClientPath) = "refused"
  BY DaemonFacts DEF DA!Probe
<1>2. socket[DA!ClientPath] = None \/ ~DA!Listening(socket[DA!ClientPath])
  BY <1>1 DEF DA!Dial
<1> QED
  BY <1>2, DaemonFacts DEF DA!Reachable, DA!Listening, DA!Answering

-----------------------------------------------------------------------------
(* A daemon's steps leave the TUIs alone. *)
LEMMA RunServerStep ==
  ASSUME DInv, NEW d \in DA!Daemons, DA!RunServer(d)
  PROVE  DInv'
<1> USE DaemonFacts DEF DInv
<1>1. /\ phase[d] = "off" /\ d \in ByHand \cup {Service}
      /\ phase' = [phase EXCEPT ![d] = "starting"]
      /\ UNCHANGED <<user, socket, tui, wronged>>
      /\ calm' \in BOOLEAN
      /\ calm' => /\ calm
                  /\ \A e \in DA!Daemons \ {d} : DA!Alive(e) => DA!Path(e) # DA!Path(d)
                  /\ \A t \in Tuis : tui[t].at \in {"off", "running", "left", "gone"}
  BY DEF DA!RunServer, DaemonTypes
<1>2. \A t \in Tuis : Child[t] # d
  BY <1>1
<1>3. DaemonTypes'
  BY <1>1 DEF DaemonTypes, Phases
<1>4. NamesLeadHome'
  BY <1>1 DEF NamesLeadHome, DA!Path
<1>5. ChildIsUnborn'
  BY <1>1, <1>2 DEF ChildIsUnborn, DaemonTypes
<1>6. calm' => NamesAreOwn'
  BY <1>1 DEF NamesAreOwn, DaemonTypes, DA!Path, DA!Alive, DA!Listening
<1>7. calm' => ChildIsAlone' /\ ClientHasChild' /\ wronged' = {}
  BY <1>1, <1>2 DEF ChildIsAlone, ClientHasChild, DaemonTypes, DA!Path
<1>8. DA!QuitEndsItsDaemon'
  BY <1>1, <1>2 DEF DA!QuitEndsItsDaemon, DaemonTypes
<1> QED
  BY <1>3, <1>4, <1>5, <1>6, <1>7, <1>8

LEMMA RemoveSocketStep ==
  ASSUME DInv, NEW d \in DA!Daemons, DA!RemoveSocket(d)
  PROVE  DInv'
<1> USE DaemonFacts DEF DInv
<1>1. /\ phase[d] = "starting"
      /\ phase' = [phase EXCEPT ![d] = "clear"]
      /\ socket' = [socket EXCEPT ![DA!Path(d)] = None]
      /\ UNCHANGED <<user, tui, calm, wronged>>
  BY DEF DA!RemoveSocket
<1>2. DaemonTypes'
  BY <1>1 DEF DaemonTypes, Phases
<1>3. NamesLeadHome'
  BY <1>1 DEF NamesLeadHome, DaemonTypes, DA!Path
<1>4. ChildIsUnborn'
  BY <1>1 DEF ChildIsUnborn, DaemonTypes
<1>5. calm' => NamesAreOwn'
  BY <1>1 DEF NamesAreOwn, DaemonTypes, DA!Path, DA!Alive, DA!Listening
<1>6. calm' => ChildIsAlone' /\ ClientHasChild' /\ wronged' = {}
  BY <1>1 DEF ChildIsAlone, ClientHasChild, DaemonTypes, DA!Path, DA!Alive
<1>7. DA!QuitEndsItsDaemon'
  BY <1>1 DEF DA!QuitEndsItsDaemon, DaemonTypes
<1> QED
  BY <1>2, <1>3, <1>4, <1>5, <1>6, <1>7

LEMMA ListenStep ==
  ASSUME DInv, NEW d \in DA!Daemons, DA!Listen(d)
  PROVE  DInv'
<1> USE DaemonFacts DEF DInv
<1>1. /\ phase[d] = "clear"
      /\ IF socket[DA!Path(d)] = None
         THEN /\ socket' = [socket EXCEPT ![DA!Path(d)] = d]
              /\ phase' = [phase EXCEPT ![d] = "bound"]
         ELSE /\ phase' = [phase EXCEPT ![d] = "off"]
              /\ socket' = socket
      /\ UNCHANGED <<user, tui, calm, wronged>>
  BY DEF DA!Listen
<1>2. DaemonTypes'
  BY <1>1 DEF DaemonTypes, Phases
<1>3. NamesLeadHome'
  BY <1>1 DEF NamesLeadHome, DaemonTypes, DA!Path
<1>4. ChildIsUnborn'
  BY <1>1 DEF ChildIsUnborn, DaemonTypes
<1>5. ASSUME calm PROVE /\ socket' = [socket EXCEPT ![DA!Path(d)] = d]
                        /\ phase' = [phase EXCEPT ![d] = "bound"]
  BY <1>1, <1>5 DEF NamesAreOwn
<1>6. calm' => NamesAreOwn'
  BY <1>1, <1>5 DEF NamesAreOwn, DaemonTypes, DA!Path, DA!Alive, DA!Listening
<1>7. calm' => ChildIsAlone' /\ ClientHasChild' /\ wronged' = {}
  BY <1>1, <1>5 DEF ChildIsAlone, ClientHasChild, DaemonTypes, DA!Path, DA!Alive
<1>8. DA!QuitEndsItsDaemon'
  BY <1>1 DEF DA!QuitEndsItsDaemon, DaemonTypes
<1> QED
  BY <1>2, <1>3, <1>4, <1>6, <1>7, <1>8

LEMMA ServeStep ==
  ASSUME DInv, NEW d \in DA!Daemons, DA!Serve(d)
  PROVE  DInv'
<1> USE DaemonFacts DEF DInv
<1>1. /\ phase[d] = "bound"
      /\ phase' = [phase EXCEPT ![d] = "serving"]
      /\ UNCHANGED <<user, socket, tui, calm, wronged>>
  BY DEF DA!Serve
<1>2. DaemonTypes'
  BY <1>1 DEF DaemonTypes, Phases
<1>3. NamesLeadHome'
  BY <1>1 DEF NamesLeadHome, DA!Path
<1>4. ChildIsUnborn'
  BY <1>1 DEF ChildIsUnborn, DaemonTypes
<1>5. calm' => NamesAreOwn'
  BY <1>1 DEF NamesAreOwn, DaemonTypes, DA!Path, DA!Alive, DA!Listening
<1>6. calm' => ChildIsAlone' /\ ClientHasChild' /\ wronged' = {}
  BY <1>1 DEF ChildIsAlone, ClientHasChild, DaemonTypes, DA!Path, DA!Alive
<1>7. DA!QuitEndsItsDaemon'
  BY <1>1 DEF DA!QuitEndsItsDaemon, DaemonTypes
<1> QED
  BY <1>2, <1>3, <1>4, <1>5, <1>6, <1>7

(* A daemon that is shut down was asked to, so no TUI waits for it. *)
LEMMA StopStep ==
  ASSUME DInv, NEW d \in DA!Daemons, DA!Stop(d)
  PROVE  DInv'
<1> USE DaemonFacts DEF DInv
<1>1. /\ phase[d] = "asked"
      /\ phase' = [phase EXCEPT ![d] = "off"]
      /\ socket' = [socket EXCEPT ![DA!Path(d)] = None]
      /\ UNCHANGED <<user, tui, calm, wronged>>
  BY DEF DA!Stop
<1>2. DaemonTypes'
  BY <1>1 DEF DaemonTypes, Phases
<1>3. NamesLeadHome'
  BY <1>1 DEF NamesLeadHome, DaemonTypes, DA!Path
<1>4. ChildIsUnborn'
  BY <1>1 DEF ChildIsUnborn, DaemonTypes
<1>5. calm' => NamesAreOwn'
  BY <1>1 DEF NamesAreOwn, DaemonTypes, DA!Path, DA!Alive, DA!Listening
<1>6. calm' => ChildIsAlone' /\ ClientHasChild' /\ wronged' = {}
  BY <1>1 DEF ChildIsAlone, ClientHasChild, DaemonTypes, DA!Path, DA!Alive
<1>7. DA!QuitEndsItsDaemon'
  BY <1>1 DEF DA!QuitEndsItsDaemon, DaemonTypes
<1> QED
  BY <1>2, <1>3, <1>4, <1>5, <1>6, <1>7

LEMMA DieStep ==
  ASSUME DInv, NEW d \in DA!Daemons, DA!Die(d)
  PROVE  DInv'
<1> USE DaemonFacts DEF DInv
<1>1. /\ phase' = [phase EXCEPT ![d] = "off"]
      /\ socket' = IF d = Service THEN [socket EXCEPT !["root"] = None] ELSE socket
      /\ calm' = FALSE
      /\ UNCHANGED <<user, tui, wronged>>
  BY DEF DA!Die
<1>2. DaemonTypes'
  BY <1>1 DEF DaemonTypes, Phases, Paths
<1>3. NamesLeadHome'
  BY <1>1 DEF NamesLeadHome, DaemonTypes, DA!Path, Paths
<1>4. ChildIsUnborn'
  BY <1>1 DEF ChildIsUnborn, DaemonTypes
<1>5. DA!QuitEndsItsDaemon'
  BY <1>1 DEF DA!QuitEndsItsDaemon
<1> QED
  BY <1>1, <1>2, <1>3, <1>4, <1>5

-----------------------------------------------------------------------------
(* What a step may make of a TUI's record. *)
LEMMA TuiMoves ==
  ASSUME NEW c \in TuiRecord, NEW place \in Places, NEW sock \in Paths,
         NEW seen \in SUBSET DA!Daemons
  PROVE  /\ [c EXCEPT !.at = place] \in TuiRecord
         /\ [c EXCEPT !.at = place, !.saw = seen] \in TuiRecord
         /\ [c EXCEPT !.at = place, !.mine = TRUE] \in TuiRecord
         /\ [c EXCEPT !.at = place, !.sock = sock, !.pool = seen] \in TuiRecord
         /\ [c EXCEPT !.pool = seen] \in TuiRecord
BY DEF TuiRecord

(* A TUI's steps; those before it has found a daemon change no daemon. *)
LEMMA EnsureStep ==
  ASSUME DInv, NEW t \in Tuis, NEW standalone \in BOOLEAN, DA!EnsureDaemon(t, standalone)
  PROVE  DInv'
<1> USE DaemonFacts DEF DInv
<1>1. /\ tui[t].at = "off"
      /\ UNCHANGED <<user, phase, socket, calm, wronged>>
  BY DEF DA!EnsureDaemon
<1>2. PICK place \in {"sync", "launch", "gone"} :
        /\ tui' = [tui EXCEPT ![t].at = place, ![t].saw = DA!Reachable(DA!ClientPath)]
        /\ place = "launch" => DA!Reachable(DA!ClientPath) = {}
  BY Refused DEF DA!EnsureDaemon
<1>3. DaemonTypes'
  BY <1>1, <1>2, TuiMoves DEF DaemonTypes, Places, DA!Reachable
<1>4. NamesLeadHome'
  BY <1>1 DEF NamesLeadHome, DA!Path
<1>5. ChildIsUnborn'
  BY <1>1, <1>2 DEF ChildIsUnborn, DaemonTypes
<1>6. calm' => NamesAreOwn'
  BY <1>1 DEF NamesAreOwn, DA!Path, DA!Alive, DA!Listening
<1>7. calm' => ChildIsAlone' /\ ClientHasChild' /\ wronged' = {}
  BY <1>1, <1>2 DEF ChildIsAlone, ClientHasChild, ChildIsUnborn, DaemonTypes, DA!Path, DA!Alive
<1>8. DA!QuitEndsItsDaemon'
  BY <1>1, <1>2 DEF DA!QuitEndsItsDaemon, DaemonTypes
<1> QED
  BY <1>3, <1>4, <1>5, <1>6, <1>7, <1>8

(* Whoever is calm and launches has seen nobody, so nobody else lives. *)
LEMMA LaunchStep ==
  ASSUME DInv, NEW t \in Tuis, DA!Launch(t)
  PROVE  DInv'
<1> USE DaemonFacts DEF DInv
<1>1. /\ tui[t].at = "launch" /\ tui[t].saw = {} /\ phase[Child[t]] = "off" /\ ~tui[t].mine
      /\ tui' = [tui EXCEPT ![t].at = "wait"]
      /\ phase' = [phase EXCEPT ![Child[t]] = "starting"]
      /\ UNCHANGED <<user, socket, wronged>>
      /\ calm' \in BOOLEAN
      /\ calm' => calm
      /\ calm' => \A e \in DA!Daemons \ tui[t].saw :
                    DA!Alive(e) => DA!Path(e) \notin {"root", DA!Path(Child[t])}
  BY DEF DA!Launch, DA!Move, ChildIsUnborn, DaemonTypes
<1>2. ASSUME calm' PROVE \A e \in DA!Daemons : ~DA!Alive(e)
  BY <1>1, <1>2 DEF DA!Path
<1>3. DaemonTypes'
  <2>1. phase' \in [DA!Daemons -> Phases]
    BY <1>1 DEF DaemonTypes, Phases
  <2>2. tui' \in [Tuis -> TuiRecord]
    BY <1>1, TuiMoves DEF DaemonTypes, Places
  <2> QED
    BY <1>1, <2>1, <2>2 DEF DaemonTypes
<1>4. NamesLeadHome'
  BY <1>1 DEF NamesLeadHome, DA!Path
<1>5. ChildIsUnborn'
  BY <1>1 DEF ChildIsUnborn, DaemonTypes
<1>6. calm' => NamesAreOwn'
  BY <1>1, <1>2 DEF NamesAreOwn, DaemonTypes, DA!Path, DA!Alive, DA!Listening
<1>7. calm' => ChildIsAlone' /\ ClientHasChild' /\ wronged' = {}
  BY <1>1, <1>2 DEF ChildIsAlone, ClientHasChild, DaemonTypes, DA!Path, DA!Alive
<1>8. DA!QuitEndsItsDaemon'
  BY <1>1 DEF DA!QuitEndsItsDaemon, DaemonTypes
<1> QED
  BY <1>3, <1>4, <1>5, <1>6, <1>7, <1>8

LEMMA ReadyStep ==
  ASSUME DInv, NEW t \in Tuis, DA!Ready(t)
  PROVE  DInv'
<1> USE DaemonFacts DEF DInv
<1>1. /\ tui[t].at = "wait"
      /\ tui' = [tui EXCEPT ![t].at = "sync", ![t].mine = TRUE]
      /\ UNCHANGED <<user, phase, socket, calm, wronged>>
  BY DEF DA!Ready
<1>2. DaemonTypes'
  BY <1>1, TuiMoves DEF DaemonTypes, Places
<1>3. NamesLeadHome'
  BY <1>1 DEF NamesLeadHome, DA!Path
<1>4. ChildIsUnborn'
  BY <1>1 DEF ChildIsUnborn, DaemonTypes
<1>5. calm' => NamesAreOwn'
  BY <1>1 DEF NamesAreOwn, DA!Path, DA!Alive, DA!Listening
<1>6. calm' => ChildIsAlone' /\ ClientHasChild' /\ wronged' = {}
  BY <1>1 DEF ChildIsAlone, ClientHasChild, DaemonTypes, DA!Path, DA!Alive
<1>7. DA!QuitEndsItsDaemon'
  BY <1>1 DEF DA!QuitEndsItsDaemon, DaemonTypes
<1> QED
  BY <1>2, <1>3, <1>4, <1>5, <1>6, <1>7

(* A TUI that has started a daemon is answered by that one. *)
LEMMA SyncStep ==
  ASSUME DInv, NEW t \in Tuis, DA!Sync(t)
  PROVE  DInv'
<1> USE DaemonFacts DEF DInv
<1> DEFINE d == socket[DA!ClientPath]
           runs == /\ DA!Probe("ok")
                   /\ tui' = [tui EXCEPT ![t].at = "running", ![t].sock = DA!ClientPath,
                                         ![t].pool = {d}]
           fails == tui' = [tui EXCEPT ![t].at = "gone"]
<1>1. /\ tui[t].at = "sync"
      /\ UNCHANGED <<user, phase, socket, calm, wronged>>
      /\ runs \/ fails
  BY DEF DA!Sync, DA!Move
<1>2. ASSUME runs PROVE /\ DA!ClientPath \in Paths
                        /\ d \in DA!Daemons /\ DA!Path(d) = DA!ClientPath
                        /\ phase[d] \in {"serving", "asked"}
  BY <1>2, ProbeIsAnswered DEF NamesLeadHome, DA!Answering
<1> HIDE DEF d
<1>3. ASSUME runs, calm, tui[t].mine PROVE d = Child[t]
  BY <1>1, <1>2, <1>3 DEF ChildIsAlone, DA!Alive
<1>4. DaemonTypes'
  <2>1. CASE runs
    <3>1. [tui[t] EXCEPT !.at = "running", !.sock = DA!ClientPath, !.pool = {d}] \in TuiRecord
      <4>1. DA!ClientPath \in Paths /\ {d} \in SUBSET DA!Daemons
        BY <1>2, <2>1
      <4>2. tui[t] \in TuiRecord /\ "running" \in Places
        BY DEF DaemonTypes, Places
      <4> QED
        BY <4>1, <4>2, TuiMoves
    <3> QED
      BY <1>1, <2>1, <3>1 DEF DaemonTypes
  <2>2. CASE fails
    BY <1>1, <2>2, TuiMoves DEF DaemonTypes, Places
  <2> QED
    BY <1>1, <2>1, <2>2
<1>5. NamesLeadHome'
  BY <1>1 DEF NamesLeadHome, DA!Path
<1>6. ChildIsUnborn'
  BY <1>1 DEF ChildIsUnborn, DaemonTypes, TuiRecord
<1>7. calm' => NamesAreOwn'
  BY <1>1 DEF NamesAreOwn, DA!Path, DA!Alive, DA!Listening
<1>8. calm' => ChildIsAlone'
  BY <1>1 DEF ChildIsAlone, DaemonTypes, TuiRecord, DA!Alive
<1>9. calm' => ClientHasChild'
  <2> SUFFICES ASSUME calm, NEW u \in Tuis, tui'[u].at = "running", tui'[u].mine
               PROVE  /\ phase[Child[u]] = "serving"
                      /\ tui'[u].sock = DA!Path(Child[u])
                      /\ tui'[u].pool \subseteq {Child[u]}
    BY <1>1 DEF ClientHasChild, DA!Path
  <2>1. CASE u # t
    BY <1>1, <2>1 DEF ClientHasChild, DaemonTypes, TuiRecord
  <2>2. CASE u = t
    BY <1>1, <1>2, <1>3, <2>2 DEF ChildIsAlone, DaemonTypes, TuiRecord
  <2> QED
    BY <2>1, <2>2
<1>10. DA!QuitEndsItsDaemon'
  BY <1>1 DEF DA!QuitEndsItsDaemon, DaemonTypes, TuiRecord
<1> QED
  BY <1>1, <1>4, <1>5, <1>6, <1>7, <1>8, <1>9, <1>10

(* A TUI that gives up or is killed leaves its daemon to itself. *)
LEMMA GoneStep ==
  ASSUME DInv, NEW t \in Tuis, DA!OutOfTime(t) \/ DA!Killed(t)
  PROVE  DInv'
<1> USE DaemonFacts DEF DInv
<1>1. /\ tui' = [tui EXCEPT ![t].at = "gone"]
      /\ UNCHANGED <<user, phase, socket, calm, wronged>>
  BY DEF DA!OutOfTime, DA!Killed, DA!Move
<1>2. DaemonTypes'
  BY <1>1, TuiMoves DEF DaemonTypes, Places
<1>3. NamesLeadHome'
  BY <1>1 DEF NamesLeadHome, DA!Path
<1>4. ChildIsUnborn'
  BY <1>1 DEF ChildIsUnborn, DaemonTypes, TuiRecord
<1>5. calm' => NamesAreOwn'
  BY <1>1 DEF NamesAreOwn, DA!Path, DA!Alive, DA!Listening
<1>6. calm' => ChildIsAlone' /\ ClientHasChild' /\ wronged' = {}
  BY <1>1 DEF ChildIsAlone, ClientHasChild, DaemonTypes, TuiRecord, DA!Path, DA!Alive
<1>7. DA!QuitEndsItsDaemon'
  BY <1>1 DEF DA!QuitEndsItsDaemon, DaemonTypes, TuiRecord
<1> QED
  BY <1>2, <1>3, <1>4, <1>5, <1>6, <1>7

(* A name that a client of the child dials anew still leads to the child. *)
LEMMA ConnectStep ==
  ASSUME DInv, NEW t \in Tuis, DA!Connect(t)
  PROVE  DInv'
<1> USE DaemonFacts DEF DInv
<1>1. /\ tui[t].at = "running"
      /\ UNCHANGED <<user, phase, socket, calm, wronged>>
  BY DEF DA!Connect
<1>2. PICK d \in DA!Reachable(tui[t].sock) :
        tui' = [tui EXCEPT ![t].pool = {c \in @ : DA!Answering(c)} \cup {d}]
  BY DEF DA!Connect
<1>3. tui[t] \in TuiRecord /\ d \in DA!Daemons /\ socket[tui[t].sock] = d
  BY DEF DaemonTypes, DA!Reachable
<1> DEFINE kept == {c \in tui[t].pool : DA!Answering(c)} \cup {d}
<1>4. kept \in SUBSET DA!Daemons /\ tui' = [tui EXCEPT ![t].pool = kept]
  BY <1>2, <1>3 DEF TuiRecord
<1>5. ASSUME calm, tui[t].mine PROVE kept \subseteq {Child[t]}
  BY <1>1, <1>3, <1>5 DEF ClientHasChild, NamesAreOwn, DA!Listening
<1> HIDE DEF kept
<1>6. DaemonTypes'
  <2>1. [tui[t] EXCEPT !.pool = kept] \in TuiRecord
    BY <1>3, <1>4, TuiMoves DEF Places, Paths
  <2> QED
    BY <1>1, <1>4, <2>1 DEF DaemonTypes
<1>7. NamesLeadHome'
  BY <1>1 DEF NamesLeadHome, DA!Path
<1>8. ChildIsUnborn'
  BY <1>1, <1>4 DEF ChildIsUnborn, DaemonTypes, TuiRecord
<1>9. calm' => NamesAreOwn'
  BY <1>1 DEF NamesAreOwn, DA!Path, DA!Alive, DA!Listening
<1>10. calm' => ChildIsAlone' /\ wronged' = {}
  BY <1>1, <1>4 DEF ChildIsAlone, DaemonTypes, TuiRecord, DA!Path, DA!Alive
<1>11. calm' => ClientHasChild'
  BY <1>1, <1>4, <1>5 DEF ClientHasChild, DaemonTypes, TuiRecord, DA!Path
<1>12. DA!QuitEndsItsDaemon'
  BY <1>1, <1>4 DEF DA!QuitEndsItsDaemon, DaemonTypes, TuiRecord
<1> QED
  BY <1>1, <1>6, <1>7, <1>8, <1>9, <1>10, <1>11, <1>12

(* A calm TUI that has started a daemon asks that one, and asks it. *)
LEMMA QuitStep ==
  ASSUME DInv, NEW t \in Tuis, DA!Quit(t)
  PROVE  DInv'
<1> USE DaemonFacts DEF DInv
<1> DEFINE open == {d \in tui[t].pool : DA!Answering(d)}
           targets == {d \in IF open = {} THEN DA!Reachable(tui[t].sock) ELSE open :
                         DA!Allowed(DA!Role(d), "root only")}
<1>1. /\ tui[t].at = "running"
      /\ tui' = [tui EXCEPT ![t].at = "left"]
      /\ UNCHANGED <<user, socket, calm>>
  BY DEF DA!Quit, DA!Move
<1>2. IF tui[t].mine /\ targets # {}
      THEN \E d \in targets :
             /\ phase' = [phase EXCEPT ![d] = "asked"]
             /\ wronged' = IF d = Child[t] THEN wronged ELSE wronged \cup {d}
      ELSE UNCHANGED <<phase, wronged>>
  BY DEF DA!Quit
<1>3. targets \subseteq {d \in DA!Daemons : phase[d] \in {"serving", "asked"}}
  BY DEF DaemonTypes, TuiRecord, DA!Reachable, DA!Answering
<1>4. ASSUME calm, tui[t].mine PROVE targets = {Child[t]}
  <2>1. /\ phase[Child[t]] = "serving" /\ tui[t].sock = DA!Path(Child[t])
        /\ tui[t].pool \subseteq {Child[t]}
        /\ socket[DA!Path(Child[t])] = Child[t]
    BY <1>1, <1>4 DEF ClientHasChild, NamesAreOwn, DA!Listening
  <2>2. DA!Allowed(DA!Role(Child[t]), "root only")
    BY DEF DA!Allowed, DA!Role
  <2>3. DA!Reachable(tui[t].sock) = {Child[t]}
    BY <2>1 DEF DA!Reachable, DA!Answering
  <2>4. open \subseteq {Child[t]}
    BY <2>1
  <2> HIDE DEF open
  <2>5. (IF open = {} THEN DA!Reachable(tui[t].sock) ELSE open) = {Child[t]}
    BY <2>3, <2>4
  <2> QED
    BY <2>2, <2>5
<1> HIDE DEF targets
<1>5. ASSUME calm, tui[t].mine
      PROVE  phase' = [phase EXCEPT ![Child[t]] = "asked"] /\ wronged' = wronged
  BY <1>2, <1>4, <1>5
<1>6. ASSUME calm, ~tui[t].mine PROVE UNCHANGED <<phase, wronged>>
  BY <1>2, <1>6
<1>7. phase' \in [DA!Daemons -> Phases] /\ wronged' \subseteq DA!Daemons
  BY <1>2, <1>3 DEF DaemonTypes, Phases
<1>8. \A d \in DA!Daemons : phase'[d] # phase[d] => phase[d] = "serving" /\ phase'[d] = "asked"
  BY <1>2, <1>3 DEF DaemonTypes
<1>9. DaemonTypes'
  BY <1>1, <1>7, TuiMoves DEF DaemonTypes, Places
<1>10. NamesLeadHome'
  BY <1>1 DEF NamesLeadHome, DA!Path
<1>11. ChildIsUnborn'
  BY <1>1, <1>8 DEF ChildIsUnborn, DaemonTypes, TuiRecord
<1>12. calm' => NamesAreOwn'
  BY <1>1, <1>8 DEF NamesAreOwn, DA!Path, DA!Alive, DA!Listening
<1>13. calm' => ChildIsAlone'
  BY <1>1, <1>5, <1>6 DEF ChildIsAlone, ClientHasChild, DaemonTypes, TuiRecord, DA!Alive
<1>14. calm' => ClientHasChild' /\ wronged' = {}
  BY <1>1, <1>5, <1>6 DEF ClientHasChild, DaemonTypes, TuiRecord, DA!Path
<1>15. DA!QuitEndsItsDaemon'
  BY <1>1, <1>5, <1>6, <1>8 DEF DA!QuitEndsItsDaemon, ChildIsUnborn, DaemonTypes, TuiRecord
<1> QED
  BY <1>9, <1>10, <1>11, <1>12, <1>13, <1>14, <1>15
-----------------------------------------------------------------------------
LEMMA DaemonInvariant == Spec => [](part = "daemon" => DInv)
<1>1. Init => (part = "daemon" => DInv)
  <2> SUFFICES ASSUME DA!Init PROVE DInv
    BY DEF Init
  <2>1. DaemonTypes
    BY DaemonFacts DEF DA!Init, DaemonTypes, TuiRecord, Places, Phases, Paths
  <2>2. NamesLeadHome /\ NamesAreOwn /\ wronged = {}
    BY DaemonFacts DEF DA!Init, NamesLeadHome, NamesAreOwn, Paths, DA!Alive, DA!Listening
  <2>3. ChildIsUnborn /\ ChildIsAlone /\ ClientHasChild /\ DA!QuitEndsItsDaemon
    BY DaemonFacts DEF DA!Init, ChildIsUnborn, ChildIsAlone, ClientHasChild, DA!QuitEndsItsDaemon
  <2> QED
    BY <2>1, <2>2, <2>3 DEF DInv
<1>2. (part = "daemon" => DInv) /\ [Next]_state => (part = "daemon" => DInv)'
  <2> SUFFICES ASSUME part = "daemon" => DInv, [Next]_state, part' = "daemon"
               PROVE  DInv'
    OBVIOUS
  <2>1. CASE UNCHANGED state
    <3>1. DInv /\ UNCHANGED <<user, phase, socket, tui, calm, wronged>>
      BY <2>1 DEF state
    <3> QED
      BY <3>1 DEF DInv, DaemonTypes, NamesLeadHome, ChildIsUnborn, NamesAreOwn,
         ChildIsAlone, ClientHasChild, DA!QuitEndsItsDaemon, DA!Path, DA!Alive, DA!Listening
  <2>2. CASE Next
    <3>1. DInv /\ DA!Next
      BY <2>2 DEF Next
    <3> QED
      BY <3>1, RunServerStep, RemoveSocketStep, ListenStep, ServeStep, StopStep, DieStep,
         EnsureStep, LaunchStep, ReadyStep, SyncStep, GoneStep, ConnectStep, QuitStep
      DEF DA!Next
  <2> QED
    BY <2>1, <2>2
<1> QED
  BY <1>1, <1>2, PTL DEF Spec

(* A TUI that ends shuts down no daemon but its own. *)
THEOREM QuitIsOfMine == Spec => []QuitSparesOthers
<1>1. (part = "daemon" => DInv) => QuitSparesOthers
  BY DEF QuitSparesOthers, DInv, DA!QuitSparesOthers
<1> QED
  BY <1>1, DaemonInvariant, PTL

(* And it shuts that one down. *)
THEOREM QuitsEndTheirDaemons == Spec => []QuitEndsItsDaemon
<1>1. (part = "daemon" => DInv) => QuitEndsItsDaemon
  BY DEF QuitEndsItsDaemon, DInv
<1> QED
  BY <1>1, DaemonInvariant, PTL
-----------------------------------------------------------------------------
(* Installation.  The variables by their names there. *)
binary == s1
unit == s2
loaded == s3
enabled == s4
groups == s5
service == s6
ready == s7
runs == s8
kernel == s9
env == s10
job == s11
past == s15

(* The steps of a job, the last one first, so that the n-th is the one that *)
(* n steps are left for.                                                    *)
Order(kind) ==
  IF kind = "script"
  THEN <<"restore", "start", "enable", "reload", "write", "truncate", "groups", "check",
         "snapshot", "binary", "check", "look">>
  ELSE IF kind = "install"
  THEN <<"restore", "start", "enable", "reload", "write", "truncate", "binary", "groups",
         "check", "snapshot">>
  ELSE <<"reload", "erase", "unlink", "disable", "clean", "check">>

Steps == {"look", "snapshot", "check", "groups", "binary", "truncate", "write", "reload",
          "enable", "start", "restore", "clean", "disable", "unlink", "erase"}

Left == Len(job.todo)

Working(kind) == job.kind = kind

Installing == Working("script") \/ Working("install")

JobType == [kind : {"none", "script", "install", "uninstall"}, todo : Seq(Steps),
            was : BOOLEAN, hinted : BOOLEAN]

PastType == [kernel : BOOLEAN, shell : BOOLEAN, quiet : BOOLEAN, dodged : BOOLEAN,
             warned : BOOLEAN, result : {"none", "script", "install", "uninstall"}]

InstallTypes ==
  /\ SI!TypeOK
  /\ enabled \in BOOLEAN /\ groups \in BOOLEAN /\ ready \in BOOLEAN /\ kernel \in BOOLEAN
  /\ runs \in {"none", "old", "new"}
  /\ job \in JobType /\ past \in PastType

OnPlan ==
  /\ job.kind = "none" => job = SI!NoJob
  /\ job.kind # "none" =>
       /\ past.result = "none"
       /\ Left <= Len(Order(job.kind))
       /\ \A n \in 1..Left : job.todo[Left + 1 - n] = Order(job.kind)[n]

EnabledHasUnit == enabled => unit # "none"

(* What an installation has put in place. *)
InPlaceSoFar ==
  /\ Installing /\ Left <= (IF Working("script") THEN 6 ELSE 7) => groups
  /\ (Working("script") /\ Left <= 9) \/ (Working("install") /\ Left <= 6) => binary = "new"
  /\ Installing /\ Left <= 4 => unit = "whole"
  /\ Installing /\ Left <= 3 => loaded = "whole"

(* The service once it has been stopped. *)
Stopped ==
  Installing /\ ~past.dodged =>
    /\ Left \in 2..(IF Working("script") THEN 10 ELSE 8) => service = "inactive"
    /\ Left <= 1 /\ past.quiet => service = "active" /\ runs = "new"

(* The kernel is as before, then it is stopped, then as before again, for   *)
(* what it was is remembered.                                               *)
KernelIsKept ==
  Installing /\ past.quiet =>
    LET looked == IF Working("script") THEN 11 ELSE 9 IN
    /\ Left <= looked => job.was = past.kernel
    /\ Left \in 1..(looked - 1) => ~kernel
    /\ Left = 0 \/ Left >= looked => kernel = past.kernel

HintOfScript == Working("script") /\ Left <= 11 => job.hinted

NoHintElsewhere == Working("install") => ~job.hinted

ShellIsKept == Installing => ("shell" \in env) = past.shell

(* What an uninstallation has taken away. *)
RemovedSoFar ==
  Working("uninstall") =>
    /\ Left <= 5 /\ ~past.dodged => service = "inactive"
    /\ Left <= 4 /\ ~past.dodged => past.warned \/ env = {}
    /\ Left <= 3 => ~enabled
    /\ Left <= 2 => unit = "none"
    /\ Left <= 1 => binary = "none"
    /\ Left = 0 => loaded = "none"

Ended ==
  /\ past.result \in {"script", "install"} => groups
  /\ SI!UpgradeIsTransparent
  /\ SI!UninstallIsComplete

IInv ==
  /\ InstallTypes /\ OnPlan /\ EnabledHasUnit
  /\ InPlaceSoFar /\ Stopped /\ KernelIsKept /\ HintOfScript /\ NoHintElsewhere
  /\ ShellIsKept /\ RemovedSoFar /\ Ended

USE DEF binary, unit, loaded, enabled, groups, service, ready, runs, kernel, env, job, past
-----------------------------------------------------------------------------
LEMMA LeftIsNatural ==
  ASSUME InstallTypes PROVE Left \in Nat
BY DEF InstallTypes, JobType, Left

(* Where a job is when a step comes next. *)
LEMMA Position ==
  ASSUME InstallTypes, OnPlan, NEW step, SI!Now(step)
  PROVE  /\ job.kind \in {"script", "install", "uninstall"}
         /\ Left \in 1..Len(Order(job.kind))
         /\ step = Order(job.kind)[Left]
<1>1. job.todo \in Seq(Steps) /\ job.todo # <<>> /\ job.todo[1] = step
  BY DEF SI!Now, InstallTypes, JobType
<1>2. Left \in Nat \ {0}
  BY <1>1 DEF Left
<1>3. job.kind # "none"
  BY <1>1 DEF OnPlan, SI!NoJob
<1>4. Left <= Len(Order(job.kind)) /\ job.todo[Left + 1 - Left] = Order(job.kind)[Left]
  BY <1>2, <1>3 DEF OnPlan
<1>5. Len(Order(job.kind)) \in Nat
  BY DEF Order
<1> QED
  BY <1>1, <1>2, <1>3, <1>4, <1>5 DEF InstallTypes, JobType

LEMMA Where ==
  ASSUME InstallTypes, OnPlan, NEW step, SI!Now(step)
  PROVE  LET At(kind, n) == Working(kind) /\ Left = n
             Tail2(n) == Installing /\ Left = n
         IN /\ step = "look" => At("script", 12)
            /\ step = "check" => \/ At("script", 8) \/ At("script", 11)
                                 \/ At("install", 9) \/ At("uninstall", 6)
            /\ step = "snapshot" => At("script", 9) \/ At("install", 10)
            /\ step = "groups" => At("script", 7) \/ At("install", 8)
            /\ step = "binary" => At("script", 10) \/ At("install", 7)
            /\ step = "truncate" => Tail2(6)
            /\ step = "write" => Tail2(5)
            /\ step = "reload" => Tail2(4) \/ At("uninstall", 1)
            /\ step = "enable" => Tail2(3)
            /\ step = "start" => Tail2(2)
            /\ step = "restore" => Tail2(1)
            /\ step = "clean" => At("uninstall", 5)
            /\ step = "disable" => At("uninstall", 4)
            /\ step = "unlink" => At("uninstall", 3)
            /\ step = "erase" => At("uninstall", 2)
<1>1. CASE Working("script")
  <2>1. Left \in 1..12 /\ step = Order("script")[Left]
    BY Position, <1>1 DEF Working, Order
  <2> QED
    BY <2>1, <1>1 DEF Order, Working, Installing
<1>2. CASE Working("install")
  <2>1. Left \in 1..10 /\ step = Order("install")[Left]
    BY Position, <1>2 DEF Working, Order
  <2> QED
    BY <2>1, <1>2 DEF Order, Working, Installing
<1>3. CASE Working("uninstall")
  <2>1. Left \in 1..6 /\ step = Order("uninstall")[Left]
    BY Position, <1>3 DEF Working, Order
  <2> QED
    BY <2>1, <1>3 DEF Order, Working, Installing
<1> QED
  BY Position, <1>1, <1>2, <1>3 DEF Working

LEMMA TailFacts ==
  ASSUME NEW todo \in Seq(Steps), todo # <<>>
  PROVE  /\ Len(todo) \in Nat \ {0} /\ Tail(todo) \in Seq(Steps)
         /\ Len(Tail(todo)) = Len(todo) - 1
         /\ \A i \in 1..(Len(todo) - 1) : Tail(todo)[i] = todo[i + 1]
OBVIOUS

(* A step done is one less to do. *)
LEMMA OneLess ==
  ASSUME InstallTypes, OnPlan, NEW step, SI!Now(step),
         job'.kind = job.kind, job'.todo = Tail(job.todo), past'.result = past.result
  PROVE  /\ OnPlan'
         /\ Left' = Left - 1
         /\ job'.todo \in Seq(Steps)
<1>1. job.todo \in Seq(Steps) /\ job.todo # <<>>
  BY DEF SI!Now, InstallTypes, JobType
<1>2. /\ Left' = Left - 1 /\ Left \in Nat /\ Left' \in Nat
      /\ job'.todo \in Seq(Steps)
      /\ \A i \in 1..Left' : job'.todo[i] = job.todo[i + 1]
  <2> DEFINE todo == job.todo
  <2>1. Left = Len(todo) /\ Left' = Len(Tail(todo)) /\ job'.todo = Tail(todo)
    BY DEF Left
  <2>2. todo \in Seq(Steps) /\ todo # <<>>
    BY <1>1
  <2> HIDE DEF todo
  <2>3. /\ Left' = Left - 1 /\ Left \in Nat \ {0} /\ job'.todo \in Seq(Steps)
        /\ \A i \in 1..Left' : job'.todo[i] = todo[i + 1]
    BY <2>1, <2>2, TailFacts
  <2>4. Left \in Nat /\ Left' \in Nat
    BY <2>3
  <2> QED
    BY <2>3, <2>4, Zenon DEF todo
<1>3. job.kind # "none" /\ Len(Order(job.kind)) \in Nat
  BY Position
<1>4. ASSUME NEW n \in 1..Left'
      PROVE  job'.todo[Left' + 1 - n] = Order(job'.kind)[n]
  <2>1. Left' + 1 - n \in 1..Left' /\ n \in 1..Left
    BY <1>2
  <2>2. job'.todo[Left' + 1 - n] = job.todo[Left' + 1 - n + 1]
    BY <1>2, <2>1
  <2>3. Left' + 1 - n + 1 = Left + 1 - n
    BY <1>2
  <2> QED
    BY <1>3, <2>1, <2>2, <2>3 DEF OnPlan
<1>5. Left' <= Len(Order(job'.kind)) /\ past'.result = "none"
  BY <1>2, <1>3, Position DEF OnPlan
<1> QED
  BY <1>2, <1>3, <1>4, <1>5 DEF OnPlan

-----------------------------------------------------------------------------
(* What happens beside a job.  The kernel goes only with its daemon, and a  *)
(* daemon that ends for want of its groups has had no kernel.               *)
LEMMA BecomeReadyStep ==
  ASSUME IInv, SI!BecomeReady
  PROVE  IInv'
<1> USE DEF IInv
<1>1. /\ service = "active" /\ ~ready /\ ~kernel
      /\ \/ groups /\ ready' = TRUE /\ UNCHANGED <<service, runs, kernel>>
         \/ /\ ~groups /\ service' = "waiting"
            /\ ready' = FALSE /\ kernel' = FALSE /\ runs' = "none"
      /\ UNCHANGED <<binary, unit, loaded, enabled, groups, env, job, past>>
  BY DEF SI!BecomeReady, SI!Gone, InstallTypes, SI!TypeOK
<1>2. Left' = Left /\ Working("script")' = Working("script")
      /\ Working("install")' = Working("install") /\ Working("uninstall")' = Working("uninstall")
      /\ Installing' = Installing
  BY <1>1 DEF Left, Working, Installing
<1>3. InstallTypes'
  BY <1>1 DEF InstallTypes, SI!TypeOK
<1>0. kernel' = kernel
  BY <1>1, <1>3 DEF InstallTypes
<1>4. OnPlan' /\ EnabledHasUnit' /\ HintOfScript' /\ NoHintElsewhere' /\ ShellIsKept'
  BY <1>1, <1>2 DEF OnPlan, EnabledHasUnit, HintOfScript, NoHintElsewhere, ShellIsKept
<1>5. InPlaceSoFar' /\ RemovedSoFar'
  BY <1>1, <1>2 DEF InPlaceSoFar, RemovedSoFar
<1>6. KernelIsKept'
  BY <1>0, <1>1, <1>2 DEF KernelIsKept
<1>7. Stopped'
  <2>1. CASE groups
    BY <1>1, <1>2, <2>1 DEF Stopped
  <2>2. CASE ~groups
    <3>1. Installing => ~(Left <= 1)
      BY <2>2, LeftIsNatural DEF InPlaceSoFar
    <3>2. Installing /\ ~past.dodged =>
            Left \notin 2..(IF Working("script") THEN 10 ELSE 8)
      BY <1>1 DEF Stopped
    <3> QED
      BY <1>1, <1>2, <3>1, <3>2 DEF Stopped
  <2> QED
    BY <2>1, <2>2
<1>8. Ended'
  BY <1>1 DEF Ended, SI!UpgradeIsTransparent, SI!UninstallIsComplete
<1> QED
  BY <1>3, <1>4, <1>5, <1>6, <1>7, <1>8

(* The daemon dies: it was in use of the service, so a job that goes on is  *)
(* no longer undisturbed.                                                   *)
LEMMA DaemonDiesStep ==
  ASSUME IInv, SI!DaemonDies
  PROVE  IInv'
<1> USE DEF IInv
<1>1. /\ service = "active" /\ service' = "waiting"
      /\ ready' = FALSE /\ kernel' = FALSE /\ runs' = "none"
      /\ past' = [past EXCEPT !.quiet = FALSE]
      /\ UNCHANGED <<binary, unit, loaded, enabled, groups, env, job>>
  BY DEF SI!DaemonDies, SI!Gone
<1>2. /\ past' \in PastType /\ ~past'.quiet /\ past'.warned = past.warned
      /\ past'.shell = past.shell /\ past'.dodged = past.dodged /\ past'.result = past.result
  BY <1>1 DEF InstallTypes, PastType
<1>3. Left' = Left /\ Working("script")' = Working("script")
      /\ Working("install")' = Working("install") /\ Working("uninstall")' = Working("uninstall")
      /\ Installing' = Installing
  BY <1>1 DEF Left, Working, Installing
<1>4. InstallTypes'
  BY <1>1, <1>2 DEF InstallTypes, SI!TypeOK
<1>5. OnPlan' /\ EnabledHasUnit' /\ HintOfScript' /\ NoHintElsewhere' /\ ShellIsKept'
  BY <1>1, <1>2, <1>3 DEF OnPlan, EnabledHasUnit, HintOfScript, NoHintElsewhere, ShellIsKept
<1>6. InPlaceSoFar' /\ KernelIsKept'
  BY <1>1, <1>2, <1>3 DEF InPlaceSoFar, KernelIsKept
<1>7. Stopped'
  <2>1. Installing /\ ~past.dodged => Left \notin 2..(IF Working("script") THEN 10 ELSE 8)
    BY <1>1 DEF Stopped
  <2> QED
    BY <1>2, <1>3, <2>1 DEF Stopped
<1>8. RemovedSoFar'
  <2>1. Working("uninstall") /\ ~past.dodged => ~(Left <= 5)
    BY <1>1 DEF RemovedSoFar
  <2>2. Working("uninstall") /\ ~past.dodged => ~(Left <= 4)
    BY <2>1, LeftIsNatural
  <2> QED
    BY <1>1, <1>2, <1>3, <2>1, <2>2 DEF RemovedSoFar
<1>9. Ended'
  BY <1>1, <1>2 DEF Ended, SI!UpgradeIsTransparent, SI!UninstallIsComplete
<1> QED
  BY <1>4, <1>5, <1>6, <1>7, <1>8, <1>9

(* systemd starts it again: a service that waits is no service that a job   *)
(* has stopped.                                                             *)
LEMMA RestartStep ==
  ASSUME IInv, SI!Restart
  PROVE  IInv'
<1> USE DEF IInv
<1>1. /\ service = "waiting" /\ service' \in {"active", "inactive"}
      /\ runs' = IF service' = "active" THEN binary ELSE "none"
      /\ service' = "active" => binary # "none"
      /\ ~ready
      /\ UNCHANGED <<binary, unit, loaded, enabled, groups, ready, kernel, env, job, past>>
  BY DEF SI!Restart, SI!Started, InstallTypes, SI!TypeOK
<1>2. Left' = Left /\ Working("script")' = Working("script")
      /\ Working("install")' = Working("install") /\ Working("uninstall")' = Working("uninstall")
      /\ Installing' = Installing
  BY <1>1 DEF Left, Working, Installing
<1>3. InstallTypes'
  BY <1>1 DEF InstallTypes, SI!TypeOK
<1>4. OnPlan' /\ EnabledHasUnit' /\ HintOfScript' /\ NoHintElsewhere' /\ ShellIsKept'
  BY <1>1, <1>2 DEF OnPlan, EnabledHasUnit, HintOfScript, NoHintElsewhere, ShellIsKept
<1>0. kernel' = kernel
  BY <1>1
<1>5. InPlaceSoFar' /\ KernelIsKept'
  BY <1>0, <1>1, <1>2 DEF InPlaceSoFar, KernelIsKept
<1>6. Stopped'
  <2>1. Installing /\ ~past.dodged =>
          /\ Left \notin 2..(IF Working("script") THEN 10 ELSE 8)
          /\ Left <= 1 => ~past.quiet
    BY <1>1 DEF Stopped
  <2> QED
    BY <1>1, <1>2, <2>1 DEF Stopped
<1>7. RemovedSoFar'
  <2>1. Working("uninstall") /\ ~past.dodged => ~(Left <= 5)
    BY <1>1 DEF RemovedSoFar
  <2> QED
    BY <1>1, <1>2, <2>1 DEF RemovedSoFar
<1>8. Ended'
  <2>1. past.result \in {"script", "install"} /\ past.quiet => past.dodged
    BY <1>1 DEF Ended, SI!UpgradeIsTransparent
  <2>2. past.result = "uninstall" => past.dodged
    BY <1>1 DEF Ended, SI!UninstallIsComplete
  <2>3. past.result \in {"script", "install"} => groups
    BY DEF Ended
  <2>4. past.result \in {"script", "install"} /\ past.quiet =>
          kernel' = past.kernel /\ ("shell" \in env) = past.shell
    BY <1>0 DEF Ended, SI!UpgradeIsTransparent
  <2>5. SI!UpgradeIsTransparent'
    BY <1>1, <2>1, <2>4 DEF SI!UpgradeIsTransparent
  <2>6. SI!UninstallIsComplete'
    BY <1>1, <2>2 DEF SI!UninstallIsComplete
  <2> QED
    BY <1>1, <2>3, <2>5, <2>6 DEF Ended
<1> QED
  BY <1>3, <1>4, <1>5, <1>6, <1>7, <1>8

(* Somebody else uses the kernel: the daemon answers, so its service is     *)
(* active, and no uninstallation has got that far.                          *)
LEMMA UseKernelStep ==
  ASSUME IInv, SI!UseKernel
  PROVE  IInv'
<1> USE DEF IInv
<1>1. /\ ready /\ service = "active"
      /\ kernel' = ~kernel
      /\ env' = env \ {"tun"} \/ env' = env \cup {"tun"}
      /\ past' = [past EXCEPT !.quiet = FALSE]
      /\ UNCHANGED <<binary, unit, loaded, enabled, groups, service, ready, runs, job>>
  BY DEF SI!UseKernel, InstallTypes, SI!TypeOK
<1>2. /\ past' \in PastType /\ ~past'.quiet /\ past'.warned = past.warned
      /\ past'.shell = past.shell /\ past'.dodged = past.dodged /\ past'.result = past.result
  BY <1>1 DEF InstallTypes, PastType
<1>3. Left' = Left /\ Working("script")' = Working("script")
      /\ Working("install")' = Working("install") /\ Working("uninstall")' = Working("uninstall")
      /\ Installing' = Installing
  BY <1>1 DEF Left, Working, Installing
<1>4. InstallTypes'
  BY <1>1, <1>2 DEF InstallTypes, SI!TypeOK
<1>5. OnPlan' /\ EnabledHasUnit' /\ HintOfScript' /\ NoHintElsewhere'
  BY <1>1, <1>2, <1>3 DEF OnPlan, EnabledHasUnit, HintOfScript, NoHintElsewhere
<1>0. ShellIsKept'
  <2>1. ("shell" \in env') = ("shell" \in env)
    BY <1>1
  <2> QED
    BY <1>2, <1>3, <2>1 DEF ShellIsKept
<1>6. InPlaceSoFar' /\ KernelIsKept'
  BY <1>1, <1>2, <1>3 DEF InPlaceSoFar, KernelIsKept
<1>7. Stopped'
  BY <1>1, <1>2, <1>3 DEF Stopped
<1>8. RemovedSoFar'
  <2>1. Working("uninstall") /\ ~past.dodged => ~(Left <= 5)
    BY <1>1 DEF RemovedSoFar
  <2>2. Working("uninstall") /\ ~past.dodged => ~(Left <= 4)
    BY <2>1, LeftIsNatural
  <2> QED
    BY <1>1, <1>2, <1>3, <2>1, <2>2 DEF RemovedSoFar
<1>9. Ended'
  BY <1>1, <1>2 DEF Ended, SI!UpgradeIsTransparent, SI!UninstallIsComplete
<1> QED
  BY <1>0, <1>4, <1>5, <1>6, <1>7, <1>8, <1>9

-----------------------------------------------------------------------------
(* A job begins: its plan is Order, the other way round.                    *)
LEMMA PlanIsOrder ==
  ASSUME NEW kind \in {"script", "install", "uninstall"}
  PROVE  /\ SI!Plan(kind) \in Seq(Steps)
         /\ Len(SI!Plan(kind)) = Len(Order(kind))
         /\ Len(Order(kind)) = IF kind = "script" THEN 12 ELSE IF kind = "install" THEN 10 ELSE 6
         /\ \A n \in 1..Len(Order(kind)) :
              SI!Plan(kind)[Len(Order(kind)) + 1 - n] = Order(kind)[n]
<1>1. CASE kind = "script"
  <2>1. SI!Plan(kind) = SI!Script
    BY <1>1 DEF SI!Plan
  <2>2. SI!Script \in Seq(Steps) /\ Len(SI!Script) = 12 /\ Len(Order(kind)) = 12
    BY <1>1 DEF SI!Script, Steps, Order
  <2>3. ASSUME NEW n \in 1..12 PROVE SI!Script[13 - n] = Order(kind)[n]
    BY <1>1 DEF SI!Script, Order
  <2>4. ASSUME NEW n \in 1..Len(Order(kind))
        PROVE  SI!Plan(kind)[Len(Order(kind)) + 1 - n] = Order(kind)[n]
    <3>1. n \in 1..12 /\ Len(Order(kind)) + 1 - n = 13 - n
      BY <2>2
    <3> QED
      BY <2>1, <2>3, <3>1
  <2>5. Len(Order(kind)) = IF kind = "script" THEN 12 ELSE IF kind = "install" THEN 10 ELSE 6
    BY <1>1, <2>2
  <2> QED
    BY <2>1, <2>2, <2>4, <2>5
<1>2. CASE kind = "install"
  <2>1. SI!Plan(kind) = SI!Install
    BY <1>2 DEF SI!Plan
  <2>2. SI!Install \in Seq(Steps) /\ Len(SI!Install) = 10 /\ Len(Order(kind)) = 10
    BY <1>2 DEF SI!Install, Steps, Order
  <2>3. ASSUME NEW n \in 1..10 PROVE SI!Install[11 - n] = Order(kind)[n]
    BY <1>2 DEF SI!Install, Order
  <2>4. ASSUME NEW n \in 1..Len(Order(kind))
        PROVE  SI!Plan(kind)[Len(Order(kind)) + 1 - n] = Order(kind)[n]
    <3>1. n \in 1..10 /\ Len(Order(kind)) + 1 - n = 11 - n
      BY <2>2
    <3> QED
      BY <2>1, <2>3, <3>1
  <2>5. Len(Order(kind)) = IF kind = "script" THEN 12 ELSE IF kind = "install" THEN 10 ELSE 6
    BY <1>2, <2>2
  <2> QED
    BY <2>1, <2>2, <2>4, <2>5
<1>3. CASE kind = "uninstall"
  <2>1. SI!Plan(kind) = SI!Uninstall
    BY <1>3 DEF SI!Plan
  <2>2. SI!Uninstall \in Seq(Steps) /\ Len(SI!Uninstall) = 6 /\ Len(Order(kind)) = 6
    BY <1>3 DEF SI!Uninstall, Steps, Order
  <2>3. ASSUME NEW n \in 1..6 PROVE SI!Uninstall[7 - n] = Order(kind)[n]
    BY <1>3 DEF SI!Uninstall, Order
  <2>4. ASSUME NEW n \in 1..Len(Order(kind))
        PROVE  SI!Plan(kind)[Len(Order(kind)) + 1 - n] = Order(kind)[n]
    <3>1. n \in 1..6 /\ Len(Order(kind)) + 1 - n = 7 - n
      BY <2>2
    <3> QED
      BY <2>1, <2>3, <3>1
  <2>5. Len(Order(kind)) = IF kind = "script" THEN 12 ELSE IF kind = "install" THEN 10 ELSE 6
    BY <1>3, <2>2
  <2> QED
    BY <2>1, <2>2, <2>4, <2>5
<1> QED
  BY <1>1, <1>2, <1>3

LEMMA BeginStep ==
  ASSUME IInv, NEW kind \in {"script", "install", "uninstall"}, SI!Begin(kind)
  PROVE  IInv'
<1> USE DEF IInv
<1> DEFINE plan == SI!Plan(kind)
           size == Len(Order(kind))
<1>1. /\ job = SI!NoJob
      /\ job' = [SI!NoJob EXCEPT !.kind = kind, !.todo = plan]
      /\ past' = [kernel |-> kernel, shell |-> "shell" \in env, quiet |-> TRUE,
                  dodged |-> FALSE, warned |-> FALSE, result |-> "none"]
      /\ UNCHANGED <<binary, unit, loaded, enabled, groups, service, ready, runs, kernel, env>>
  BY DEF SI!Begin, SI!system
<1>2. /\ plan \in Seq(Steps) /\ Len(plan) = size
      /\ size = IF kind = "script" THEN 12 ELSE IF kind = "install" THEN 10 ELSE 6
      /\ \A n \in 1..size : plan[size + 1 - n] = Order(kind)[n]
  BY PlanIsOrder
<1> HIDE DEF plan
<1>3. /\ job'.kind = kind /\ job'.todo = plan /\ ~job'.hinted /\ job' \in JobType
  BY <1>1, <1>2 DEF SI!NoJob, JobType
<1>4. /\ past'.kernel = kernel /\ past'.shell = ("shell" \in env) /\ past'.result = "none"
      /\ past' \in PastType
  BY <1>1 DEF PastType, InstallTypes
<1>5. Left' = size
  BY <1>2, <1>3 DEF Left
<1>6. /\ Working("script")' <=> kind = "script"
      /\ Working("install")' <=> kind = "install"
      /\ Working("uninstall")' <=> kind = "uninstall"
  BY <1>3 DEF Working
<1>0. Installing' <=> kind \in {"script", "install"}
  BY <1>6 DEF Installing
<1>7. InstallTypes'
  BY <1>1, <1>3, <1>4 DEF InstallTypes, SI!TypeOK
<1>8. OnPlan'
  BY <1>2, <1>3, <1>4, <1>5 DEF OnPlan
<1>9. EnabledHasUnit'
  BY <1>1 DEF EnabledHasUnit
<1>10. InPlaceSoFar' /\ Stopped' /\ RemovedSoFar' /\ HintOfScript' /\ NoHintElsewhere'
  BY <1>0, <1>2, <1>3, <1>5, <1>6
  DEF InPlaceSoFar, Stopped, RemovedSoFar, HintOfScript, NoHintElsewhere
<1>11. KernelIsKept'
  <2>1. kernel' = past'.kernel
    BY <1>1, <1>4
  <2> QED
    BY <1>0, <1>2, <1>5, <1>6, <2>1 DEF KernelIsKept
<1>12. ShellIsKept'
  BY <1>1, <1>4 DEF ShellIsKept
<1>13. Ended'
  BY <1>4 DEF Ended, SI!UpgradeIsTransparent, SI!UninstallIsComplete
<1> QED
  BY <1>7, <1>8, <1>9, <1>10, <1>11, <1>12, <1>13

(* What a step that is done leaves as it was. *)
LEMMA DoneFacts ==
  ASSUME IInv, NEW step, SI!Now(step), SI!Done, past'.result = past.result
  PROVE  /\ OnPlan' /\ Ended'
         /\ Left \in Nat /\ Left' \in Nat /\ Left' = Left - 1
         /\ job' \in JobType /\ job'.was = job.was /\ job'.hinted = job.hinted
         /\ Working("script")' = Working("script") /\ Working("install")' = Working("install")
         /\ Working("uninstall")' = Working("uninstall") /\ Installing' = Installing
         /\ step # "look" => HintOfScript'
         /\ NoHintElsewhere'
<1> USE DEF IInv
<1>1. /\ job'.kind = job.kind /\ job'.todo = Tail(job.todo)
      /\ job'.was = job.was /\ job'.hinted = job.hinted
  BY DEF SI!Done, InstallTypes, JobType
<1>2. OnPlan' /\ Left' = Left - 1 /\ job'.todo \in Seq(Steps)
  BY <1>1, OneLess
<1>3. job' \in JobType
  BY <1>1, <1>2 DEF SI!Done, InstallTypes, JobType
<1>4. Left \in Nat \ {0} /\ Left' \in Nat
  <2>1. Left \in Nat \ {0}
    BY Position DEF Order
  <2>2. Left - 1 \in Nat
    BY <2>1
  <2> QED
    BY <1>2, <2>1, <2>2
<1>5. /\ Working("script")' = Working("script") /\ Working("install")' = Working("install")
      /\ Working("uninstall")' = Working("uninstall") /\ Installing' = Installing
  BY <1>1 DEF Working, Installing
<1>6. past'.result = "none"
  <2>1. job.kind # "none"
    BY Position
  <2> QED
    BY <2>1 DEF OnPlan
<1>7. Ended'
  BY <1>6 DEF Ended, SI!UpgradeIsTransparent, SI!UninstallIsComplete
<1>8. step # "look" => HintOfScript'
  <2>1. Working("script") => Left <= 12 /\ (Left = 12 => step = "look")
    BY Position DEF Order, Working
  <2> QED
    BY <1>1, <1>2, <1>4, <1>5, <2>1 DEF HintOfScript
<1>9. NoHintElsewhere'
  BY <1>1, <1>5 DEF NoHintElsewhere
<1> QED
  BY <1>1, <1>2, <1>3, <1>4, <1>5, <1>7, <1>8, <1>9

-----------------------------------------------------------------------------
(* What a step without a fault touches of the past: nothing, or whether it  *)
(* came upon a service that waits.                                          *)
LEMMA LookStep ==
  ASSUME IInv, SI!Look
  PROVE  IInv'
<1> USE DEF IInv
<1>1. PICK answer \in {SI!Probe, FALSE} :
        /\ \/ answer = SI!Probe /\ UNCHANGED past
           \/ past' = [past EXCEPT !.quiet = FALSE]
        /\ job' = [job EXCEPT !.todo = Tail(@), !.hinted = TRUE,
                              !.was = service = "active" /\ answer]
  BY DEF SI!Look
<1>2. UNCHANGED <<binary, unit, loaded, enabled, groups, service, ready, runs, kernel, env>>
  BY DEF SI!Look, SI!system
<1>3. Working("script") /\ Left = 12
  BY Where DEF SI!Look
<1>4. /\ job'.kind = job.kind /\ job'.todo = Tail(job.todo) /\ job'.hinted
      /\ job'.was = (service = "active" /\ answer)
  BY <1>1 DEF InstallTypes, JobType
<1>5. /\ past' \in PastType /\ past'.result = past.result /\ past'.dodged = past.dodged
      /\ past'.shell = past.shell /\ past'.kernel = past.kernel /\ past'.warned = past.warned
      /\ past'.quiet => past.quiet /\ answer = SI!Probe
  BY <1>1 DEF InstallTypes, PastType
<1>6. OnPlan' /\ Left' = 11 /\ job'.todo \in Seq(Steps)
  BY <1>3, <1>4, <1>5, OneLess DEF SI!Look
<1>7. job' \in JobType
  BY <1>1, <1>6 DEF InstallTypes, JobType
<1>8. Working("script")' /\ ~Working("install")' /\ ~Working("uninstall")' /\ Installing'
      /\ Installing
  BY <1>3, <1>4 DEF Working, Installing
<1>9. InstallTypes'
  BY <1>2, <1>5, <1>7 DEF InstallTypes, SI!TypeOK
<1>10. EnabledHasUnit' /\ HintOfScript' /\ NoHintElsewhere'
  BY <1>2, <1>4, <1>8 DEF EnabledHasUnit, HintOfScript, NoHintElsewhere
<1>11. InPlaceSoFar' /\ Stopped' /\ RemovedSoFar'
  BY <1>6, <1>8 DEF InPlaceSoFar, Stopped, RemovedSoFar
<1>12. KernelIsKept'
  <2>1. past.quiet => kernel = past.kernel
    BY <1>3, <1>8 DEF KernelIsKept
  <2>2. SI!Probe <=> kernel
    BY DEF SI!Probe, InstallTypes, SI!TypeOK
  <2>3. kernel => service = "active"
    BY DEF InstallTypes, SI!TypeOK
  <2>4. past'.quiet => job'.was = kernel
    BY <1>4, <1>5, <2>2, <2>3 DEF InstallTypes
  <2>5. past'.quiet => job'.was = past'.kernel /\ kernel' = past'.kernel
    BY <1>2, <1>5, <2>1, <2>4
  <2> QED
    BY <1>6, <1>8, <2>5 DEF KernelIsKept
<1>13. ShellIsKept'
  BY <1>2, <1>5, <1>8 DEF ShellIsKept
<1>14. Ended'
  <2>1. past'.result = "none"
    BY <1>3, <1>5 DEF OnPlan, Working
  <2> QED
    BY <2>1 DEF Ended, SI!UpgradeIsTransparent, SI!UninstallIsComplete
<1> QED
  BY <1>6, <1>9, <1>10, <1>11, <1>12, <1>13, <1>14

LEMMA SnapshotStep ==
  ASSUME IInv, SI!Snapshot
  PROVE  IInv'
<1> USE DEF IInv
<1>1. /\ job' = [job EXCEPT !.todo = Tail(@), !.was = IF job.hinted THEN @ ELSE SI!Probe]
      /\ UNCHANGED <<binary, unit, loaded, enabled, groups, service, ready, runs, kernel, env,
                     past>>
  BY DEF SI!Snapshot, SI!system
<1>2. \/ Working("script") /\ ~Working("install") /\ Left = 9
      \/ Working("install") /\ ~Working("script") /\ Left = 10
  BY Where DEF SI!Snapshot, Working
<1>3. /\ job'.kind = job.kind /\ job'.todo = Tail(job.todo) /\ job'.hinted = job.hinted
      /\ job'.was = IF job.hinted THEN job.was ELSE SI!Probe
  BY <1>1 DEF InstallTypes, JobType
<1>4. OnPlan' /\ Left' = Left - 1 /\ job'.todo \in Seq(Steps)
  BY <1>1, <1>3, OneLess DEF SI!Snapshot
<1>5. job' \in JobType
  BY <1>1, <1>3, <1>4 DEF InstallTypes, JobType, SI!Probe
<1>6. /\ Working("script")' = Working("script") /\ Working("install")' = Working("install")
      /\ Working("uninstall")' = Working("uninstall") /\ Installing' = Installing
      /\ Installing /\ ~Working("uninstall")
  BY <1>2, <1>3 DEF Working, Installing
<1>7. InstallTypes'
  BY <1>1, <1>5 DEF InstallTypes, SI!TypeOK
<1>8. EnabledHasUnit' /\ HintOfScript' /\ NoHintElsewhere' /\ ShellIsKept'
  BY <1>1, <1>2, <1>3, <1>6 DEF EnabledHasUnit, HintOfScript, NoHintElsewhere, ShellIsKept
<1>9. InPlaceSoFar'
  BY <1>1, <1>2, <1>4, <1>6 DEF InPlaceSoFar
<1>10. Stopped'
  BY <1>1, <1>2, <1>4, <1>6 DEF Stopped
<1>11. RemovedSoFar'
  BY <1>6 DEF RemovedSoFar
<1>12. KernelIsKept'
  <2>1. SUFFICES ASSUME past.quiet PROVE KernelIsKept'
    BY <1>1 DEF KernelIsKept
  <2>2. kernel' = kernel /\ past'.kernel = past.kernel
    BY <1>1
  <2>3. CASE Working("script") /\ Left = 9
    <3>1. job.was = past.kernel /\ ~kernel /\ job.hinted
      BY <1>6, <2>1, <2>3 DEF KernelIsKept, HintOfScript
    <3>2. Left' = 8 /\ job'.was = past'.kernel /\ ~kernel'
      BY <1>3, <1>4, <2>2, <2>3, <3>1
    <3> QED
      BY <1>6, <2>3, <3>2 DEF KernelIsKept
  <2>4. CASE Working("install") /\ ~Working("script") /\ Left = 10
    <3>1. kernel = past.kernel /\ ~job.hinted
      BY <1>6, <2>1, <2>4 DEF KernelIsKept, NoHintElsewhere
    <3>2. SI!Probe <=> kernel
      BY DEF SI!Probe, InstallTypes, SI!TypeOK
    <3>3. job'.was = SI!Probe
      BY <1>3, <3>1
    <3>4. job'.was = past'.kernel /\ kernel' = past'.kernel
      BY <2>2, <3>1, <3>2, <3>3 DEF SI!Probe, InstallTypes
    <3>5. Left' = 9
      BY <1>4, <2>4
    <3> QED
      BY <1>6, <2>4, <3>4, <3>5 DEF KernelIsKept
  <2> QED
    BY <1>2, <2>3, <2>4
<1>13. Ended'
  BY <1>1 DEF Ended, SI!UpgradeIsTransparent, SI!UninstallIsComplete
<1> QED
  BY <1>4, <1>7, <1>8, <1>9, <1>10, <1>11, <1>12, <1>13

LEMMA CheckStep ==
  ASSUME IInv, SI!Check
  PROVE  IInv'
<1> USE DEF IInv
<1>1. /\ SI!Now("check") /\ SI!Done
      /\ past' = [past EXCEPT !.dodged = @ \/ service = "waiting"]
      /\ UNCHANGED <<binary, unit, loaded, enabled, groups>>
  BY DEF SI!Check
<1>2. /\ past' \in PastType /\ past'.result = past.result /\ past'.quiet = past.quiet
      /\ past'.shell = past.shell /\ past'.kernel = past.kernel /\ past'.warned = past.warned
      /\ ~past'.dodged => ~past.dodged /\ service # "waiting"
  BY <1>1 DEF InstallTypes, PastType
<1>3. /\ \/ /\ service = "active" /\ service' = "inactive" /\ ~ready' /\ runs' = "none"
            /\ ready' = FALSE /\ kernel' = FALSE /\ env' \in {env \ {"tun"}, env}
         \/ /\ service # "active" /\ ~ready /\ ~kernel
            /\ UNCHANGED <<service, ready, runs, kernel, env>>
      /\ ~past'.dodged => service' = "inactive"
      /\ ~kernel'
  BY <1>2 DEF SI!Check, SI!Gone, InstallTypes, SI!TypeOK
<1>4. /\ OnPlan' /\ Ended' /\ HintOfScript' /\ NoHintElsewhere'
      /\ Left \in Nat /\ Left' \in Nat /\ Left' = Left - 1
      /\ job' \in JobType /\ job'.was = job.was
      /\ Working("script")' = Working("script") /\ Working("install")' = Working("install")
      /\ Working("uninstall")' = Working("uninstall") /\ Installing' = Installing
  BY <1>1, <1>2, DoneFacts
<1>5. \/ Working("script") /\ ~Working("install") /\ ~Working("uninstall") /\ Left \in {8, 11}
      \/ Working("install") /\ ~Working("script") /\ ~Working("uninstall") /\ Left = 9
      \/ Working("uninstall") /\ ~Installing /\ Left = 6
  BY <1>1, Where DEF Working, Installing
<1>6. InstallTypes'
  BY <1>1, <1>2, <1>3, <1>4 DEF InstallTypes, SI!TypeOK
<1>7. EnabledHasUnit'
  BY <1>1 DEF EnabledHasUnit
<1>8. InPlaceSoFar'
  BY <1>1, <1>4, <1>5 DEF InPlaceSoFar
<1>9. Stopped'
  BY <1>3, <1>4, <1>5 DEF Stopped
<1>10. KernelIsKept'
  <2>1. Installing /\ past.quiet => job.was = past.kernel
    BY <1>5 DEF KernelIsKept
  <2>2. Installing' /\ past'.quiet => job'.was = past'.kernel
    BY <1>2, <1>4, <2>1
  <2> QED
    BY <1>3, <1>4, <1>5, <2>2 DEF KernelIsKept
<1>11. ShellIsKept'
  <2>1. ("shell" \in env') = ("shell" \in env)
    BY <1>3
  <2> QED
    BY <1>2, <1>4, <2>1 DEF ShellIsKept
<1>12. RemovedSoFar'
  BY <1>3, <1>4, <1>5 DEF RemovedSoFar
<1> QED
  BY <1>4, <1>6, <1>7, <1>8, <1>9, <1>10, <1>11, <1>12

LEMMA GroupsStep ==
  ASSUME IInv, SI!Groups
  PROVE  IInv'
<1> USE DEF IInv
<1>1. /\ SI!Now("groups") /\ SI!Done
      /\ groups' = TRUE
      /\ UNCHANGED <<binary, unit, loaded, enabled, service, ready, runs, kernel, env, past>>
  BY DEF SI!Groups
<1>2. /\ OnPlan' /\ Ended' /\ HintOfScript' /\ NoHintElsewhere'
      /\ Left \in Nat /\ Left' \in Nat /\ Left' = Left - 1
      /\ job' \in JobType /\ job'.was = job.was
      /\ Working("script")' = Working("script") /\ Working("install")' = Working("install")
      /\ Working("uninstall")' = Working("uninstall") /\ Installing' = Installing
  BY <1>1, DoneFacts
<1>3. \/ Working("script") /\ ~Working("install") /\ ~Working("uninstall") /\ Left = 7
      \/ Working("install") /\ ~Working("script") /\ ~Working("uninstall") /\ Left = 8
  BY <1>1, Where DEF Working
<1>4. InstallTypes'
  BY <1>1, <1>2 DEF InstallTypes, SI!TypeOK
<1>5. EnabledHasUnit' /\ ShellIsKept'
  BY <1>1, <1>2 DEF EnabledHasUnit, ShellIsKept
<1>6. InPlaceSoFar'
  BY <1>1, <1>2, <1>3 DEF InPlaceSoFar, Installing
<1>7. Stopped'
  BY <1>1, <1>2, <1>3 DEF Stopped
<1>8. KernelIsKept'
  BY <1>1, <1>2, <1>3 DEF KernelIsKept, Installing
<1>9. RemovedSoFar'
  BY <1>2, <1>3 DEF RemovedSoFar
<1> QED
  BY <1>2, <1>4, <1>5, <1>6, <1>7, <1>8, <1>9

LEMMA ReplaceStep ==
  ASSUME IInv, SI!Replace
  PROVE  IInv'
<1> USE DEF IInv
<1>1. /\ SI!Now("binary") /\ SI!Done
      /\ binary' = "new"
      /\ UNCHANGED <<unit, loaded, enabled, groups, service, ready, runs, kernel, env, past>>
  BY DEF SI!Replace
<1>2. /\ OnPlan' /\ Ended' /\ HintOfScript' /\ NoHintElsewhere'
      /\ Left \in Nat /\ Left' \in Nat /\ Left' = Left - 1
      /\ job' \in JobType /\ job'.was = job.was
      /\ Working("script")' = Working("script") /\ Working("install")' = Working("install")
      /\ Working("uninstall")' = Working("uninstall") /\ Installing' = Installing
  BY <1>1, DoneFacts
<1>3. \/ Working("script") /\ ~Working("install") /\ ~Working("uninstall") /\ Left = 10
      \/ Working("install") /\ ~Working("script") /\ ~Working("uninstall") /\ Left = 7
  BY <1>1, Where DEF Working
<1>4. InstallTypes'
  BY <1>1, <1>2 DEF InstallTypes, SI!TypeOK
<1>5. EnabledHasUnit' /\ ShellIsKept'
  BY <1>1, <1>2 DEF EnabledHasUnit, ShellIsKept
<1>6. InPlaceSoFar'
  BY <1>1, <1>2, <1>3 DEF InPlaceSoFar, Installing
<1>7. Stopped'
  BY <1>1, <1>2, <1>3 DEF Stopped
<1>8. KernelIsKept'
  BY <1>1, <1>2, <1>3 DEF KernelIsKept, Installing
<1>9. RemovedSoFar'
  BY <1>2, <1>3 DEF RemovedSoFar
<1> QED
  BY <1>2, <1>4, <1>5, <1>6, <1>7, <1>8, <1>9

LEMMA WriteUnitStep ==
  ASSUME IInv, SI!WriteUnit
  PROVE  IInv'
<1> USE DEF IInv
<1>1. PICK step \in {"truncate", "write"} :
        /\ SI!Now(step) /\ SI!Done
        /\ unit' = IF step = "truncate" THEN "torn" ELSE "whole"
  BY DEF SI!WriteUnit, SI!Now
<1>0. UNCHANGED <<binary, loaded, enabled, groups, service, ready, runs, kernel, env, past>>
  BY DEF SI!WriteUnit
<1>2. /\ OnPlan' /\ Ended' /\ HintOfScript' /\ NoHintElsewhere'
      /\ Left \in Nat /\ Left' \in Nat /\ Left' = Left - 1
      /\ job' \in JobType /\ job'.was = job.was
      /\ Working("script")' = Working("script") /\ Working("install")' = Working("install")
      /\ Working("uninstall")' = Working("uninstall") /\ Installing' = Installing
  BY <1>0, <1>1, DoneFacts
<1>3. /\ Installing /\ ~Working("uninstall")
      /\ \/ Left = 6 /\ step = "truncate"
         \/ Left = 5 /\ step = "write"
  BY <1>1, Where DEF Working, Installing
<1>4. InstallTypes'
  BY <1>0, <1>1, <1>2 DEF InstallTypes, SI!TypeOK
<1>5. EnabledHasUnit' /\ ShellIsKept'
  BY <1>0, <1>1, <1>2 DEF EnabledHasUnit, ShellIsKept
<1>6. InPlaceSoFar'
  BY <1>0, <1>1, <1>2, <1>3 DEF InPlaceSoFar, Installing
<1>7. Stopped'
  BY <1>0, <1>2, <1>3 DEF Stopped
<1>8. KernelIsKept'
  BY <1>0, <1>2, <1>3 DEF KernelIsKept
<1>9. RemovedSoFar'
  BY <1>2, <1>3 DEF RemovedSoFar
<1> QED
  BY <1>2, <1>4, <1>5, <1>6, <1>7, <1>8, <1>9

LEMMA ReloadStep ==
  ASSUME IInv, SI!Reload
  PROVE  IInv'
<1> USE DEF IInv
<1>1. /\ SI!Now("reload") /\ SI!Done
      /\ loaded' = unit
      /\ UNCHANGED <<binary, unit, enabled, groups, service, ready, runs, kernel, env, past>>
  BY DEF SI!Reload
<1>2. /\ OnPlan' /\ Ended' /\ HintOfScript' /\ NoHintElsewhere'
      /\ Left \in Nat /\ Left' \in Nat /\ Left' = Left - 1
      /\ job' \in JobType /\ job'.was = job.was
      /\ Working("script")' = Working("script") /\ Working("install")' = Working("install")
      /\ Working("uninstall")' = Working("uninstall") /\ Installing' = Installing
  BY <1>1, DoneFacts
<1>3. \/ Installing /\ ~Working("uninstall") /\ Left = 4
      \/ ~Installing /\ Working("uninstall") /\ Left = 1
  BY <1>1, Where DEF Working, Installing
<1>4. InstallTypes'
  BY <1>1, <1>2 DEF InstallTypes, SI!TypeOK
<1>5. EnabledHasUnit' /\ ShellIsKept'
  BY <1>1, <1>2 DEF EnabledHasUnit, ShellIsKept
<1>6. InPlaceSoFar'
  BY <1>1, <1>2, <1>3 DEF InPlaceSoFar, Installing
<1>7. Stopped'
  BY <1>1, <1>2, <1>3 DEF Stopped
<1>8. KernelIsKept'
  BY <1>1, <1>2, <1>3 DEF KernelIsKept
<1>9. RemovedSoFar'
  BY <1>1, <1>2, <1>3 DEF RemovedSoFar
<1> QED
  BY <1>2, <1>4, <1>5, <1>6, <1>7, <1>8, <1>9

(* systemctl enable, when there is a unit; and disable, then there is none  *)
(* that is enabled.                                                         *)
LEMMA EnableStep ==
  ASSUME IInv, SI!Enable
  PROVE  IInv'
<1> USE DEF IInv
<1>1. PICK step \in {"enable", "disable"} :
        /\ SI!Now(step) /\ SI!Done
        /\ enabled' = IF step = "enable" THEN TRUE ELSE enabled /\ unit = "none"
  BY DEF SI!Enable, SI!Now
<1>0. UNCHANGED <<binary, unit, loaded, groups, service, ready, runs, kernel, env, past>>
  BY DEF SI!Enable
<1>2. /\ OnPlan' /\ Ended' /\ HintOfScript' /\ NoHintElsewhere'
      /\ Left \in Nat /\ Left' \in Nat /\ Left' = Left - 1
      /\ job' \in JobType /\ job'.was = job.was
      /\ Working("script")' = Working("script") /\ Working("install")' = Working("install")
      /\ Working("uninstall")' = Working("uninstall") /\ Installing' = Installing
  BY <1>0, <1>1, DoneFacts
<1>3. \/ Installing /\ ~Working("uninstall") /\ Left = 3 /\ step = "enable"
      \/ ~Installing /\ Working("uninstall") /\ Left = 4 /\ step = "disable"
  BY <1>1, Where DEF Working, Installing
<1>4. InstallTypes'
  BY <1>0, <1>1, <1>2 DEF InstallTypes, SI!TypeOK
<1>5. EnabledHasUnit' /\ (step = "disable" => ~enabled')
  <2>1. step = "enable" => unit = "whole"
    BY <1>3 DEF InPlaceSoFar
  <2>2. step = "disable" => ~enabled'
    BY <1>1 DEF EnabledHasUnit
  <2> QED
    BY <1>0, <1>1, <2>1, <2>2 DEF EnabledHasUnit
<1>6. ShellIsKept'
  BY <1>0, <1>2 DEF ShellIsKept
<1>7. InPlaceSoFar'
  BY <1>0, <1>2, <1>3 DEF InPlaceSoFar, Installing
<1>8. Stopped'
  BY <1>0, <1>2, <1>3 DEF Stopped
<1>9. KernelIsKept'
  BY <1>0, <1>2, <1>3 DEF KernelIsKept
<1>10. RemovedSoFar'
  BY <1>0, <1>2, <1>3, <1>5 DEF RemovedSoFar
<1> QED
  BY <1>2, <1>4, <1>5, <1>6, <1>7, <1>8, <1>9, <1>10

(* systemctl start: of what is in place. *)
LEMMA StartStep ==
  ASSUME IInv, SI!Start
  PROVE  IInv'
<1> USE DEF IInv
<1>1. /\ SI!Now("start") /\ SI!Done
      /\ service' = IF service = "active" THEN service ELSE SI!Started
      /\ runs' = IF service = "active" THEN runs ELSE binary
      /\ UNCHANGED <<binary, unit, loaded, enabled, groups, ready, kernel, env, past>>
  BY DEF SI!Start
<1>2. /\ OnPlan' /\ Ended' /\ HintOfScript' /\ NoHintElsewhere'
      /\ Left \in Nat /\ Left' \in Nat /\ Left' = Left - 1
      /\ job' \in JobType /\ job'.was = job.was
      /\ Working("script")' = Working("script") /\ Working("install")' = Working("install")
      /\ Working("uninstall")' = Working("uninstall") /\ Installing' = Installing
  BY <1>1, DoneFacts
<1>3. Installing /\ ~Working("uninstall") /\ Left = 2
  BY <1>1, Where DEF Working, Installing
<1>4. groups /\ binary = "new" /\ loaded = "whole" /\ unit = "whole"
  <2>1. Working("script") \/ Working("install")
    BY <1>3 DEF Installing
  <2> QED
    BY <1>3, <2>1 DEF InPlaceSoFar
<1>5. service' = "active" /\ runs' = IF service = "active" THEN runs ELSE "new"
  BY <1>1, <1>4 DEF SI!Started
<1>6. InstallTypes'
  BY <1>1, <1>2, <1>5 DEF InstallTypes, SI!TypeOK
<1>7. EnabledHasUnit' /\ ShellIsKept'
  BY <1>1, <1>2 DEF EnabledHasUnit, ShellIsKept
<1>8. InPlaceSoFar'
  BY <1>1, <1>2, <1>4 DEF InPlaceSoFar
<1>9. Stopped'
  <2>1. ~past.dodged => service = "inactive"
    BY <1>3 DEF Stopped
  <2>2. ~past'.dodged => service' = "active" /\ runs' = "new"
    BY <1>1, <1>5, <2>1
  <2>3. Left' = 1
    BY <1>2, <1>3
  <2> QED
    BY <2>2, <2>3 DEF Stopped
<1>10. KernelIsKept'
  BY <1>1, <1>2, <1>3 DEF KernelIsKept
<1>11. RemovedSoFar'
  BY <1>2, <1>3 DEF RemovedSoFar
<1> QED
  BY <1>2, <1>6, <1>7, <1>8, <1>9, <1>10, <1>11

(* The kernel is started again if it ran: it had been stopped, so it runs   *)
(* if and only if it ran.                                                   *)
LEMMA RestoreStep ==
  ASSUME IInv, NEW works \in BOOLEAN, SI!Restore(works)
  PROVE  IInv'
<1> USE DEF IInv
<1>1. /\ SI!Now("restore") /\ SI!Done
      /\ UNCHANGED <<binary, unit, loaded, enabled, groups, service, ready, runs>>
  BY DEF SI!Restore
<1>2. /\ past' \in PastType /\ past'.result = past.result /\ past'.dodged = past.dodged
      /\ past'.shell = past.shell /\ past'.kernel = past.kernel /\ past'.warned = past.warned
      /\ past'.quiet => past.quiet /\ works
  BY DEF SI!Restore, InstallTypes, PastType
<1>3. /\ works => kernel' = (kernel \/ job.was) /\ (job.was => ready)
      /\ ~works => kernel' = kernel
      /\ env' = env \/ env' = env \cup {"tun"}
  BY DEF SI!Restore
<1>4. /\ OnPlan' /\ Ended' /\ HintOfScript' /\ NoHintElsewhere'
      /\ Left \in Nat /\ Left' \in Nat /\ Left' = Left - 1
      /\ job' \in JobType /\ job'.was = job.was
      /\ Working("script")' = Working("script") /\ Working("install")' = Working("install")
      /\ Working("uninstall")' = Working("uninstall") /\ Installing' = Installing
  BY <1>1, <1>2, DoneFacts
<1>5. Installing /\ ~Working("uninstall") /\ Left = 1
  BY <1>1, Where DEF Working, Installing
<1>6. kernel' \in BOOLEAN /\ (kernel' => ready)
  BY <1>3 DEF InstallTypes, SI!TypeOK, JobType
<1>7. env' \subseteq {"tun", "shell"} /\ ("shell" \in env') = ("shell" \in env)
  <2>1. env \subseteq {"tun", "shell"}
    BY DEF InstallTypes, SI!TypeOK
  <2>2. CASE env' = env
    BY <2>1, <2>2
  <2>3. CASE env' = env \cup {"tun"}
    BY <2>1, <2>3
  <2> QED
    BY <1>3, <2>2, <2>3
<1>8. InstallTypes'
  BY <1>1, <1>2, <1>4, <1>6, <1>7 DEF InstallTypes, SI!TypeOK
<1>9. EnabledHasUnit' /\ ShellIsKept'
  BY <1>1, <1>2, <1>4, <1>7 DEF EnabledHasUnit, ShellIsKept
<1>10. InPlaceSoFar'
  BY <1>1, <1>4, <1>5 DEF InPlaceSoFar
<1>11. Stopped'
  BY <1>1, <1>2, <1>4, <1>5 DEF Stopped
<1>12. KernelIsKept'
  <2>1. past.quiet => job.was = past.kernel /\ ~kernel
    BY <1>5 DEF KernelIsKept
  <2>2. past'.quiet => kernel' = job.was
    <3>1. ASSUME past'.quiet PROVE ~kernel /\ kernel' = (kernel \/ job.was)
      BY <1>2, <1>3, <2>1, <3>1
    <3> QED
      BY <3>1 DEF InstallTypes, JobType
  <2>3. past'.quiet => job'.was = past'.kernel /\ kernel' = past'.kernel
    BY <1>2, <1>4, <2>1, <2>2
  <2>4. Left' = 0
    BY <1>4, <1>5
  <2> QED
    BY <2>3, <2>4 DEF KernelIsKept
<1>13. RemovedSoFar'
  BY <1>4, <1>5 DEF RemovedSoFar
<1> QED
  BY <1>4, <1>8, <1>9, <1>10, <1>11, <1>12, <1>13

-----------------------------------------------------------------------------
(* The steps of an uninstallation. *)
LEMMA CleanEnvironmentStep ==
  ASSUME IInv, SI!CleanEnvironment
  PROVE  IInv'
<1> USE DEF IInv
<1>1. /\ SI!Now("clean") /\ SI!Done
      /\ UNCHANGED <<binary, unit, loaded, enabled, groups, service, ready, runs, kernel>>
      /\ \/ env' = {} /\ past' = past
         \/ env' \in SUBSET env /\ past' = [past EXCEPT !.warned = TRUE]
  BY DEF SI!CleanEnvironment
<1>7. /\ past' \in PastType /\ past'.result = past.result /\ past'.dodged = past.dodged
      /\ past'.warned \/ env' = {}
  BY <1>1 DEF InstallTypes, PastType
<1>8. env' \subseteq env
  BY <1>1
<1>2. /\ OnPlan' /\ Ended' /\ HintOfScript' /\ NoHintElsewhere'
      /\ Left \in Nat /\ Left' \in Nat /\ Left' = Left - 1
      /\ job' \in JobType /\ job'.was = job.was
      /\ Working("script")' = Working("script") /\ Working("install")' = Working("install")
      /\ Working("uninstall")' = Working("uninstall") /\ Installing' = Installing
  BY <1>1, <1>7, DoneFacts
<1>3. ~Working("script") /\ ~Working("install") /\ ~Installing /\ Working("uninstall") /\ Left = 5
  BY <1>1, Where DEF Working, Installing
<1>4. InstallTypes'
  BY <1>1, <1>2, <1>7, <1>8 DEF InstallTypes, SI!TypeOK
<1>5. EnabledHasUnit' /\ ShellIsKept' /\ InPlaceSoFar' /\ Stopped' /\ KernelIsKept'
  BY <1>1, <1>2, <1>3
  DEF EnabledHasUnit, ShellIsKept, InPlaceSoFar, Stopped, KernelIsKept
<1>6. RemovedSoFar'
  BY <1>1, <1>2, <1>3, <1>7 DEF RemovedSoFar
<1> QED
  BY <1>2, <1>4, <1>5, <1>6

LEMMA RemoveStep ==
  ASSUME IInv, SI!Remove
  PROVE  IInv'
<1> USE DEF IInv
<1>1. PICK step \in {"unlink", "erase"} :
        /\ SI!Now(step) /\ SI!Done
        /\ unit' = IF step = "unlink" THEN "none" ELSE unit
        /\ binary' = IF step = "erase" THEN "none" ELSE binary
  BY DEF SI!Remove, SI!Now
<1>2. UNCHANGED <<loaded, enabled, groups, service, ready, runs, kernel, env, past>>
  BY DEF SI!Remove
<1>3. /\ OnPlan' /\ Ended' /\ HintOfScript' /\ NoHintElsewhere'
      /\ Left \in Nat /\ Left' \in Nat /\ Left' = Left - 1
      /\ job' \in JobType /\ job'.was = job.was
      /\ Working("script")' = Working("script") /\ Working("install")' = Working("install")
      /\ Working("uninstall")' = Working("uninstall") /\ Installing' = Installing
  BY <1>1, <1>2, DoneFacts
<1>4. /\ ~Working("script") /\ ~Working("install") /\ ~Installing /\ Working("uninstall")
      /\ \/ Left = 3 /\ step = "unlink"
         \/ Left = 2 /\ step = "erase"
  BY <1>1, Where DEF Working, Installing
<1>5. InstallTypes'
  BY <1>1, <1>2, <1>3 DEF InstallTypes, SI!TypeOK
<1>6. ~enabled
  BY <1>4 DEF RemovedSoFar
<1>7. EnabledHasUnit' /\ ShellIsKept' /\ InPlaceSoFar' /\ Stopped' /\ KernelIsKept'
  BY <1>2, <1>3, <1>4, <1>6
  DEF EnabledHasUnit, ShellIsKept, InPlaceSoFar, Stopped, KernelIsKept
<1>8. RemovedSoFar'
  BY <1>1, <1>2, <1>3, <1>4 DEF RemovedSoFar
<1> QED
  BY <1>3, <1>5, <1>7, <1>8
-----------------------------------------------------------------------------
(* No job: nothing is promised of one. *)
LEMMA NoJobFacts ==
  ASSUME job = SI!NoJob
  PROVE  /\ OnPlan /\ job \in JobType
         /\ InPlaceSoFar /\ Stopped /\ KernelIsKept /\ HintOfScript /\ NoHintElsewhere
         /\ ShellIsKept /\ RemovedSoFar
<1>1. job.kind = "none" /\ job \in JobType
  BY DEF SI!NoJob, JobType
<1>2. ~Working("script") /\ ~Working("install") /\ ~Working("uninstall") /\ ~Installing
  BY <1>1 DEF Working, Installing
<1> QED
  BY <1>1, <1>2 DEF OnPlan, InPlaceSoFar, Stopped, KernelIsKept, HintOfScript,
     NoHintElsewhere, ShellIsKept, RemovedSoFar

LEMMA NoJobAfter ==
  ASSUME job' = SI!NoJob
  PROVE  /\ OnPlan' /\ job' \in JobType
         /\ InPlaceSoFar' /\ Stopped' /\ KernelIsKept' /\ HintOfScript' /\ NoHintElsewhere'
         /\ ShellIsKept' /\ RemovedSoFar'
<1>1. job'.kind = "none" /\ job' \in JobType
  BY DEF SI!NoJob, JobType
<1>2. ~Working("script")' /\ ~Working("install")' /\ ~Working("uninstall")' /\ ~Installing'
  BY <1>1 DEF Working, Installing
<1>3. OnPlan'
  BY <1>1 DEF OnPlan, SI!NoJob
<1> QED
  BY <1>1, <1>2, <1>3 DEF InPlaceSoFar, Stopped, KernelIsKept, HintOfScript,
     NoHintElsewhere, ShellIsKept, RemovedSoFar

(* A job ends: what has been reached is what was promised. *)
LEMMA EndStep ==
  ASSUME IInv, SI!End
  PROVE  IInv'
<1> USE DEF IInv
<1>1. /\ job # SI!NoJob /\ job.todo = <<>> /\ job' = SI!NoJob
      /\ past' = [past EXCEPT !.result = job.kind]
      /\ UNCHANGED <<binary, unit, loaded, enabled, groups, service, ready, runs, kernel, env>>
  BY DEF SI!End, SI!system
<1>2. /\ past' \in PastType /\ past'.result = job.kind /\ past'.quiet = past.quiet
      /\ past'.dodged = past.dodged /\ past'.shell = past.shell /\ past'.kernel = past.kernel
      /\ past'.warned = past.warned
  BY <1>1 DEF InstallTypes, PastType, JobType
<1>3. Left = 0
  BY <1>1 DEF Left
<1>4. /\ OnPlan' /\ job' \in JobType /\ InPlaceSoFar' /\ Stopped' /\ KernelIsKept'
      /\ HintOfScript' /\ NoHintElsewhere' /\ ShellIsKept' /\ RemovedSoFar'
  BY <1>1, NoJobAfter
<1>5. InstallTypes'
  BY <1>1, <1>2, <1>4 DEF InstallTypes, SI!TypeOK
<1>6. EnabledHasUnit'
  BY <1>1 DEF EnabledHasUnit
<1>7. past'.result \in {"script", "install"} => Installing
  BY <1>2 DEF Installing, Working
<1>8. past'.result \in {"script", "install"} => groups'
  BY <1>1, <1>3, <1>7 DEF InPlaceSoFar
<1>9. SI!UpgradeIsTransparent'
  <2>1. Installing /\ past.quiet => kernel = past.kernel /\ ("shell" \in env) = past.shell
    BY <1>3 DEF KernelIsKept, ShellIsKept
  <2>2. Installing /\ past.quiet /\ ~past.dodged => service = "active" /\ runs = "new"
    BY <1>3 DEF Stopped
  <2> QED
    BY <1>1, <1>2, <1>7, <2>1, <2>2 DEF SI!UpgradeIsTransparent
<1>10. SI!UninstallIsComplete'
  <2>1. past'.result = "uninstall" => Working("uninstall")
    BY <1>2 DEF Working
  <2>2. Working("uninstall") /\ ~past.dodged =>
          /\ binary = "none" /\ unit = "none" /\ loaded = "none" /\ ~enabled
          /\ service = "inactive" /\ (past.warned \/ env = {})
    BY <1>3 DEF RemovedSoFar
  <2>3. service = "inactive" => ~kernel
    BY DEF InstallTypes, SI!TypeOK
  <2> QED
    BY <1>1, <1>2, <2>1, <2>2, <2>3 DEF SI!UninstallIsComplete
<1> QED
  BY <1>4, <1>5, <1>6, <1>8, <1>9, <1>10 DEF Ended

LEMMA AbortStep ==
  ASSUME IInv, SI!Abort
  PROVE  IInv'
<1> USE DEF IInv
<1>1. /\ job' = SI!NoJob
      /\ UNCHANGED <<binary, unit, loaded, enabled, groups, service, ready, runs, kernel, env,
                     past>>
  BY DEF SI!Abort, SI!system
<1>2. /\ OnPlan' /\ job' \in JobType /\ InPlaceSoFar' /\ Stopped' /\ KernelIsKept'
      /\ HintOfScript' /\ NoHintElsewhere' /\ ShellIsKept' /\ RemovedSoFar'
  BY <1>1, NoJobAfter
<1>3. InstallTypes' /\ EnabledHasUnit' /\ Ended'
  BY <1>1, <1>2
  DEF InstallTypes, SI!TypeOK, EnabledHasUnit, Ended, SI!UpgradeIsTransparent,
      SI!UninstallIsComplete
<1> QED
  BY <1>2, <1>3
-----------------------------------------------------------------------------
LEMMA InstallInvariant == Spec => [](part = "install" => IInv)
<1>1. Init => (part = "install" => IInv)
  <2> SUFFICES ASSUME SI!Init PROVE IInv
    BY DEF Init
  <2>1. job = SI!NoJob
    BY DEF SI!Init
  <2>2. /\ past \in PastType /\ past.result = "none"
    BY DEF SI!Init, PastType
  <2>3. /\ SI!TypeOK /\ EnabledHasUnit
        /\ enabled \in BOOLEAN /\ groups \in BOOLEAN /\ ready \in BOOLEAN
        /\ runs \in {"none", "old", "new"}
    BY DEF SI!Init, SI!TypeOK, EnabledHasUnit
  <2>4. kernel \in BOOLEAN
    BY DEF SI!Init
  <2>5. InstallTypes
    BY <2>1, <2>2, <2>3, <2>4, NoJobFacts DEF InstallTypes
  <2>6. Ended
    BY <2>2 DEF Ended, SI!UpgradeIsTransparent, SI!UninstallIsComplete
  <2> QED
    BY <2>1, <2>3, <2>5, <2>6, NoJobFacts DEF IInv
<1>2. (part = "install" => IInv) /\ [Next]_state => (part = "install" => IInv)'
  <2> SUFFICES ASSUME part = "install" => IInv, [Next]_state, part' = "install"
               PROVE  IInv'
    OBVIOUS
  <2>1. CASE UNCHANGED state
    <3>1. /\ IInv
          /\ UNCHANGED <<binary, unit, loaded, enabled, groups, service, ready, runs, kernel,
                         env, job, past>>
      BY <2>1 DEF state
    <3> QED
      BY <3>1 DEF IInv, InstallTypes, SI!TypeOK, OnPlan, EnabledHasUnit, InPlaceSoFar, Stopped,
         KernelIsKept, HintOfScript, NoHintElsewhere, ShellIsKept, RemovedSoFar, Ended,
         SI!UpgradeIsTransparent, SI!UninstallIsComplete, Left, Working, Installing
  <2>2. CASE Next
    <3>1. IInv /\ SI!Next
      BY <2>2 DEF Next
    <3> QED
      BY <3>1, BecomeReadyStep, DaemonDiesStep, RestartStep, UseKernelStep, BeginStep,
         LookStep, SnapshotStep, CheckStep, GroupsStep, ReplaceStep, WriteUnitStep, ReloadStep,
         EnableStep, StartStep, RestoreStep, CleanEnvironmentStep, RemoveStep, EndStep,
         AbortStep
      DEF SI!Next
  <2> QED
    BY <2>1, <2>2
<1> QED
  BY <1>1, <1>2, PTL DEF Spec

(* An installation without a disturbance leaves kernel and proxy as they    *)
(* were, and runs what it has installed: for any number of jobs, each of    *)
(* which may have failed before.                                            *)
THEOREM UpgradesAreTransparent == Spec => []UpgradeIsTransparent
<1>1. (part = "install" => IInv) => UpgradeIsTransparent
  BY DEF UpgradeIsTransparent, IInv, Ended
<1> QED
  BY <1>1, InstallInvariant, PTL

(* An uninstallation leaves no file and no service, and no rule and no      *)
(* block of which it has not warned, whatever had been left of the          *)
(* installations and uninstallations before it.                             *)
THEOREM UninstallsAreComplete == Spec => []UninstallIsComplete
<1>1. (part = "install" => IInv) => UninstallIsComplete
  BY DEF UninstallIsComplete, IInv, Ended
<1> QED
  BY <1>1, InstallInvariant, PTL
-----------------------------------------------------------------------------
(* SystemProxy.  The variables by their names there. *)
pref == s2
procs == s6
tasks == s7
wish == s12
late == s13

USE DEF pref, procs, tasks, wish, late

ProcessType == [role : {"down", "tui", "cli"}, on : BOOLEAN, stale : BOOLEAN,
                port : Ports]

TaskFields == {"kind", "on", "port", "left", "todo", "found", "writing", "failed", "alone"}

ProxyTypes ==
  /\ s3 \in Ports
  /\ procs \in [Processes -> ProcessType]
  /\ DOMAIN tasks = Tasks
  /\ \A k \in Tasks : DOMAIN tasks[k] = TaskFields /\ tasks[k].on \in BOOLEAN
  /\ wish \in Tasks \cup {"stopped", "other"}
  /\ late \subseteq Processes

(* A process that is not there has nothing under way.                       *)
DownIsIdle ==
  \A k \in Tasks : procs[Owner[k]].role = "down" => ~tasks[k].on /\ wish # k

(* The stop under way that was asked for last: a preference that is not yet *)
(* off is its first step, and is not passed over.                           *)
StopSavesFirst ==
  wish \in Tasks =>
    /\ tasks[wish].kind = "stop" /\ ~tasks[wish].on
    /\ pref = "off" \/ (procs[Owner[wish]].on /\ SP!Do(wish, "pref"))

(* After it the preference is off for whoever starts, ...                   *)
StoppedIsOff == wish = "stopped" => pref = "off"

(* ... and what they have read stays cached.                                *)
LateIsOff == \A p \in late : procs[p].role # "down" /\ ~procs[p].on

PInv ==
  /\ ProxyTypes
  /\ DownIsIdle
  /\ StopSavesFirst
  /\ StoppedIsOff
  /\ LateIsOff
  /\ SP!StopIsRemembered

LEMMA ProxyFacts ==
  /\ Owner \in [Tasks -> Processes]
  /\ Tasks \cap {"stopped", "other"} = {}
  /\ (CHOOSE p \in Ports : TRUE) \in Ports
BY SurroundingsAssumption DEF SP!Assumptions

(* A new operation takes the place of an idle task; of the others it only   *)
(* notes that they are not alone.                                           *)
LEMMA EnlistFacts ==
  ASSUME ProxyTypes, NEW k \in Tasks, NEW kind, NEW on, NEW withPort,
         SP!Enlist(k, kind, on, withPort)
  PROVE  /\ tasks[k] = SP!Idle
         /\ DOMAIN tasks' = Tasks
         /\ \A j \in Tasks : DOMAIN tasks'[j] = TaskFields
         /\ tasks'[k].kind = kind /\ tasks'[k].left = SP!Plan(kind)
         /\ tasks'[k].on = on
         /\ on \in BOOLEAN => tasks'[k].on \in BOOLEAN
         /\ \A j \in Tasks \ {k} :
              /\ tasks'[j].kind = tasks[j].kind /\ tasks'[j].on = tasks[j].on
              /\ tasks'[j].left = tasks[j].left
<1> DEFINE new == [SP!Idle EXCEPT !.kind = kind, !.on = on, !.port = withPort,
                         !.left = SP!Plan(kind), !.todo = SP!Targets(kind),
                         !.alone = {j \in Tasks : tasks[j] # SP!Idle} = {}]
<1>1. tasks[k] = SP!Idle /\ DOMAIN tasks' = Tasks
  BY DEF SP!Enlist
<1>2. tasks'[k] = new
  BY DEF SP!Enlist
<1>3. DOMAIN new = TaskFields /\ new.kind = kind /\ new.on = on /\ new.left = SP!Plan(kind)
  BY DEF SP!Idle, TaskFields
<1>4. ASSUME NEW j \in Tasks \ {k}
      PROVE  tasks'[j] = [tasks[j] EXCEPT !.alone = tasks[j] = SP!Idle]
  BY DEF SP!Enlist
<1>5. ASSUME NEW j \in Tasks \ {k}
      PROVE  /\ DOMAIN tasks'[j] = TaskFields
             /\ tasks'[j].kind = tasks[j].kind /\ tasks'[j].on = tasks[j].on
             /\ tasks'[j].left = tasks[j].left
  BY <1>4, <1>5 DEF ProxyTypes, TaskFields
<1> QED
  BY <1>1, <1>2, <1>3, <1>5

LEMMA IdleFacts ==
  ASSUME PInv, NEW k \in Tasks, tasks[k] = SP!Idle
  PROVE  wish # k /\ ~tasks[k].on
<1>1. tasks[k].kind = "idle" /\ ~tasks[k].on
  BY DEF SP!Idle
<1> QED
  BY <1>1 DEF PInv, StopSavesFirst

(* Steps that leave the requests of the tasks alone and lose no stop.       *)
LEMMA QuietProxyStep ==
  ASSUME PInv, UNCHANGED <<s3, pref, procs, wish, late>>,
         DOMAIN tasks' = Tasks,
         \A k \in Tasks : /\ DOMAIN tasks'[k] = TaskFields
                          /\ tasks'[k].kind = tasks[k].kind
                          /\ tasks'[k].on = tasks[k].on
                          /\ \/ tasks'[k].left = tasks[k].left
                             \/ ~SP!Do(k, "pref")
                             \/ ~procs[Owner[k]].on
  PROVE  PInv'
BY ProxyFacts DEF PInv, ProxyTypes, DownIsIdle, StopSavesFirst, StoppedIsOff, LateIsOff,
   SP!StopIsRemembered, SP!Do

LEMMA StartsFacts ==
  ASSUME PInv, NEW p \in Processes, NEW role \in {"tui", "cli"}, NEW on \in SP!Reads,
         SP!Starts(p, role, on)
  PROVE  /\ procs[p].role = "down"
         /\ procs' \in [Processes -> ProcessType]
         /\ procs'[p].on = on /\ procs'[p].role = role
         /\ \A q \in Processes \ {p} : procs'[q] = procs[q]
         /\ on \in BOOLEAN
         /\ pref = "off" => ~on
         /\ late' \subseteq late \cup {p}
         /\ p \in late' => ~on
<1>1. on \in BOOLEAN /\ (pref = "off" => ~on)
  BY DEF SP!Reads, SP!Loaded
<1>2. [role |-> role, on |-> on, stale |-> on \notin SP!Loaded, port |-> s3] \in ProcessType
  BY <1>1 DEF ProcessType, PInv, ProxyTypes
<1> QED
  BY <1>1, <1>2 DEF SP!Starts, PInv, ProxyTypes, LateIsOff, StoppedIsOff

LEMMA RunStep ==
  ASSUME PInv, NEW k \in Tasks, NEW on \in SP!Reads, NEW role \in {"tui", "cli"},
         SP!Starts(Owner[k], role, on), NEW listening,
         SP!ReconcileIfUsable(k, on, listening), UNCHANGED <<s3, pref, wish>>
  PROVE  PInv'
<1> Owner[k] \in Processes
  BY ProxyFacts
<1> USE StartsFacts
<1>1. CASE UNCHANGED tasks
  BY <1>1, ProxyFacts DEF PInv, ProxyTypes, DownIsIdle, StopSavesFirst, StoppedIsOff,
     LateIsOff, SP!StopIsRemembered, SP!Do
<1>2. CASE SP!Enlist(k, "start", on, s3)
  <2>1. wish # k /\ on \in BOOLEAN
    BY DEF PInv, DownIsIdle
  <2>2. ASSUME NEW j \in Tasks \ {k}
        PROVE  /\ DOMAIN tasks'[j] = TaskFields
               /\ tasks'[j].kind = tasks[j].kind /\ tasks'[j].on = tasks[j].on
               /\ tasks'[j].left = tasks[j].left
    BY <2>1, <1>2, EnlistFacts DEF PInv
  <2>3. DOMAIN tasks' = Tasks /\ DOMAIN tasks'[k] = TaskFields /\ tasks'[k].on = on
    BY <2>1, <1>2, EnlistFacts DEF PInv
  <2> USE <1>2, <2>1, <2>2, <2>3, ProxyFacts
  <2>4. ProxyTypes'
    BY DEF PInv, ProxyTypes
  <2>5. DownIsIdle'
    BY DEF PInv, ProxyTypes, DownIsIdle
  <2>6. StopSavesFirst'
    BY DEF PInv, ProxyTypes, DownIsIdle, StopSavesFirst, SP!Do
  <2>7. StoppedIsOff'
    BY DEF PInv, ProxyTypes, StoppedIsOff
  <2>8. LateIsOff'
    BY DEF PInv, ProxyTypes, LateIsOff
  <2>9. SP!StopIsRemembered'
    BY DEF PInv, ProxyTypes, DownIsIdle, SP!StopIsRemembered
  <2> QED
    BY <2>4, <2>5, <2>6, <2>7, <2>8, <2>9 DEF PInv
<1> QED
  BY <1>1, <1>2 DEF SP!ReconcileIfUsable

(* An operation of a process that keeps the preference it has cached.       *)
LEMMA EnlistedStep ==
  ASSUME PInv, NEW k \in Tasks, NEW kind, NEW on \in BOOLEAN, NEW withPort,
         SP!Enlist(k, kind, on, withPort),
         s3' \in Ports, pref' = pref,
         procs' \in [Processes -> ProcessType], procs'[Owner[k]].role # "down",
         \A q \in Processes : procs'[q].on = procs[q].on,
         \A q \in Processes \ {Owner[k]} : procs'[q].role = procs[q].role,
         wish' = wish \/ wish' = "other",
         late' \subseteq late, Owner[k] \in late' => ~on
  PROVE  PInv'
<1>1. wish # k
  BY EnlistFacts, IdleFacts DEF PInv
<1>2. ASSUME NEW j \in Tasks \ {k}
      PROVE  /\ DOMAIN tasks'[j] = TaskFields
             /\ tasks'[j].kind = tasks[j].kind /\ tasks'[j].on = tasks[j].on
             /\ tasks'[j].left = tasks[j].left
  BY EnlistFacts DEF PInv
<1>3. DOMAIN tasks' = Tasks /\ DOMAIN tasks'[k] = TaskFields /\ tasks'[k].on = on
  BY EnlistFacts DEF PInv
<1> USE <1>1, <1>2, <1>3, ProxyFacts
<1>4. ProxyTypes'
  BY DEF PInv, ProxyTypes
<1>5. DownIsIdle'
  BY DEF PInv, ProxyTypes, DownIsIdle
<1>6. StopSavesFirst'
  BY DEF PInv, ProxyTypes, StopSavesFirst, SP!Do
<1>7. StoppedIsOff'
  BY DEF PInv, ProxyTypes, StoppedIsOff
<1>8. LateIsOff'
  BY DEF PInv, ProxyTypes, LateIsOff
<1>9. SP!StopIsRemembered'
  BY DEF PInv, ProxyTypes, SP!StopIsRemembered
<1> QED
  BY <1>4, <1>5, <1>6, <1>7, <1>8, <1>9 DEF PInv

LEMMA ToggleStep ==
  ASSUME PInv, NEW k \in Tasks, NEW on \in BOOLEAN, SP!Toggle(k, on)
  PROVE  PInv'
<1> DEFINE kind == IF on THEN "enable" ELSE "disable"
<1>1. /\ procs[Owner[k]].role = "tui" /\ UNCHANGED <<s3, pref, procs>>
      /\ SP!Enlist(k, kind, on, procs[Owner[k]].port)
      /\ wish' = IF on THEN "other" ELSE wish
      /\ late' = IF on THEN {} ELSE late
  BY DEF SP!Toggle
<1> HIDE DEF kind
<1> QED
  BY <1>1, EnlistedStep, ProxyFacts DEF PInv, ProxyTypes

(* A stop, from a TUI or as a process of its own.                           *)
LEMMA KernelStopsStep ==
  ASSUME PInv, NEW k \in Tasks, NEW on \in BOOLEAN, NEW withPort,
         SP!KernelStops(k, on, withPort),
         procs' \in [Processes -> ProcessType], procs'[Owner[k]].role # "down",
         procs'[Owner[k]].on = on,
         \A q \in Processes \ {Owner[k]} : procs'[q] = procs[q],
         (procs' = procs /\ late' = late) \/ procs[Owner[k]].role = "down",
         pref = "off" /\ procs[Owner[k]].role = "down" => ~on,
         late' \subseteq late \cup {Owner[k]}, Owner[k] \in late' => ~on
  PROVE  PInv'
<1>1. /\ UNCHANGED <<s3, pref>>
      /\ SP!Enlist(k, "stop", FALSE, withPort)
      /\ wish' = IF on THEN k ELSE wish
  BY DEF SP!KernelStops
<1>2. wish # k
  BY <1>1, EnlistFacts, IdleFacts DEF PInv
<1>3. SP!Plan("stop") # <<>> /\ Head(SP!Plan("stop")) = "pref"
  BY DEF SP!Plan
<1>4. Owner[k] \in Processes
  BY ProxyFacts
<1>5. ASSUME NEW j \in Tasks \ {k}
      PROVE  /\ DOMAIN tasks'[j] = TaskFields
             /\ tasks'[j].kind = tasks[j].kind /\ tasks'[j].on = tasks[j].on
             /\ tasks'[j].left = tasks[j].left
  BY <1>1, EnlistFacts DEF PInv
<1>6. /\ DOMAIN tasks' = Tasks /\ DOMAIN tasks'[k] = TaskFields
      /\ tasks'[k].kind = "stop" /\ ~tasks'[k].on /\ tasks'[k].on \in BOOLEAN
      /\ tasks'[k].left = SP!Plan("stop")
  BY <1>1, EnlistFacts DEF PInv
<1> USE <1>1, <1>2, <1>3, <1>4, <1>5, <1>6, ProxyFacts
<1>7. ProxyTypes'
  BY DEF PInv, ProxyTypes
<1>8. DownIsIdle'
  BY DEF PInv, ProxyTypes, DownIsIdle
<1>9. StopSavesFirst'
  <2>1. CASE on
    BY <2>1 DEF PInv, ProxyTypes, StopSavesFirst, SP!Do
  <2>2. CASE ~on
    BY <2>2 DEF PInv, ProxyTypes, DownIsIdle, StopSavesFirst, SP!Do
  <2> QED
    BY <2>1, <2>2
<1>10. StoppedIsOff'
  BY DEF PInv, ProxyTypes, StoppedIsOff
<1>11. LateIsOff'
  BY DEF PInv, ProxyTypes, LateIsOff
<1>12. SP!StopIsRemembered'
  BY DEF PInv, ProxyTypes, DownIsIdle, SP!StopIsRemembered
<1> QED
  BY <1>7, <1>8, <1>9, <1>10, <1>11, <1>12 DEF PInv

LEMMA DashboardStep ==
  ASSUME PInv, NEW k \in Tasks, SP!StopFromDashboard(k)
  PROVE  PInv'
<1>1. /\ SP!KernelStops(k, procs[Owner[k]].on, procs[Owner[k]].port)
      /\ procs[Owner[k]].role = "tui" /\ procs' = procs /\ late' = late
  BY DEF SP!StopFromDashboard
<1> QED
  BY <1>1, ProxyFacts, KernelStopsStep DEF PInv, ProxyTypes, ProcessType, LateIsOff

LEMMA StopCommandStep ==
  ASSUME PInv, NEW k \in Tasks, NEW on \in SP!Reads, SP!RunMihomoStop(k, on)
  PROVE  PInv'
<1>1. SP!Starts(Owner[k], "cli", on) /\ SP!KernelStops(k, on, s3)
  BY DEF SP!RunMihomoStop
<1>2. Owner[k] \in Processes
  BY ProxyFacts
<1> QED
  BY <1>1, <1>2, StartsFacts, KernelStopsStep

LEMMA ChangePortStep ==
  ASSUME PInv, NEW k \in Tasks, NEW new \in Ports, SP!ChangePort(k, new)
  PROVE  PInv'
<1>1. /\ procs[Owner[k]].role = "tui" /\ s3' = new
      /\ procs' = [procs EXCEPT ![Owner[k]].port = new]
      /\ SP!Enlist(k, "ports", procs[Owner[k]].on, new)
      /\ UNCHANGED <<pref, wish, late>>
  BY DEF SP!ChangePort, SP!history
<1>2. /\ procs[Owner[k]].on \in BOOLEAN
      /\ procs' \in [Processes -> ProcessType]
      /\ \A q \in Processes : procs'[q].on = procs[q].on /\ procs'[q].role = procs[q].role
  BY <1>1, ProxyFacts DEF PInv, ProxyTypes, ProcessType
<1>3. Owner[k] \in late => ~procs[Owner[k]].on
  BY DEF PInv, LateIsOff
<1> QED
  BY <1>1, <1>2, <1>3, EnlistedStep, ProxyFacts

LEMMA CleanupStep ==
  ASSUME PInv, NEW k \in Tasks, SP!Cleanup(k)
  PROVE  PInv'
<1>1. /\ procs' = [procs EXCEPT ![Owner[k]].role = "cli"]
      /\ SP!Enlist(k, "cleanup", FALSE, s3)
      /\ UNCHANGED <<s3, pref, wish, late>>
  BY DEF SP!Cleanup, SP!history
<1>2. /\ procs' \in [Processes -> ProcessType]
      /\ \A q \in Processes : procs'[q].on = procs[q].on
      /\ \A q \in Processes \ {Owner[k]} : procs'[q].role = procs[q].role
      /\ procs'[Owner[k]].role = "cli"
  BY <1>1, ProxyFacts DEF PInv, ProxyTypes, ProcessType
<1>3. s3 \in Ports
  BY DEF PInv, ProxyTypes
<1> QED
  BY <1>1, <1>2, <1>3, EnlistedStep

LEMMA FileSteps ==
  ASSUME PInv, NEW k \in Tasks,
         SP!ReadFile(k) \/ SP!Truncate(k) \/ SP!Fill(k)
  PROVE  PInv'
<1>1. UNCHANGED <<s3, pref, procs, wish, late>>
  BY DEF SP!ReadFile, SP!Truncate, SP!Fill, SP!files, SP!history
<1>2. /\ DOMAIN tasks' = Tasks
      /\ \A j \in Tasks : /\ DOMAIN tasks'[j] = TaskFields
                          /\ tasks'[j].kind = tasks[j].kind
                          /\ tasks'[j].on = tasks[j].on
                          /\ tasks'[j].left = tasks[j].left
  <2>1. CASE SP!ReadFile(k)
    BY <2>1 DEF SP!ReadFile, PInv, ProxyTypes, TaskFields
  <2>2. CASE SP!Truncate(k)
    BY <2>2 DEF SP!Truncate, PInv, ProxyTypes, TaskFields
  <2>3. CASE SP!Fill(k)
    BY <2>3 DEF SP!Fill, PInv, ProxyTypes, TaskFields
  <2> QED
    BY <2>1, <2>2, <2>3
<1> QED
  BY <1>1, <1>2, QuietProxyStep

(* The end of a phase that is not the saving of a preference still on.      *)
LEMMA PhaseStep ==
  ASSUME PInv, NEW k \in Tasks, NEW failed, SP!PhaseEnds(k, failed),
         UNCHANGED <<s3, pref, procs, wish, late>>,
         \/ ~SP!Do(k, "pref")
         \/ SP!Unchanged(k) /\ ~tasks[k].on
         \/ tasks[k].on
  PROVE  PInv'
<1>1. /\ DOMAIN tasks' = Tasks
      /\ \A j \in Tasks : /\ DOMAIN tasks'[j] = TaskFields
                          /\ tasks'[j].kind = tasks[j].kind
                          /\ tasks'[j].on = tasks[j].on
                          /\ j # k => tasks'[j].left = tasks[j].left
  BY DEF SP!PhaseEnds, PInv, ProxyTypes, TaskFields
<1>2. CASE wish # k
  BY <1>1, <1>2, ProxyFacts
  DEF PInv, ProxyTypes, DownIsIdle, StopSavesFirst, StoppedIsOff, LateIsOff,
      SP!StopIsRemembered, SP!Do
<1>3. CASE wish = k
  <2>1. ~tasks[k].on
    BY <1>3 DEF PInv, StopSavesFirst
  <2>2. ~SP!Do(k, "pref") \/ ~procs[Owner[k]].on
    BY <2>1 DEF SP!Unchanged
  <2> QED
    BY <1>1, <2>2, QuietProxyStep
<1> QED
  BY <1>2, <1>3

LEMMA FileFailsStep ==
  ASSUME PInv, NEW k \in Tasks, SP!FileFails(k)
  PROVE  PInv'
<1>1. UNCHANGED <<s3, pref, procs, wish, late>> /\ SP!Do(k, "files")
  BY DEF SP!FileFails, SP!files
<1>2. ~SP!Do(k, "pref")
  BY <1>1 DEF SP!Do
<1>3. /\ DOMAIN tasks' = Tasks
      /\ \A j \in Tasks : /\ DOMAIN tasks'[j] = TaskFields
                          /\ tasks'[j].kind = tasks[j].kind
                          /\ tasks'[j].on = tasks[j].on
                          /\ j # k => tasks'[j].left = tasks[j].left
  <2>1. CASE tasks[k].writing = <<>> /\ tasks[k].kind = "cleanup"
    BY <2>1 DEF SP!FileFails, PInv, ProxyTypes, TaskFields
  <2>2. CASE tasks[k].writing = <<>> /\ tasks[k].kind # "cleanup"
    BY <2>2 DEF SP!FileFails, SP!PhaseEnds, PInv, ProxyTypes, TaskFields
  <2>3. CASE tasks[k].writing # <<>>
    BY <2>3 DEF SP!FileFails, PInv, ProxyTypes, TaskFields
  <2> QED
    BY <2>1, <2>2, <2>3
<1> QED
  BY <1>1, <1>2, <1>3, QuietProxyStep

LEMMA EndsOfPhases ==
  ASSUME PInv, NEW k \in Tasks, SP!FilesDone(k) \/ SP!Session(k)
  PROVE  PInv'
<1>1. /\ SP!PhaseEnds(k, FALSE) \/ SP!PhaseEnds(k, TRUE)
      /\ UNCHANGED <<s3, pref, procs, wish, late>>
      /\ SP!Do(k, "files") \/ SP!Do(k, "session")
  BY DEF SP!FilesDone, SP!Session, SP!files, SP!history
<1>2. ~SP!Do(k, "pref")
  BY <1>1 DEF SP!Do
<1> QED
  BY <1>1, <1>2, PhaseStep

LEMMA PrefStaysStep ==
  ASSUME PInv, NEW k \in Tasks, SP!PrefStays(k)
  PROVE  PInv'
<1>1. UNCHANGED <<s3, pref, procs, wish, late>> /\ SP!Unchanged(k)
  BY DEF SP!PrefStays, SP!files, SP!history
<1>2. CASE SP!PhaseEnds(k, FALSE)
  BY <1>1, <1>2, PhaseStep DEF SP!Unchanged
<1>3. CASE tasks' = [tasks EXCEPT ![k].left = <<>>, ![k].todo = {}]
  <2>1. /\ DOMAIN tasks' = Tasks
        /\ \A j \in Tasks : /\ DOMAIN tasks'[j] = TaskFields
                            /\ tasks'[j].kind = tasks[j].kind
                            /\ tasks'[j].on = tasks[j].on
                            /\ j # k => tasks'[j].left = tasks[j].left
    BY <1>3 DEF PInv, ProxyTypes, TaskFields
  <2> QED
    BY <1>1, <2>1, ProxyFacts
    DEF PInv, ProxyTypes, DownIsIdle, StopSavesFirst, StoppedIsOff, LateIsOff,
        SP!StopIsRemembered, SP!Do, SP!Unchanged
<1> QED
  BY <1>2, <1>3 DEF SP!PrefStays

LEMMA SavedStep ==
  ASSUME PInv, NEW p \in Processes, NEW on \in BOOLEAN, SP!Saved(p, on),
         s3' = s3, DOMAIN tasks' = Tasks,
         \A k \in Tasks : /\ DOMAIN tasks'[k] = TaskFields
                          /\ tasks'[k].kind = tasks[k].kind
                          /\ tasks'[k].on = tasks[k].on
  PROVE  PInv'
<1>1. \A q \in Processes : procs[q] \in ProcessType
  BY DEF PInv, ProxyTypes
<1> DEFINE Now(q) == IF q = p THEN [procs[q] EXCEPT !.on = on, !.stale = FALSE]
                     ELSE [procs[q] EXCEPT !.stale = procs[q].role # "down"]
<1>2. ASSUME NEW q \in Processes
      PROVE  /\ Now(q) \in ProcessType
             /\ Now(q).role = procs[q].role
             /\ Now(q).on = IF q = p THEN on ELSE procs[q].on
  <2>1. procs[q] \in ProcessType
    BY <1>1
  <2> QED
    BY <2>1 DEF ProcessType
<1>3. procs' = [q \in Processes |-> Now(q)]
  BY DEF SP!Saved
<1> HIDE DEF Now
<1>4. procs' \in [Processes -> ProcessType]
  BY <1>2, <1>3
<1>5. /\ procs'[p].on = on
      /\ \A q \in Processes : procs'[q].role = procs[q].role
      /\ \A q \in Processes \ {p} : procs'[q].on = procs[q].on
  BY <1>2, <1>3
<1> USE <1>4, <1>5, ProxyFacts
<1>6. /\ wish' = IF on THEN "other" ELSE wish
      /\ late' = IF on THEN {} ELSE late
      /\ pref' = IF on THEN "on" ELSE "off"
  BY DEF SP!Saved
<1>7. ProxyTypes'
  BY <1>6 DEF PInv, ProxyTypes
<1>8. DownIsIdle'
  BY <1>6 DEF PInv, ProxyTypes, DownIsIdle
<1>9. StopSavesFirst' /\ StoppedIsOff'
  BY <1>6 DEF PInv, ProxyTypes, StopSavesFirst, StoppedIsOff
<1>10. LateIsOff' /\ SP!StopIsRemembered'
  BY <1>6 DEF PInv, ProxyTypes, LateIsOff, SP!StopIsRemembered
<1> QED
  BY <1>7, <1>8, <1>9, <1>10 DEF PInv

LEMMA SavePrefStep ==
  ASSUME PInv, NEW k \in Tasks, NEW saved \in BOOLEAN, SP!SavePref(k, saved)
  PROVE  PInv'
<1> Owner[k] \in Processes
  BY ProxyFacts
<1>1. s3' = s3
  BY DEF SP!SavePref
<1>2. CASE saved
  <2>1. /\ SP!Saved(Owner[k], tasks[k].on)
        /\ tasks' = [tasks EXCEPT ![k].left = Tail(@)] \/ SP!PhaseEnds(k, TRUE)
    BY <1>2 DEF SP!SavePref
  <2>2. /\ DOMAIN tasks' = Tasks
        /\ \A j \in Tasks : /\ DOMAIN tasks'[j] = TaskFields
                            /\ tasks'[j].kind = tasks[j].kind
                            /\ tasks'[j].on = tasks[j].on
    <3>1. CASE tasks' = [tasks EXCEPT ![k].left = Tail(@)]
      BY <3>1 DEF PInv, ProxyTypes
    <3>2. CASE SP!PhaseEnds(k, TRUE)
      BY <3>2 DEF SP!PhaseEnds, PInv, ProxyTypes, TaskFields
    <3> QED
      BY <2>1, <3>1, <3>2
  <2> QED
    BY <1>1, <2>1, <2>2, SavedStep DEF PInv, ProxyTypes
<1>3. CASE ~saved
  <2>1. /\ procs' = [procs EXCEPT ![Owner[k]].on = tasks[k].on, ![Owner[k]].stale = TRUE]
        /\ SP!PhaseEnds(k, TRUE) /\ wish' = "other" /\ UNCHANGED <<pref, late>>
    BY <1>3 DEF SP!SavePref
  <2>2. /\ DOMAIN tasks' = Tasks
        /\ \A j \in Tasks : /\ DOMAIN tasks'[j] = TaskFields
                            /\ tasks'[j].kind = tasks[j].kind
                            /\ tasks'[j].on = tasks[j].on
    BY <2>1 DEF SP!PhaseEnds, PInv, ProxyTypes, TaskFields
  <2>3. procs' \in [Processes -> ProcessType]
    BY <2>1 DEF PInv, ProxyTypes, ProcessType
  <2>4. /\ procs'[Owner[k]].on = tasks[k].on
        /\ \A q \in Processes : procs'[q].role = procs[q].role
        /\ \A q \in Processes \ {Owner[k]} : procs'[q].on = procs[q].on
    BY <2>1 DEF PInv, ProxyTypes, ProcessType
  <2> QED
    BY <1>1, <2>1, <2>2, <2>3, <2>4, ProxyFacts
    DEF PInv, ProxyTypes, DownIsIdle, StopSavesFirst, StoppedIsOff, LateIsOff,
        SP!StopIsRemembered
<1> QED
  BY <1>2, <1>3

LEMMA FinishStep ==
  ASSUME PInv, NEW k \in Tasks, SP!Finish(k)
  PROVE  PInv'
<1>1. /\ tasks[k].left = <<>> /\ tasks' = [tasks EXCEPT ![k] = SP!Idle]
      /\ wish' = IF wish = k THEN "stopped" ELSE wish
      /\ UNCHANGED <<s3, pref, procs, late>>
  BY DEF SP!Finish, SP!files
<1>2. /\ DOMAIN SP!Idle = TaskFields /\ SP!Idle.on = FALSE
  BY DEF SP!Idle, TaskFields
<1>3. wish = k => pref = "off"
  BY <1>1 DEF PInv, StopSavesFirst, SP!Do
<1> QED
  BY <1>1, <1>2, <1>3, ProxyFacts
  DEF PInv, ProxyTypes, DownIsIdle, StopSavesFirst, StoppedIsOff, LateIsOff,
      SP!StopIsRemembered, SP!Do

LEMMA SetLanguageStep ==
  ASSUME PInv, NEW p \in Processes, SP!SetLanguage(p)
  PROVE  PInv'
<1>1. /\ SP!Saved(p, procs[p].on) /\ s3' = s3
      /\ tasks' = [k \in Tasks |-> [tasks[k] EXCEPT !.alone = @ /\ tasks[k] = SP!Idle]]
  BY DEF SP!SetLanguage
<1>2. procs[p].on \in BOOLEAN
  BY DEF PInv, ProxyTypes, ProcessType
<1>3. /\ DOMAIN tasks' = Tasks
      /\ \A j \in Tasks : /\ DOMAIN tasks'[j] = TaskFields
                          /\ tasks'[j].kind = tasks[j].kind
                          /\ tasks'[j].on = tasks[j].on
  BY <1>1 DEF PInv, ProxyTypes, TaskFields
<1> QED
  BY <1>1, <1>2, <1>3, SavedStep

LEMMA EndProcessStep ==
  ASSUME PInv, NEW p \in Processes, SP!EndProcess(p)
  PROVE  PInv'
<1> DEFINE own == {k \in Tasks : Owner[k] = p}
<1>1. /\ \/ wish' = wish /\ \A k \in own : tasks[k] = SP!Idle
         \/ wish' = "other"
      /\ procs' = [procs EXCEPT ![p] = SP!Down]
      /\ tasks' = [k \in Tasks |-> IF k \in own THEN SP!Idle ELSE tasks[k]]
      /\ late' = late \ {p} /\ UNCHANGED <<s3, pref>>
  BY DEF SP!EndProcess, SP!files
<1>2. DOMAIN SP!Idle = TaskFields /\ SP!Idle.on = FALSE
  BY DEF SP!Idle, TaskFields
<1>3. SP!Down \in ProcessType /\ SP!Down.role = "down"
  BY ProxyFacts DEF SP!Down, ProcessType
<1>4. \A k \in own : wish' # k
  BY <1>1, IdleFacts, ProxyFacts
<1>5. ProxyTypes'
  BY <1>1, <1>2, <1>3 DEF PInv, ProxyTypes
<1>6. DownIsIdle'
  BY <1>1, <1>2, <1>4, ProxyFacts DEF PInv, ProxyTypes, DownIsIdle
<1>7. StopSavesFirst' /\ StoppedIsOff'
  BY <1>1, <1>4, ProxyFacts DEF PInv, ProxyTypes, StopSavesFirst, StoppedIsOff, SP!Do
<1>8. LateIsOff' /\ SP!StopIsRemembered'
  BY <1>1, ProxyFacts DEF PInv, ProxyTypes, LateIsOff, SP!StopIsRemembered
<1> QED
  BY <1>5, <1>6, <1>7, <1>8 DEF PInv
-----------------------------------------------------------------------------
LEMMA ProxyInvariant == Spec => [](part = "proxy" => PInv)
<1>1. Init => (part = "proxy" => PInv)
  <2> SUFFICES ASSUME Init, part = "proxy" PROVE PInv
    OBVIOUS
  <2>1. SP!Init
    BY DEF Init
  <2>2. DOMAIN SP!Idle = TaskFields /\ SP!Idle.on = FALSE
    BY DEF SP!Idle, TaskFields
  <2>3. SP!Down \in ProcessType /\ SP!Down.role = "down" /\ SP!Down.port \in Ports
    BY ProxyFacts DEF SP!Down, ProcessType
  <2> QED
    BY <2>1, <2>2, <2>3, ProxyFacts
    DEF SP!Init, PInv, ProxyTypes, DownIsIdle, StopSavesFirst, StoppedIsOff, LateIsOff,
        SP!StopIsRemembered
<1>2. (part = "proxy" => PInv) /\ [Next]_state => (part = "proxy" => PInv)'
  <2> SUFFICES ASSUME PInv, part = "proxy", SP!Next PROVE PInv'
    <3>1. CASE UNCHANGED state
      BY <3>1 DEF state, PInv, ProxyTypes, DownIsIdle, StopSavesFirst, StoppedIsOff,
         LateIsOff, SP!StopIsRemembered, SP!Do
    <3> QED
      BY <3>1 DEF Next
  <2>1. ASSUME NEW k \in Tasks, NEW on \in SP!Reads,
               SP!Run(k, on) \/ SP!RunMihomoStart(k, on)
        PROVE  PInv'
    <3>1. CASE SP!Run(k, on)
      BY <3>1, RunStep DEF SP!Run, SP!files
    <3>2. CASE SP!RunMihomoStart(k, on)
      BY <3>2, RunStep DEF SP!RunMihomoStart, SP!files
    <3> QED
      BY <2>1, <3>1, <3>2
  <2>2. ASSUME NEW k \in Tasks
        PROVE  /\ SP!StopFromDashboard(k) \/ SP!Cleanup(k) => PInv'
               /\ SP!ReadFile(k) \/ SP!Truncate(k) \/ SP!Fill(k) => PInv'
               /\ SP!FileFails(k) \/ SP!FilesDone(k) => PInv'
               /\ SP!Session(k) \/ SP!PrefStays(k) \/ SP!Finish(k) => PInv'
    BY DashboardStep, CleanupStep, FileSteps, FileFailsStep, EndsOfPhases, PrefStaysStep,
       FinishStep
  <2> QED
    BY <2>1, <2>2, StopCommandStep, ToggleStep, ChangePortStep, SavePrefStep,
       SetLanguageStep, EndProcessStep
    DEF SP!Next
<1> QED
  BY <1>1, <1>2, PTL DEF Spec

(* Once the proxy is off with the kernel, no process that starts later      *)
(* switches it on again, whatever else runs, fails or is killed meanwhile.  *)
THEOREM StopsAreRemembered == Spec => []StopIsRemembered
<1>1. (part = "proxy" => PInv) => StopIsRemembered
  BY DEF PInv, StopIsRemembered
<1> QED
  BY <1>1, ProxyInvariant, PTL
-----------------------------------------------------------------------------
(* ShellFiles.  What a scan of a text does follows by induction over its    *)
(* lines; the least number of a set takes the place of an induction theorem.*)
LEMMA LeastExists ==
  ASSUME NEW S \in SUBSET Nat, S # {}
  PROVE  \E i \in S : \A j \in S : i =< j
<1> DEFINE R == OpToRel(<, Nat)
<1>1. IsWellFoundedOn(R, Nat)
  BY NatLessThanWellFounded
<1>2. \A i, j \in Nat : i < j => <<i, j>> \in R
  BY DEF OpToRel
<1> HIDE DEF R
<1>3. PICK i \in S : \A j \in S : <<j, i>> \notin R
  BY <1>1, WFMin
<1>4. ASSUME NEW j \in S PROVE i =< j
  <2>1. i \in Nat /\ j \in Nat
    OBVIOUS
  <2>2. ~(j < i)
    BY <1>2, <1>3, <2>1
  <2> QED
    BY <2>1, <2>2
<1> QED
  BY <1>4

LEMMA MinFacts ==
  ASSUME NEW S \in SUBSET Nat, S # {}
  PROVE  SP!Min(S) \in S /\ \A j \in S : SP!Min(S) =< j
BY LeastExists DEF SP!Min

LEMMA UpTo ==
  ASSUME NEW n \in Nat, NEW T,
         0 \in T, \A i \in 0..n : i \in T /\ i < n => i + 1 \in T
  PROVE  \A i \in 0..n : i \in T
<1> DEFINE Bad == {i \in 0..n : i \notin T}
<1>1. SUFFICES ASSUME Bad # {} PROVE FALSE
  OBVIOUS
<1>a. Bad \in SUBSET Nat
  OBVIOUS
<1> HIDE DEF Bad
<1>2. PICK i \in Bad : \A j \in Bad : i =< j
  BY <1>1, <1>a, LeastExists
<1>3. i # 0 /\ i \in 0..n
  BY DEF Bad
<1>4. i - 1 \in 0..n /\ i - 1 < n /\ (i - 1) + 1 = i /\ ~(i =< i - 1)
  BY <1>3
<1>5. i - 1 \notin Bad
  BY <1>2, <1>4
<1> QED
  BY <1>2, <1>4, <1>5 DEF Bad

Outside == [out |-> <<>>, in |-> FALSE]

(* What `after` of Scan is made from. *)
Scanned(text, f, n) == IF n = 0 THEN Outside ELSE SP!StripLine(f[n - 1], text[n])

LEMMA AfterExists ==
  ASSUME NEW text, NEW N \in Nat
  PROVE  \E f : f = [n \in 0..N |-> Scanned(text, f, n)]
<1> DEFINE T == {k \in 0..N : \E f : f = [n \in 0..k |-> Scanned(text, f, n)]}
<1>1. 0 \in T
  <2> DEFINE f == [n \in 0..0 |-> Outside]
  <2>1. f = [n \in 0..0 |-> Scanned(text, f, n)]
    BY DEF Scanned
  <2> QED
    BY <2>1
<1>2. \A k \in 0..N : k \in T /\ k < N => k + 1 \in T
  <2> SUFFICES ASSUME NEW k \in 0..N, k \in T, k < N PROVE k + 1 \in T
    OBVIOUS
  <2>1. PICK f : f = [n \in 0..k |-> Scanned(text, f, n)]
    OBVIOUS
  <2> DEFINE g == [n \in 0..k + 1 |-> IF n = k + 1 THEN Scanned(text, f, n) ELSE f[n]]
  <2>2. \A n \in 0..k : g[n] = f[n]
    OBVIOUS
  <2>3. ASSUME NEW n \in 0..k + 1 PROVE Scanned(text, f, n) = Scanned(text, g, n)
    <3>1. n # 0 => n - 1 \in 0..k
      OBVIOUS
    <3>2. n # 0 => g[n - 1] = f[n - 1]
      BY <2>2, <3>1
    <3> HIDE DEF g
    <3> QED
      BY <3>2 DEF Scanned
  <2>4. \A n \in 0..k : f[n] = Scanned(text, f, n)
    BY <2>1
  <2>5. \A n \in 0..k + 1 : g[n] = Scanned(text, g, n)
    BY <2>3, <2>4
  <2>6. g = [n \in 0..k + 1 |-> g[n]]
    OBVIOUS
  <2> HIDE DEF g
  <2>7. g = [n \in 0..k + 1 |-> Scanned(text, g, n)]
    BY <2>5, <2>6
  <2> QED
    BY <2>7
<1> HIDE DEF T
<1>3. N \in T
  BY <1>1, <1>2, UpTo
<1> QED
  BY <1>3 DEF T

(* A scan goes from line to line.                                           *)
LEMMA ScanSteps ==
  ASSUME NEW text, Len(text) \in Nat
  PROVE  \E f : /\ f[0] = Outside
                /\ \A n \in 0..Len(text) : n < Len(text) =>
                     f[n + 1] = SP!StripLine(f[n], text[n + 1])
                /\ SP!Scan(text) = f[Len(text)]
<1> DEFINE N == Len(text)
           Is(f) == f = [n \in 0..N |-> IF n = 0 THEN [out |-> <<>>, in |-> FALSE]
                                        ELSE SP!StripLine(f[n - 1], text[n])]
           f == CHOOSE f : Is(f)
<1>1. \E g : Is(g)
  BY AfterExists DEF Scanned, Outside
<1>2. Is(f)
  BY <1>1
<1>3. SP!Scan(text) = f[N]
  BY DEF SP!Scan
<1> HIDE DEF f
<1>4. \A n \in 0..N : f[n] = IF n = 0 THEN Outside ELSE SP!StripLine(f[n - 1], text[n])
  BY <1>2, Zenon DEF Outside
<1>5. 0 \in 0..N
  OBVIOUS
<1>6. f[0] = Outside
  BY <1>4, <1>5
<1>7. ASSUME NEW n \in 0..N, n < N PROVE f[n + 1] = SP!StripLine(f[n], text[n + 1])
  <2>1. n + 1 \in 0..N /\ n + 1 # 0 /\ (n + 1) - 1 = n
    BY <1>7
  <2> QED
    BY <1>4, <2>1
<1> QED
  BY <1>3, <1>6, <1>7

LEMMA StripFacts ==
  ASSUME NEW out, NEW line
  PROVE  /\ line # SP!Start => SP!StripLine([out |-> out, in |-> FALSE], line)
                                 = [out |-> Append(out, line), in |-> FALSE]
         /\ SP!StripLine([out |-> out, in |-> FALSE], SP!Start) = [out |-> out, in |-> TRUE]
         /\ line # SP!End => SP!StripLine([out |-> out, in |-> TRUE], line)
                               = [out |-> out, in |-> TRUE]
         /\ SP!StripLine([out |-> out, in |-> TRUE], SP!End) = [out |-> out, in |-> FALSE]
BY DEF SP!StripLine

NoStart(text) == \A i \in 1..Len(text) : text[i] # SP!Start

LEMMA Heads ==
  ASSUME NEW X, NEW s \in Seq(X)
  PROVE  /\ SubSeq(s, 1, 0) = <<>> /\ SubSeq(s, 1, Len(s)) = s
         /\ \A n \in 0..Len(s) :
              n < Len(s) => Append(SubSeq(s, 1, n), s[n + 1]) = SubSeq(s, 1, n + 1)
<1>1. SubSeq(s, 1, 0) = <<>> /\ SubSeq(s, 1, Len(s)) = s
  OBVIOUS
<1>2. ASSUME NEW n \in 0..Len(s), n < Len(s)
      PROVE  Append(SubSeq(s, 1, n), s[n + 1]) = SubSeq(s, 1, n + 1)
  <2> DEFINE a == SubSeq(s, 1, n)
             b == SubSeq(s, 1, n + 1)
  <2>1. /\ a \in Seq(X) /\ Len(a) = n /\ \A i \in 1..n : a[i] = s[i]
        /\ b \in Seq(X) /\ Len(b) = n + 1 /\ \A i \in 1..n + 1 : b[i] = s[i]
        /\ s[n + 1] \in X /\ n \in Nat
    BY <1>2
  <2> HIDE DEF a, b
  <2>2. /\ Append(a, s[n + 1]) \in Seq(X) /\ Len(Append(a, s[n + 1])) = n + 1
        /\ \A i \in 1..n + 1 : Append(a, s[n + 1])[i] = b[i]
    BY <2>1
  <2>3. Append(a, s[n + 1]) = b
    BY <2>1, <2>2, SeqEqual
  <2> QED
    BY <2>3 DEF a, b
<1> QED
  BY <1>1, <1>2

(* A text without a start marker is all the user's.                         *)
LEMMA ScanPlain ==
  ASSUME NEW X, NEW s \in Seq(X), NoStart(s)
  PROVE  SP!Scan(s) = [out |-> s, in |-> FALSE]
<1>1. Len(s) \in Nat
  OBVIOUS
<1>2. PICK f : /\ f[0] = Outside
               /\ \A n \in 0..Len(s) : n < Len(s) =>
                    f[n + 1] = SP!StripLine(f[n], s[n + 1])
               /\ SP!Scan(s) = f[Len(s)]
  BY <1>1, ScanSteps
<1> DEFINE T == {n \in 0..Len(s) : f[n] = [out |-> SubSeq(s, 1, n), in |-> FALSE]}
<1>a. SubSeq(s, 1, 0) = <<>> /\ SubSeq(s, 1, Len(s)) = s
  BY Heads
<1>3. 0 \in T
  <2>1. f[0] = [out |-> SubSeq(s, 1, 0), in |-> FALSE]
    BY <1>2, <1>a, Zenon DEF Outside
  <2> QED
    BY <1>1, <2>1
<1>4. ASSUME NEW n \in 0..Len(s), n \in T, n < Len(s) PROVE n + 1 \in T
  <2>1. f[n + 1] = SP!StripLine([out |-> SubSeq(s, 1, n), in |-> FALSE], s[n + 1])
    BY <1>2, <1>4
  <2>2. s[n + 1] # SP!Start /\ n + 1 \in 0..Len(s)
    BY <1>4 DEF NoStart
  <2>3. f[n + 1] = [out |-> Append(SubSeq(s, 1, n), s[n + 1]), in |-> FALSE]
    BY <2>1, <2>2 DEF SP!StripLine
  <2> QED
    BY <1>4, <2>2, <2>3, Heads
<1>5. Len(s) \in T
  <2> HIDE DEF T
  <2>1. \A n \in 0..Len(s) : n \in T /\ n < Len(s) => n + 1 \in T
    BY <1>4
  <2>2. \A n \in 0..Len(s) : n \in T
    BY <1>1, <1>3, <2>1, UpTo
  <2> QED
    BY <1>1, <2>2
<1> QED
  BY <1>2, <1>5, Heads

(* What is left of a text has no start marker.                              *)
LEMMA ScanOut ==
  ASSUME NEW X, NEW s \in Seq(X)
  PROVE  SP!Scan(s).out \in Seq(X) /\ NoStart(SP!Scan(s).out)
<1>1. Len(s) \in Nat
  OBVIOUS
<1>2. PICK f : /\ f[0] = Outside
               /\ \A n \in 0..Len(s) : n < Len(s) =>
                    f[n + 1] = SP!StripLine(f[n], s[n + 1])
               /\ SP!Scan(s) = f[Len(s)]
  BY <1>1, ScanSteps
<1> DEFINE T == {n \in 0..Len(s) : /\ f[n] \in [out : Seq(X), in : BOOLEAN]
                                  /\ NoStart(f[n].out)}
<1>3. 0 \in T
  <2>1. /\ <<>> \in Seq(X) /\ NoStart(<<>>) /\ 0 \in 0..Len(s)
    BY <1>1 DEF NoStart
  <2>2. f[0] \in [out : Seq(X), in : BOOLEAN] /\ f[0].out = <<>>
    BY <1>2, <2>1 DEF Outside
  <2> QED
    BY <2>1, <2>2
<1>4. ASSUME NEW n \in 0..Len(s), n \in T, n < Len(s) PROVE n + 1 \in T
  <2> PICK acc, line : acc = f[n] /\ line = s[n + 1]
    OBVIOUS
  <2>1. f[n + 1] = SP!StripLine(acc, line) /\ line \in X /\ n + 1 \in 0..Len(s)
    BY <1>2, <1>4
  <2>2. acc \in [out : Seq(X), in : BOOLEAN] /\ NoStart(acc.out)
    BY <1>4
  <2>3. CASE acc.in \/ line = SP!Start
    <3>1. f[n + 1].out = acc.out /\ f[n + 1] \in [out : Seq(X), in : BOOLEAN]
      BY <2>1, <2>2, <2>3 DEF SP!StripLine
    <3> QED
      BY <2>1, <2>2, <3>1
  <2>4. CASE ~acc.in /\ line # SP!Start
    <3>1. f[n + 1] = [acc EXCEPT !.out = Append(acc.out, line)]
      BY <2>1, <2>4 DEF SP!StripLine
    <3>2. Append(acc.out, line) \in Seq(X) /\ NoStart(Append(acc.out, line))
      BY <2>1, <2>2, <2>4 DEF NoStart
    <3> QED
      BY <2>1, <2>2, <3>1, <3>2
  <2> QED
    BY <2>3, <2>4
<1>5. Len(s) \in T
  <2> HIDE DEF T
  <2>1. \A n \in 0..Len(s) : n \in T /\ n < Len(s) => n + 1 \in T
    BY <1>4
  <2>2. \A n \in 0..Len(s) : n \in T
    BY <1>1, <1>3, <2>1, UpTo
  <2> QED
    BY <1>1, <2>2
<1> QED
  BY <1>2, <1>5

(* t is base with a block of a port put in after its first h lines.         *)
Inserted(t, base, port, h) ==
  /\ h \in 0..Len(base) /\ Len(t) = Len(base) + 3
  /\ \A i \in 1..h : t[i] = base[i]
  /\ t[h + 1] = SP!Start /\ t[h + 2] = port /\ t[h + 3] = SP!End
  /\ \A i \in (h + 1)..Len(base) : t[i + 3] = base[i]

(* Of a text with a block put in, what was there before is the user's.      *)
LEMMA ScanInserted ==
  ASSUME NEW X, NEW base \in Seq(X), NoStart(base), NEW port, port # SP!End,
         NEW h, NEW t, Inserted(t, base, port, h)
  PROVE  SP!Scan(t) = [out |-> base, in |-> FALSE]
<1> DEFINE b == Len(base)
<1>1. b \in Nat /\ h \in 0..b /\ Len(t) = b + 3 /\ Len(t) \in Nat
  BY DEF Inserted
<1>2. PICK f : /\ f[0] = Outside
               /\ \A n \in 0..Len(t) : n < Len(t) =>
                    f[n + 1] = SP!StripLine(f[n], t[n + 1])
               /\ SP!Scan(t) = f[Len(t)]
  BY <1>1, ScanSteps
<1> DEFINE Kept(n, open) == [out |-> SubSeq(base, 1, n), in |-> open]
<1>3. ASSUME NEW n \in 0..b, n < b, NEW m \in 0..Len(t), m < Len(t),
             f[m] = Kept(n, FALSE), t[m + 1] = base[n + 1]
      PROVE  f[m + 1] = Kept(n + 1, FALSE)
  <2>1. base[n + 1] # SP!Start
    BY <1>3 DEF NoStart
  <2>2. f[m + 1] = SP!StripLine(Kept(n, FALSE), base[n + 1])
    BY <1>2, <1>3
  <2>3. f[m + 1] = [out |-> Append(SubSeq(base, 1, n), base[n + 1]), in |-> FALSE]
    BY <2>1, <2>2 DEF SP!StripLine
  <2> QED
    BY <1>3, <2>3, Heads
<1> DEFINE T == {n \in 0..h : f[n] = Kept(n, FALSE)}
<1>4. h \in T
  <2>1. 0 \in T
    <3>1. SubSeq(base, 1, 0) = <<>>
      BY Heads
    <3>2. f[0] = Kept(0, FALSE)
      BY <1>2, <3>1, Zenon DEF Outside
    <3> QED
      BY <1>1, <3>2
  <2>2. ASSUME NEW n \in 0..h, n \in T, n < h PROVE n + 1 \in T
    <3>1. /\ n \in 0..b /\ n < b /\ n \in 0..Len(t) /\ n < Len(t)
          /\ n + 1 \in 0..h /\ n + 1 \in 1..h
      BY <1>1, <2>2
    <3>2. t[n + 1] = base[n + 1]
      BY <3>1 DEF Inserted
    <3>3. f[n] = Kept(n, FALSE)
      BY <2>2
    <3> HIDE DEF Kept
    <3> QED
      BY <1>3, <3>1, <3>2, <3>3
  <2> HIDE DEF T
  <2>3. h \in Nat
    BY <1>1
  <2>4. \A n \in 0..h : n \in T /\ n < h => n + 1 \in T
    BY <2>2
  <2>5. \A n \in 0..h : n \in T
    BY <2>1, <2>3, <2>4, UpTo
  <2> QED
    BY <2>3, <2>5
<1>5. f[h + 3] = Kept(h, FALSE)
  <2>1. /\ h + 1 \in 0..Len(t) /\ h + 2 \in 0..Len(t) /\ h \in 0..Len(t)
        /\ h < Len(t) /\ h + 1 < Len(t) /\ h + 2 < Len(t)
        /\ (h + 1) + 1 = h + 2 /\ (h + 2) + 1 = h + 3
    BY <1>1
  <2>2. /\ f[h + 1] = SP!StripLine(f[h], SP!Start)
        /\ f[h + 2] = SP!StripLine(f[h + 1], port)
        /\ f[h + 3] = SP!StripLine(f[h + 2], SP!End)
    BY <1>2, <2>1 DEF Inserted
  <2>3. f[h] = Kept(h, FALSE)
    BY <1>4
  <2>4. f[h + 1] = Kept(h, TRUE)
    BY <2>2, <2>3, StripFacts
  <2>5. f[h + 2] = Kept(h, TRUE)
    BY <2>2, <2>4, StripFacts
  <2> QED
    BY <2>2, <2>5, StripFacts
<1> DEFINE U == {n \in 0..b : n >= h => f[n + 3] = Kept(n, FALSE)}
<1>6. b \in U
  <2>1. 0 \in U
    <3>1. (0 >= h => h = 0) /\ 0 \in 0..b
      BY <1>1
    <3> HIDE DEF Kept
    <3>2. 0 >= h => f[0 + 3] = Kept(0, FALSE)
      BY <1>5, <3>1
    <3> QED
      BY <3>1, <3>2
  <2>2. ASSUME NEW n \in 0..b, n \in U, n < b PROVE n + 1 \in U
    <3>1. n + 1 \in 0..b
      BY <1>1, <2>2
    <3>2. CASE n >= h
      <4>1. /\ n + 3 \in 0..Len(t) /\ n + 3 < Len(t) /\ n + 1 \in (h + 1)..b
            /\ (n + 3) + 1 = (n + 1) + 3
        BY <1>1, <2>2, <3>2
      <4>2. t[(n + 3) + 1] = base[n + 1]
        BY <4>1 DEF Inserted
      <4>3. f[n + 3] = Kept(n, FALSE)
        BY <2>2, <3>2
      <4> HIDE DEF Kept
      <4>4. f[(n + 3) + 1] = Kept(n + 1, FALSE)
        BY <1>3, <2>2, <4>1, <4>2, <4>3
      <4> QED
        BY <3>1, <4>1, <4>4
    <3>3. CASE ~(n >= h)
      <4>1. n + 1 >= h => n + 1 = h
        BY <1>1, <2>2, <3>3
      <4> HIDE DEF Kept
      <4> QED
        BY <1>5, <3>1, <4>1
    <3> QED
      BY <3>2, <3>3
  <2> HIDE DEF U
  <2>3. \A n \in 0..b : n \in U /\ n < b => n + 1 \in U
    BY <2>2
  <2>4. \A n \in 0..b : n \in U
    BY <1>1, <2>1, <2>3, UpTo
  <2> QED
    BY <1>1, <2>4
<1>7. f[b + 3] = Kept(b, FALSE)
  BY <1>1, <1>6
<1> QED
  BY <1>1, <1>2, <1>7, Heads

LEMMA PortFacts ==
  ASSUME NEW port \in Ports
  PROVE  /\ port # SP!Start /\ port # SP!End
         /\ SP!Block(port) \in Seq(SP!Line) /\ Len(SP!Block(port)) = 3
         /\ SP!Block(port)[1] = SP!Start /\ SP!Block(port)[2] = port
         /\ SP!Block(port)[3] = SP!End
<1>1. port # SP!Start /\ port # SP!End
  BY SurroundingsAssumption DEF SP!Assumptions
<1>2. {SP!Start, port, SP!End} \subseteq SP!Line
  BY DEF SP!Line
<1> QED
  BY <1>1, <1>2 DEF SP!Block

LEMMA Joined ==
  ASSUME NEW X, NEW s \in Seq(X), NEW b \in Seq(X), NEW t, t = s \o b
  PROVE  /\ t \in Seq(X) /\ Len(t) = Len(s) + Len(b)
         /\ \A i \in 1..Len(s) : t[i] = s[i]
         /\ \A i \in 1..Len(b) : t[Len(s) + i] = b[i]
OBVIOUS

EndsWithBlock(t, s, port) ==
  /\ t \in Seq(SP!Line) /\ Len(t) = Len(s) + 3
  /\ \A i \in 1..Len(s) : t[i] = s[i]
  /\ t[Len(s) + 1] = SP!Start /\ t[Len(s) + 2] = port /\ t[Len(s) + 3] = SP!End

LEMMA BlockAtEnd ==
  ASSUME NEW s \in Seq(SP!Line), NEW port \in Ports
  PROVE  EndsWithBlock(s \o SP!Block(port), s, port)
<1> PICK block, t : block = SP!Block(port) /\ t = s \o block
  OBVIOUS
<1>1. block \in Seq(SP!Line)
  BY PortFacts
<1>2. /\ t \in Seq(SP!Line) /\ Len(t) = Len(s) + Len(block)
      /\ \A i \in 1..Len(s) : t[i] = s[i]
      /\ \A i \in 1..Len(block) : t[Len(s) + i] = block[i]
  BY <1>1, Joined
<1>3. /\ Len(block) = 3 /\ block[1] = SP!Start /\ block[2] = port /\ block[3] = SP!End
  BY PortFacts
<1> QED
  BY <1>2, <1>3 DEF EndsWithBlock

(* Insert puts the block at one place and leaves the other lines.           *)
LEMMA InsertFacts ==
  ASSUME NEW base \in Seq(SP!Line), NEW port \in Ports,
         NEW t, t = SP!Insert(base, SP!Block(port))
  PROVE  t \in Seq(SP!Line) /\ \E h : Inserted(t, base, port, h)
<1>2. Len(base) \in Nat
  OBVIOUS
<1>3. CASE ~SP!Contains(base, SP!Guard)
  <2>1. t = base \o SP!Block(port)
    BY <1>3 DEF SP!Insert
  <2>2. t \in Seq(SP!Line) /\ Inserted(t, base, port, Len(base))
    <3>1. EndsWithBlock(t, base, port)
      BY <2>1, BlockAtEnd
    <3>2. (Len(base) + 1)..Len(base) = {}
      BY <1>2
    <3> QED
      BY <1>2, <3>1, <3>2 DEF Inserted, EndsWithBlock
  <2> QED
    BY <2>2
<1>4. CASE SP!Contains(base, SP!Guard)
  <2> DEFINE I == {i \in 1..Len(base) : base[i] = SP!Guard}
             g == SP!SelectInSeq(base, LAMBDA l : l = SP!Guard)
             head == SubSeq(base, 1, g - 1)
             tail == SubSeq(base, Len(head) + 1, Len(base))
  <2>1. I # {} /\ I \in SUBSET Nat
    BY <1>4 DEF SP!Contains
  <2>2. g = SP!Min(I)
    BY <2>1 DEF SP!SelectInSeq
  <2>3. g \in I
    BY <2>1, <2>2, MinFacts
  <2>4. g \in 1..Len(base)
    BY <2>3
  <2>5. SP!Before(base, SP!Guard) = head
    BY DEF SP!Before
  <2>6. t = (head \o SP!Block(port)) \o tail
    BY <1>4, <2>5 DEF SP!Insert
  <2> HIDE DEF I, g
  <2>7. /\ head \in Seq(SP!Line) /\ Len(head) = g - 1
        /\ \A i \in 1..g - 1 : head[i] = base[i]
    BY <1>2, <2>4
  <2> HIDE DEF head
  <2>8. /\ tail \in Seq(SP!Line) /\ Len(tail) = Len(base) - (g - 1)
        /\ \A i \in 1..Len(base) - (g - 1) : tail[i] = base[i + (g - 1)]
    BY <1>2, <2>4, <2>7
  <2> HIDE DEF tail
  <2> DEFINE a == head \o SP!Block(port)
  <2>9. /\ a \in Seq(SP!Line) /\ Len(a) = g + 2
        /\ \A i \in 1..g - 1 : a[i] = base[i]
        /\ a[g] = SP!Start /\ a[g + 1] = port /\ a[g + 2] = SP!End
    <3>1. EndsWithBlock(a, head, port)
      BY <2>7, BlockAtEnd
    <3> HIDE DEF a
    <3>2. (g - 1) + 1 = g /\ (g - 1) + 2 = g + 1 /\ (g - 1) + 3 = g + 2
      BY <2>4
    <3> QED
      BY <2>7, <3>1, <3>2 DEF EndsWithBlock
  <2> HIDE DEF a
  <2>10. t = a \o tail
    BY <2>6 DEF a
  <2>11. t \in Seq(SP!Line) /\ Len(t) = Len(base) + 3
    <3>1. a \in Seq(SP!Line) /\ tail \in Seq(SP!Line)
      BY <2>8, <2>9
    <3>2. t \in Seq(SP!Line) /\ Len(t) = Len(a) + Len(tail)
      BY <2>10, <3>1, Joined
    <3> QED
      BY <1>2, <2>4, <2>8, <2>9, <3>2
  <2>12. \A i \in 1..g + 2 : t[i] = a[i]
    BY <2>4, <2>8, <2>9, <2>10
  <2>13. ASSUME NEW i \in g..Len(base) PROVE t[i + 3] = base[i]
    <3>1. /\ i - (g - 1) \in 1..Len(base) - (g - 1) /\ i - (g - 1) + (g - 1) = i
          /\ i + 3 = Len(a) + (i - (g - 1))
      BY <1>2, <2>4, <2>9
    <3>2. t[i + 3] = tail[i - (g - 1)]
      BY <2>4, <2>8, <2>9, <2>10, <3>1
    <3> QED
      BY <2>8, <3>1, <3>2
  <2>14. Inserted(t, base, port, g - 1)
    BY <1>2, <2>4, <2>9, <2>11, <2>12, <2>13 DEF Inserted
  <2> QED
    BY <2>11, <2>14
<1> QED
  BY <1>3, <1>4

LEMMA InsertedHasBlock ==
  ASSUME NEW t \in Seq(SP!Line), NEW base \in Seq(SP!Line), NEW port \in Ports,
         NEW h, Inserted(t, base, port, h)
  PROVE  SP!HasBlock(t, port)
<1>1. /\ Len(base) \in Nat /\ h \in 0..Len(base) /\ Len(t) = Len(base) + 3
      /\ t[h + 1] = SP!Start /\ t[h + 2] = port /\ t[h + 3] = SP!End
  BY DEF Inserted
<1> DEFINE i == h + 1
           sub == SubSeq(t, i, i + 2)
<1>2. i \in 1..(Len(t) - 2)
  BY <1>1
<1>3. /\ sub \in Seq(SP!Line) /\ Len(sub) = 3
      /\ sub[1] = t[h + 1] /\ sub[2] = t[h + 2] /\ sub[3] = t[h + 3]
  BY <1>1
<1> HIDE DEF sub
<1>4. sub = SP!Block(port)
  <2> PICK block : block = SP!Block(port)
    OBVIOUS
  <2>1. /\ block \in Seq(SP!Line) /\ Len(block) = 3
        /\ block[1] = SP!Start /\ block[2] = port /\ block[3] = SP!End
    BY PortFacts
  <2>2. \A k \in 1..3 : sub[k] = block[k]
    BY <1>1, <1>3, <2>1
  <2> QED
    BY <1>3, <2>1, <2>2, SeqEqual
<1> QED
  BY <1>2, <1>4 DEF SP!HasBlock, sub

(* t is a text with all its markers, and own is what the user wrote.        *)
Good(t, own) ==
  t \in Seq(SP!Line) /\ ~SP!Broken(t) /\ SP!UserText(t) = own

LEMMA GoodTexts ==
  ASSUME NEW t, NEW own, Good(t, own), NEW port \in Ports
  PROVE  Good(SP!Strip(t), own) /\ Good(SP!Upsert(t, port), own)
<1>1. /\ own \in Seq(SP!Line) /\ NoStart(own)
      /\ SP!Strip(t) = own /\ SP!Base(t) = own
  BY ScanOut DEF Good, SP!UserText, SP!Strip, SP!Base
<1>2. Good(own, own)
  BY <1>1, ScanPlain DEF Good, SP!Broken, SP!UserText
<1>3. Good(SP!Upsert(t, port), own)
  <2>1. CASE SP!HasBlock(t, port)
    BY <2>1 DEF SP!Upsert
  <2>2. CASE ~SP!HasBlock(t, port)
    <3>1. SP!Upsert(t, port) = SP!Insert(own, SP!Block(port))
      BY <1>1, <2>2 DEF SP!Upsert
    <3> PICK u : u = SP!Insert(own, SP!Block(port))
      OBVIOUS
    <3>2. u \in Seq(SP!Line) /\ \E h : Inserted(u, own, port, h)
      BY <1>1, InsertFacts
    <3>3. SP!Scan(u) = [out |-> own, in |-> FALSE]
      BY <1>1, <3>2, ScanInserted, PortFacts
    <3>4. Good(u, own)
      BY <3>2, <3>3 DEF Good, SP!Broken, SP!UserText
    <3> QED
      BY <3>1, <3>4
  <2> QED
    BY <2>1, <2>2
<1> QED
  BY <1>1, <1>2, <1>3

LEMMA GoodBlock ==
  ASSUME NEW port \in Ports
  PROVE  Good(SP!Block(port), <<>>) /\ Good(<<>>, <<>>)
<1> PICK t : t = SP!Block(port)
  OBVIOUS
<1> PICK none : none = <<>>
  OBVIOUS
<1>1. none \in Seq(SP!Line) /\ NoStart(none)
  BY DEF NoStart
<1>2. t \in Seq(SP!Line) /\ Inserted(t, none, port, 0)
  BY PortFacts DEF Inserted
<1>3. port # SP!End
  BY PortFacts
<1>4. SP!Scan(t) = [out |-> none, in |-> FALSE]
  BY <1>1, <1>2, <1>3, ScanInserted
<1>5. Good(none, none)
  <2>1. SP!Scan(none) = [out |-> none, in |-> FALSE]
    BY <1>1, ScanPlain
  <2> QED
    BY <1>1, <2>1 DEF Good, SP!Broken, SP!UserText
<1> QED
  BY <1>2, <1>4, <1>5 DEF Good, SP!Broken, SP!UserText

(* Also a text that has lost a marker gives a text.                         *)
LEMMA TextTypes ==
  ASSUME NEW t \in Seq(SP!Line), NEW port \in Ports
  PROVE  /\ SP!Strip(t) \in Seq(SP!Line) /\ SP!Base(t) \in Seq(SP!Line)
         /\ SP!Upsert(t, port) \in Seq(SP!Line)
<1>1. SP!Scan(t).out \in Seq(SP!Line)
  BY ScanOut
<1>2. SP!Strip(t) \in Seq(SP!Line)
  BY <1>1 DEF SP!Strip
<1>3. SP!Before(t, SP!Start) \in Seq(SP!Line)
  <2> DEFINE I == {i \in 1..Len(t) : t[i] = SP!Start}
             g == SP!SelectInSeq(t, LAMBDA l : l = SP!Start)
  <2>1. g = IF I # {} THEN SP!Min(I) ELSE 0
    BY DEF SP!SelectInSeq
  <2>2. I # {} => SP!Min(I) \in I
    <3>1. I \in SUBSET Nat
      OBVIOUS
    <3> HIDE DEF I
    <3> QED
      BY <3>1, MinFacts
  <2>3. g \in 0..Len(t)
    BY <2>1, <2>2
  <2>4. SP!Before(t, SP!Start) = SubSeq(t, 1, g - 1)
    BY DEF SP!Before
  <2> HIDE DEF I, g
  <2>5. CASE g = 0
    <3>1. SubSeq(t, 1, 0 - 1) = <<>>
      OBVIOUS
    <3> QED
      BY <2>4, <2>5, <3>1
  <2>6. CASE g # 0
    BY <2>3, <2>4, <2>6
  <2> QED
    BY <2>5, <2>6
<1>4. SP!Base(t) \in Seq(SP!Line)
  BY <1>2, <1>3 DEF SP!Base
<1>5. SP!Upsert(t, port) \in Seq(SP!Line)
  <2> PICK b, u : b = SP!Base(t) /\ u = SP!Insert(b, SP!Block(port))
    OBVIOUS
  <2>1. u \in Seq(SP!Line)
    BY <1>4, InsertFacts
  <2> QED
    BY <2>1 DEF SP!Upsert
<1> QED
  BY <1>2, <1>4, <1>5
-----------------------------------------------------------------------------
(* SystemProxy and its files.  *)
rc == s1
typed == s10
hurt == s11

USE DEF rc, typed, hurt

(* What a task does with the shell files.                                   *)
Lefts == {<<>>, <<"files">>, <<"session">>, <<"pref">>, <<"files", "session">>,
          <<"session", "pref">>, <<"files", "session", "pref">>,
          <<"pref", "files", "session">>}

InFiles(t) == t.left # <<>> /\ Head(t.left) = "files"

WritingOK(w) ==
  \/ w = <<>>
  \/ /\ w # <<>> /\ DOMAIN w = 1..3
     /\ w[1] \in SP!Files /\ w[2] \in Seq(SP!Line) /\ w[3] \in BOOLEAN

TaskOK(t) ==
  /\ t.kind \in {"idle", "start", "enable", "disable", "stop", "ports", "cleanup"}
  /\ t.kind \in {"enable", "start", "ports"} \/ ~t.on
  /\ t.kind = "enable" => t.on
  /\ t.port \in Ports
  /\ t.left \in Lefts /\ (t.left = <<"pref", "files", "session">> => t.kind = "stop")
  /\ t.todo \subseteq SP!Files
  /\ t.found \in BOOLEAN /\ t.failed \in BOOLEAN /\ t.alone \in BOOLEAN
  /\ WritingOK(t.writing) /\ (t.writing # <<>> => InFiles(t))

ProfileAhead(t) == t.on /\ InFiles(t) /\ ~t.found => Profile \in t.todo

(* A profile that may be written without having been read has nothing of    *)
(* the user's.                                                              *)
ProfilesOK == typed[Profile] # <<>> => \A k \in Tasks : ProfileAhead(tasks[k])

FilesOK ==
  /\ DOMAIN rc = SP!Files
  /\ \A f \in SP!Files : rc[f] = Missing \/ rc[f] \in Seq(SP!Line)
  /\ \A f \in SP!Files : typed[f] # <<>> => rc[f] # Missing

Cut(f) == \E k \in Tasks : SP!Cutting(k, f)

TextsKept ==
  /\ \A f \in SP!Files \ hurt : rc[f] = Missing \/ Cut(f) \/ Good(rc[f], typed[f])
  /\ \A k \in Tasks : LET w == tasks[k].writing IN
       w # <<>> /\ w[1] \notin hurt => Good(w[2], typed[w[1]])

TInv ==
  /\ \A k \in Tasks : TaskOK(tasks[k])
  /\ ProfilesOK
  /\ hurt \subseteq SP!Files
  /\ FilesOK
  /\ TextsKept

LEMMA LeftFacts ==
  ASSUME NEW left \in Lefts, left # <<>>
  PROVE  /\ Tail(left) \in Lefts /\ Tail(left) # <<"pref", "files", "session">>
         /\ left # <<"pref", "files", "session">> =>
              Tail(left) = <<>> \/ Head(Tail(left)) # "files"
<1>1. CASE left \in {<<"files">>, <<"session">>, <<"pref">>}
  <2>1. PICK x : left = <<x>>
    BY <1>1
  <2>2. Tail(left) = <<>>
    BY <2>1
  <2> QED
    BY <2>2 DEF Lefts
<1>2. CASE left = <<"files", "session">>
  BY <1>2 DEF Lefts
<1>3. CASE left = <<"session", "pref">>
  BY <1>3 DEF Lefts
<1>4. CASE left = <<"files", "session", "pref">>
  BY <1>4 DEF Lefts
<1>5. CASE left = <<"pref", "files", "session">>
  BY <1>5 DEF Lefts
<1> QED
  BY <1>1, <1>2, <1>3, <1>4, <1>5 DEF Lefts

LEMMA PlanFacts ==
  /\ SP!Plan("start") = <<"files">> /\ SP!Plan("ports") = <<"files">>
  /\ SP!Plan("cleanup") = <<"files">>
  /\ SP!Plan("enable") = <<"files", "session", "pref">>
  /\ SP!Plan("disable") = <<"files", "session", "pref">>
  /\ SP!Plan("stop") = <<"pref", "files", "session">>
BY DEF SP!Plan

LEMMA FileFacts ==
  /\ Profile \in SP!Files /\ LoginOnly \subseteq SP!Files \ {Profile}
  /\ Missing \notin Seq(SP!Line) /\ Missing # <<>>
  /\ Homes \subseteq [SP!Files -> Seq(SP!Line) \cup {Missing}]
  /\ Candidates \in Seq(SP!Files)
<1>1. <<>> \in Seq(SP!Line)
  OBVIOUS
<1> QED
  BY <1>1, SurroundingsAssumption DEF SP!Assumptions

(* The file that is next.                                                   *)
LEMMA FirstFacts ==
  ASSUME NEW todo \in SUBSET SP!Files, todo # {}
  PROVE  SP!First(todo) \in todo
<1> DEFINE I == {i \in 1..Len(Candidates) : Candidates[i] \in todo}
<1>1. Len(Candidates) \in Nat /\ DOMAIN Candidates = 1..Len(Candidates)
  BY FileFacts
<1>2. I # {} /\ I \in SUBSET Nat
  <2>1. PICK f \in SP!Files : f \in todo
    OBVIOUS
  <2>2. \E i \in 1..Len(Candidates) : Candidates[i] = f
    BY <1>1, <2>1 DEF SP!Files, SP!ToSet
  <2> QED
    BY <1>1, <2>1, <2>2
<1>3. SP!First(todo) = Candidates[SP!Min(I)]
  BY <1>2 DEF SP!First, SP!SelectInSeq
<1>4. SP!Min(I) \in I
  <2> HIDE DEF I
  <2> QED
    BY <1>2, MinFacts
<1> QED
  BY <1>3, <1>4

(* Steps that leave the files, and end writings at most.                    *)
LEMMA TextsStay ==
  ASSUME TInv, UNCHANGED <<rc, typed>>, hurt \subseteq hurt', hurt' \subseteq SP!Files,
         \A k \in Tasks : TaskOK(tasks'[k]), ProfilesOK',
         \A k \in Tasks : \/ tasks'[k].writing = tasks[k].writing
                          \/ /\ tasks'[k].writing = <<>>
                             /\ \A f : SP!Cutting(k, f) => f \in hurt'
  PROVE  TInv'
<1>1. FilesOK'
  BY DEF TInv, FilesOK
<1>2. ASSUME NEW f \in SP!Files \ hurt', Cut(f) PROVE Cut(f)'
  BY <1>2 DEF Cut, SP!Cutting
<1>3. ASSUME NEW f \in SP!Files \ hurt'
      PROVE  (rc[f] = Missing \/ Cut(f) \/ Good(rc[f], typed[f]))'
  BY <1>2 DEF TInv, TextsKept
<1>4. ASSUME NEW k \in Tasks, tasks'[k].writing # <<>>, tasks'[k].writing[1] \notin hurt'
      PROVE  Good(tasks'[k].writing[2], typed'[tasks'[k].writing[1]])
  BY <1>4 DEF TInv, TextsKept
<1>5. TextsKept'
  BY <1>3, <1>4 DEF TextsKept
<1> QED
  BY <1>1, <1>5 DEF TInv, TaskOK

LEMMA OthersStay ==
  ASSUME NEW t, DOMAIN t = TaskFields, TaskOK(t), NEW b \in BOOLEAN
  PROVE  LET u == [t EXCEPT !.alone = b] IN
         /\ TaskOK(u) /\ u.writing = t.writing
         /\ ProfileAhead(t) => ProfileAhead(u)
<1> PICK u : u = [t EXCEPT !.alone = b]
  OBVIOUS
<1>1. /\ \A x \in TaskFields \ {"alone"} : u[x] = t[x]
      /\ u.alone = b
  BY DEF TaskFields
<1>2. /\ u.kind = t.kind /\ u.on = t.on /\ u.port = t.port /\ u.left = t.left
      /\ u.todo = t.todo /\ u.found = t.found /\ u.writing = t.writing
      /\ u.failed = t.failed
  BY <1>1 DEF TaskFields
<1>3. TaskOK(u) /\ (ProfileAhead(t) => ProfileAhead(u))
  BY <1>1, <1>2 DEF TaskOK, ProfileAhead, InFiles
<1> QED
  BY <1>2, <1>3

LEMMA IdleOK == TaskOK(SP!Idle) /\ ProfileAhead(SP!Idle) /\ SP!Idle.writing = <<>>
<1>1. SP!Down.port \in Ports
  BY ProxyFacts DEF SP!Down
<1>2. /\ SP!Idle.kind = "idle" /\ SP!Idle.on = FALSE /\ SP!Idle.port = SP!Down.port
      /\ SP!Idle.left = <<>> /\ SP!Idle.todo = {} /\ SP!Idle.found = FALSE
      /\ SP!Idle.writing = <<>> /\ SP!Idle.failed = FALSE /\ SP!Idle.alone = TRUE
  BY DEF SP!Idle
<1> PICK t : t = SP!Idle
  OBVIOUS
<1>3. /\ t.kind = "idle" /\ t.on = FALSE /\ t.port \in Ports /\ t.left = <<>>
      /\ t.todo = {} /\ t.found = FALSE /\ t.writing = <<>> /\ t.failed = FALSE
      /\ t.alone = TRUE
  BY <1>1, <1>2
<1>4. <<>> \in Lefts /\ <<>> # <<"pref", "files", "session">>
  BY DEF Lefts
<1>5. TaskOK(t) /\ ProfileAhead(t) /\ t.writing = <<>>
  BY <1>3, <1>4 DEF TaskOK, ProfileAhead, WritingOK
<1> QED
  BY <1>5

Fresh(t, kind, on, withPort) ==
  /\ t.kind = kind /\ t.on = on /\ t.port = withPort /\ t.left = SP!Plan(kind)
  /\ t.todo = SP!Targets(kind) /\ t.alone \in BOOLEAN /\ t.found = FALSE
  /\ t.failed = FALSE /\ t.writing = <<>>

LEMMA NewTask ==
  ASSUME NEW on \in BOOLEAN, NEW withPort \in Ports,
         NEW kind \in {"start", "enable", "disable", "stop", "ports", "cleanup"},
         kind \in {"enable", "start", "ports"} \/ ~on, kind = "enable" => on,
         NEW t, Fresh(t, kind, on, withPort)
  PROVE  TaskOK(t) /\ ProfileAhead(t) /\ t.writing = <<>>
<1> PICK plan, targets : plan = SP!Plan(kind) /\ targets = SP!Targets(kind)
  OBVIOUS
<1>1. /\ t.kind = kind /\ t.on = on /\ t.port = withPort /\ t.left = plan
      /\ t.todo = targets /\ t.alone \in BOOLEAN /\ t.found = FALSE /\ t.failed = FALSE
      /\ t.writing = <<>>
  BY DEF Fresh
<1>2. targets \subseteq SP!Files /\ Profile \in targets
  BY FileFacts DEF SP!Targets
<1>3. plan \in Lefts /\ (plan = <<"pref", "files", "session">> => kind = "stop")
  BY PlanFacts DEF Lefts
<1> QED
  BY <1>1, <1>2, <1>3 DEF TaskOK, ProfileAhead, WritingOK

(* A new operation.                                                         *)
LEMMA EnlistTexts ==
  ASSUME PInv, TInv, NEW k \in Tasks, NEW on \in BOOLEAN, NEW withPort \in Ports,
         NEW kind \in {"start", "enable", "disable", "stop", "ports", "cleanup"},
         kind \in {"enable", "start", "ports"} \/ ~on, kind = "enable" => on,
         SP!Enlist(k, kind, on, withPort), UNCHANGED <<rc, typed, hurt>>
  PROVE  TInv'
<1> DEFINE b == {j \in Tasks : tasks[j] # SP!Idle} = {}
           new == [SP!Idle EXCEPT !.kind = kind, !.on = on, !.port = withPort,
                             !.left = SP!Plan(kind), !.todo = SP!Targets(kind), !.alone = b]
<1>1. tasks[k] = SP!Idle /\ tasks'[k] = new
  BY DEF SP!Enlist
<1>2. b \in BOOLEAN
  OBVIOUS
<1> HIDE DEF b
<1>3. TaskOK(new) /\ ProfileAhead(new) /\ new.writing = <<>>
  <2>1. Fresh(new, kind, on, withPort)
    BY <1>2 DEF Fresh, SP!Idle
  <2> HIDE DEF new
  <2> QED
    BY <2>1, NewTask
<1> HIDE DEF new
<1>4. ASSUME NEW j \in Tasks \ {k}
      PROVE  /\ TaskOK(tasks'[j]) /\ tasks'[j].writing = tasks[j].writing
             /\ ProfileAhead(tasks[j]) => ProfileAhead(tasks'[j])
  <2>1. tasks'[j] = [tasks[j] EXCEPT !.alone = tasks[j] = SP!Idle]
    BY <1>4 DEF SP!Enlist
  <2> DEFINE c == tasks[j] = SP!Idle
  <2>2. c \in BOOLEAN
    OBVIOUS
  <2>3. tasks'[j] = [tasks[j] EXCEPT !.alone = c]
    BY <2>1
  <2> HIDE DEF c
  <2> QED
    BY <2>2, <2>3, OthersStay DEF PInv, ProxyTypes, TInv
<1>5. tasks'[k].writing = tasks[k].writing
  BY <1>1, <1>3, IdleOK
<1>6. ProfilesOK'
  BY <1>1, <1>3, <1>4 DEF TInv, ProfilesOK
<1> QED
  BY <1>1, <1>3, <1>4, <1>5, <1>6, TextsStay DEF TInv

LEMMA OperationTexts ==
  ASSUME PInv, TInv, NEW k \in Tasks
  PROVE  /\ \A on \in SP!Reads : SP!Run(k, on) \/ SP!RunMihomoStart(k, on)
                                   \/ SP!RunMihomoStop(k, on) => TInv'
         /\ \A on \in BOOLEAN : SP!Toggle(k, on) => TInv'
         /\ SP!StopFromDashboard(k) \/ SP!Cleanup(k) => TInv'
         /\ \A new \in Ports : SP!ChangePort(k, new) => TInv'
<1> USE DEF SP!files, SP!history
<1>1. /\ Owner[k] \in Processes /\ procs[Owner[k]].port \in Ports /\ s3 \in Ports
      /\ procs[Owner[k]].on \in BOOLEAN
  BY ProxyFacts DEF PInv, ProxyTypes, ProcessType
<1>2. ASSUME NEW on \in BOOLEAN, NEW listening, SP!ReconcileIfUsable(k, on, listening),
             UNCHANGED <<rc, typed, hurt>>
      PROVE  TInv'
  <2>1. CASE UNCHANGED tasks
    BY <1>2, <2>1, TextsStay DEF TInv, ProfilesOK
  <2>2. CASE SP!Enlist(k, "start", on, s3)
    BY <1>1, <1>2, <2>2, EnlistTexts
  <2> QED
    BY <1>2, <2>1, <2>2 DEF SP!ReconcileIfUsable
<1>3. \A on \in SP!Reads : on \in BOOLEAN
  BY DEF SP!Reads, SP!Loaded
<1>4. ASSUME NEW on \in SP!Reads, SP!Run(k, on) \/ SP!RunMihomoStart(k, on) PROVE TInv'
  <2>1. CASE SP!Run(k, on)
    BY <1>2, <1>3, <2>1 DEF SP!Run
  <2>2. CASE SP!RunMihomoStart(k, on)
    BY <1>2, <1>3, <2>2 DEF SP!RunMihomoStart
  <2> QED
    BY <1>4, <2>1, <2>2
<1>5. ASSUME NEW on, NEW withPort \in Ports, SP!KernelStops(k, on, withPort) PROVE TInv'
  BY <1>5, EnlistTexts DEF SP!KernelStops
<1>6. ASSUME NEW on \in SP!Reads, SP!RunMihomoStop(k, on) PROVE TInv'
  BY <1>1, <1>5, <1>6 DEF SP!RunMihomoStop
<1>7. SP!StopFromDashboard(k) => TInv'
  BY <1>1, <1>5 DEF SP!StopFromDashboard
<1>8. SP!Cleanup(k) => TInv'
  BY <1>1, EnlistTexts DEF SP!Cleanup
<1>9. ASSUME NEW on \in BOOLEAN, SP!Toggle(k, on) PROVE TInv'
  BY <1>1, <1>9, EnlistTexts DEF SP!Toggle
<1>10. ASSUME NEW new \in Ports, SP!ChangePort(k, new) PROVE TInv'
  BY <1>1, <1>10, EnlistTexts DEF SP!ChangePort
<1> QED
  BY <1>4, <1>6, <1>7, <1>8, <1>9, <1>10

(* A task that has nothing to write goes on or ends.                        *)
LEMMA GoesOn ==
  ASSUME NEW t, TaskOK(t), t.left # <<>>, t.writing = <<>>,
         NEW u, u.kind = t.kind, u.on = t.on, u.port = t.port, u.found = t.found,
         u.writing = t.writing, u.alone = t.alone, u.failed \in BOOLEAN,
         u.left \in {<<>>, Tail(t.left)}, u.todo \subseteq SP!Files
  PROVE  TaskOK(u) /\ ProfileAhead(u)
<1>1. /\ u.left \in Lefts /\ u.left # <<"pref", "files", "session">>
      /\ t.left = <<"pref", "files", "session">> \/ ~InFiles(u)
  <2>1. CASE u.left = <<>>
    BY <2>1 DEF Lefts, InFiles
  <2>2. CASE u.left = Tail(t.left)
    BY <2>2, LeftFacts DEF TaskOK, InFiles
  <2> QED
    BY <2>1, <2>2
<1>2. TaskOK(u)
  BY <1>1 DEF TaskOK
<1>3. ProfileAhead(u)
  BY <1>1 DEF TaskOK, ProfileAhead
<1> QED
  BY <1>2, <1>3

LEMMA GoesOnTexts ==
  ASSUME PInv, TInv, NEW k \in Tasks, typed' = typed, NEW u,
         tasks[k].left # <<>>, tasks[k].writing = <<>>,
         tasks' = [tasks EXCEPT ![k] = u],
         u.kind = tasks[k].kind, u.on = tasks[k].on, u.port = tasks[k].port,
         u.found = tasks[k].found, u.writing = tasks[k].writing, u.alone = tasks[k].alone,
         u.failed \in BOOLEAN, u.left \in {<<>>, Tail(tasks[k].left)},
         u.todo \subseteq SP!Files
  PROVE  /\ \A j \in Tasks : TaskOK(tasks'[j]) /\ tasks'[j].writing = tasks[j].writing
         /\ ProfilesOK'
         /\ UNCHANGED <<rc, hurt>> => TInv'
<1>1. TaskOK(u) /\ ProfileAhead(u)
  BY GoesOn DEF TInv
<1>2. tasks'[k] = u /\ \A j \in Tasks \ {k} : tasks'[j] = tasks[j]
  BY DEF PInv, ProxyTypes
<1>3. \A j \in Tasks : TaskOK(tasks'[j]) /\ tasks'[j].writing = tasks[j].writing
  BY <1>1, <1>2 DEF TInv
<1>4. ProfilesOK'
  BY <1>1, <1>2 DEF TInv, ProfilesOK
<1> QED
  BY <1>3, <1>4, TextsStay DEF TInv

LEMMA PhaseTexts ==
  ASSUME PInv, TInv, NEW k \in Tasks, NEW failed \in BOOLEAN, SP!PhaseEnds(k, failed),
         tasks[k].left # <<>>, tasks[k].writing = <<>>, typed' = typed
  PROVE  /\ \A j \in Tasks : TaskOK(tasks'[j]) /\ tasks'[j].writing = tasks[j].writing
         /\ ProfilesOK'
         /\ UNCHANGED <<rc, hurt>> => TInv'
<1> DEFINE u == [tasks[k] EXCEPT !.left = SP!Rest(k, failed), !.todo = {},
                                 !.failed = @ \/ failed]
<1>1. tasks' = [tasks EXCEPT ![k] = u]
  BY DEF SP!PhaseEnds
<1>2. SP!Rest(k, failed) \in {<<>>, Tail(tasks[k].left)}
  BY DEF SP!Rest
<1>3. (tasks[k].failed \/ failed) \in BOOLEAN
  BY DEF TInv, TaskOK
<1>4. /\ u.kind = tasks[k].kind /\ u.on = tasks[k].on /\ u.port = tasks[k].port
      /\ u.found = tasks[k].found /\ u.writing = tasks[k].writing
      /\ u.alone = tasks[k].alone /\ u.failed = (tasks[k].failed \/ failed)
      /\ u.left = SP!Rest(k, failed) /\ u.todo = {}
  BY DEF PInv, ProxyTypes, TaskFields
<1> HIDE DEF u
<1> QED
  BY <1>1, <1>2, <1>3, <1>4, GoesOnTexts

LEMMA NoWriting ==
  ASSUME TInv, NEW k \in Tasks, SP!Do(k, "session") \/ SP!Do(k, "pref") \/ tasks[k].left = <<>>
  PROVE  tasks[k].writing = <<>>
BY DEF TInv, TaskOK, InFiles, SP!Do

LEMMA LaterPhases ==
  ASSUME PInv, TInv, NEW k \in Tasks
  PROVE  /\ SP!Session(k) \/ SP!PrefStays(k) => TInv'
         /\ \A saved \in BOOLEAN : SP!SavePref(k, saved) => TInv'
<1> USE DEF SP!files, SP!history
<1>1. ASSUME SP!Session(k) PROVE TInv'
  BY <1>1, PhaseTexts, NoWriting DEF SP!Session, SP!Do
<1>2. ASSUME SP!PrefStays(k) PROVE TInv'
  <2>1. tasks[k].left # <<>> /\ tasks[k].writing = <<>> /\ UNCHANGED <<rc, hurt, typed>>
    BY <1>2, NoWriting DEF SP!PrefStays, SP!Do
  <2>2. CASE SP!PhaseEnds(k, FALSE)
    BY <2>1, <2>2, PhaseTexts
  <2>3. CASE tasks' = [tasks EXCEPT ![k].left = <<>>, ![k].todo = {}]
    <3> DEFINE u == [tasks[k] EXCEPT !.left = <<>>, !.todo = {}]
    <3>1. tasks' = [tasks EXCEPT ![k] = u]
      BY <2>3
    <3>2. /\ u.kind = tasks[k].kind /\ u.on = tasks[k].on /\ u.port = tasks[k].port
          /\ u.found = tasks[k].found /\ u.writing = tasks[k].writing
          /\ u.alone = tasks[k].alone /\ u.failed = tasks[k].failed
          /\ u.left = <<>> /\ u.todo = {}
      BY DEF PInv, ProxyTypes, TaskFields
    <3>3. tasks[k].failed \in BOOLEAN
      BY DEF TInv, TaskOK
    <3> HIDE DEF u
    <3> QED
      BY <2>1, <3>1, <3>2, <3>3, GoesOnTexts
  <2> QED
    BY <1>2, <2>2, <2>3 DEF SP!PrefStays
<1>3. ASSUME NEW saved \in BOOLEAN, SP!SavePref(k, saved) PROVE TInv'
  <2>1. tasks[k].left # <<>> /\ tasks[k].writing = <<>> /\ UNCHANGED <<rc, hurt, typed>>
    BY <1>3, NoWriting DEF SP!SavePref, SP!Do
  <2>2. CASE SP!PhaseEnds(k, TRUE)
    BY <2>1, <2>2, PhaseTexts
  <2>3. CASE tasks' = [tasks EXCEPT ![k].left = Tail(@)]
    <3> DEFINE u == [tasks[k] EXCEPT !.left = Tail(tasks[k].left)]
    <3>1. tasks' = [tasks EXCEPT ![k] = u]
      BY <2>3
    <3>2. /\ u.kind = tasks[k].kind /\ u.on = tasks[k].on /\ u.port = tasks[k].port
          /\ u.found = tasks[k].found /\ u.writing = tasks[k].writing
          /\ u.alone = tasks[k].alone /\ u.failed = tasks[k].failed
          /\ u.left = Tail(tasks[k].left) /\ u.todo = tasks[k].todo
      BY DEF PInv, ProxyTypes, TaskFields
    <3>3. tasks[k].failed \in BOOLEAN /\ tasks[k].todo \subseteq SP!Files
      BY DEF TInv, TaskOK
    <3> HIDE DEF u
    <3> QED
      BY <2>1, <3>1, <3>2, <3>3, GoesOnTexts
  <2> QED
    BY <1>3, <2>2, <2>3 DEF SP!SavePref
<1> QED
  BY <1>1, <1>2, <1>3

(* What is written in place of a text keeps what is good about it.          *)
LEMMA NewTexts ==
  ASSUME TInv, NEW k \in Tasks, NEW f \in SP!Files, rc[f] # Missing
  PROVE  /\ SP!NewText(k, f) \in Seq(SP!Line)
         /\ \A own : Good(rc[f], own) => Good(SP!NewText(k, f), own)
<1>1. tasks[k].port \in Ports /\ rc[f] \in Seq(SP!Line)
  BY DEF TInv, TaskOK, FilesOK
<1> QED
  BY <1>1, TextTypes, GoodTexts DEF SP!NewText

LEMMA ReadFileTexts ==
  ASSUME PInv, TInv, NEW k \in Tasks, SP!ReadFile(k)
  PROVE  TInv'
<1> DEFINE f == SP!First(tasks[k].todo)
           there == rc[f] # Missing
           new == SP!NewText(k, f)
           w == IF there /\ new # rc[f] THEN <<f, new, FALSE>> ELSE <<>>
           t == tasks[k]
           u == [t EXCEPT !.todo = @ \ {f}, !.found = @ \/ there, !.writing = w]
<1>1. /\ InFiles(t) /\ t.writing = <<>> /\ t.todo # {}
      /\ tasks' = [tasks EXCEPT ![k] = u]
      /\ hurt' = IF SP!OthersCut(k, f) THEN hurt \cup {f} ELSE hurt
      /\ rc' = rc /\ typed' = typed
  BY DEF SP!ReadFile, SP!Do, InFiles, SP!files
<1>2. TaskOK(t)
  BY DEF TInv
<1>3. f \in t.todo /\ f \in SP!Files
  BY <1>1, <1>2, FirstFacts DEF TaskOK
<1> HIDE DEF f
<1>4. there => new \in Seq(SP!Line) /\ \A own : Good(rc[f], own) => Good(new, own)
  BY <1>3, NewTexts
<1> HIDE DEF new
<1>5. WritingOK(w)
  <2>1. CASE w = <<>>
    BY <2>1 DEF WritingOK
  <2>2. CASE w # <<>>
    <3>1. w = <<f, new, FALSE>> /\ new \in Seq(SP!Line)
      BY <1>4, <2>2
    <3> HIDE DEF w
    <3>2. DOMAIN w = 1..3 /\ w[1] = f /\ w[2] = new /\ w[3] = FALSE
      BY <3>1
    <3> QED
      BY <1>3, <2>2, <3>1, <3>2 DEF WritingOK
  <2> QED
    BY <2>1, <2>2
<1>6. w # <<>> => there /\ w[1] = f /\ w[2] = new /\ w[3] = FALSE
  OBVIOUS
<1> HIDE DEF w
<1>7. there \in BOOLEAN /\ (t.found \/ there) \in BOOLEAN
  OBVIOUS
<1>8. /\ u.kind = t.kind /\ u.on = t.on /\ u.port = t.port /\ u.left = t.left
      /\ u.todo = t.todo \ {f} /\ u.found = (t.found \/ there) /\ u.writing = w
      /\ u.failed = t.failed /\ u.alone = t.alone
  BY DEF PInv, ProxyTypes, TaskFields
<1>9. tasks'[k] = u /\ \A j \in Tasks \ {k} : tasks'[j] = tasks[j]
  BY <1>1 DEF PInv, ProxyTypes
<1> HIDE DEF u
<1>10. TaskOK(u)
  BY <1>1, <1>2, <1>5, <1>7, <1>8 DEF TaskOK, InFiles
<1>11. typed[Profile] # <<>> /\ ProfileAhead(t) => ProfileAhead(u)
  <2>1. typed[Profile] # <<>> => rc[Profile] # Missing
    BY FileFacts DEF TInv, FilesOK
  <2> QED
    BY <1>8, <2>1 DEF ProfileAhead, InFiles
<1>12. ProfilesOK'
  BY <1>1, <1>9, <1>11 DEF TInv, ProfilesOK
<1>13. FilesOK' /\ hurt' \subseteq SP!Files /\ hurt \subseteq hurt'
  BY <1>1, <1>3 DEF TInv, FilesOK
<1>14. ASSUME NEW g PROVE Cut(g)' <=> Cut(g)
  <2>1. \A j \in Tasks : SP!Cutting(j, g)' <=> SP!Cutting(j, g)
    BY <1>1, <1>6, <1>8, <1>9 DEF SP!Cutting
  <2> QED
    BY <2>1 DEF Cut
<1>15. ASSUME w # <<>>, f \notin hurt' PROVE Good(new, typed[f])
  <2>1. ~SP!OthersCut(k, f) /\ f \notin hurt
    BY <1>1, <1>15
  <2>2. ~Cut(f)
    BY <1>1, <2>1 DEF Cut, SP!OthersCut, SP!Cutting
  <2>3. Good(rc[f], typed[f])
    BY <1>3, <1>6, <1>15, <2>1, <2>2 DEF TInv, TextsKept
  <2> QED
    BY <1>4, <1>6, <1>15, <2>3
<1>16. TextsKept'
  <2>1. ASSUME NEW g \in SP!Files \ hurt'
        PROVE  (rc[g] = Missing \/ Cut(g) \/ Good(rc[g], typed[g]))'
    BY <1>1, <1>13, <1>14 DEF TInv, TextsKept
  <2>2. ASSUME NEW j \in Tasks, tasks'[j].writing # <<>>, tasks'[j].writing[1] \notin hurt'
        PROVE  Good(tasks'[j].writing[2], typed'[tasks'[j].writing[1]])
    <3>1. CASE j = k
      BY <1>1, <1>6, <1>8, <1>9, <1>15, <2>2, <3>1
    <3>2. CASE j # k
      BY <1>1, <1>9, <1>13, <2>2, <3>2 DEF TInv, TextsKept
    <3> QED
      BY <3>1, <3>2
  <2> QED
    BY <2>1, <2>2 DEF TextsKept
<1> QED
  BY <1>9, <1>10, <1>12, <1>13, <1>16 DEF TInv

LEMMA TruncateTexts ==
  ASSUME PInv, TInv, NEW k \in Tasks, SP!Truncate(k)
  PROVE  TInv'
<1> DEFINE t == tasks[k]
           w == t.writing
           f == w[1]
           x == [w EXCEPT ![3] = TRUE]
           u == [t EXCEPT !.writing = x]
<1>1. /\ w # <<>> /\ ~w[3]
      /\ rc' = [rc EXCEPT ![f] = <<>>]
      /\ tasks' = [tasks EXCEPT ![k] = u]
      /\ hurt' = IF SP!OthersCut(k, f) THEN hurt \cup {f} ELSE hurt
      /\ typed' = typed
  BY DEF SP!Truncate, PInv, ProxyTypes, TaskFields
<1>2. TaskOK(t)
  BY DEF TInv
<1>3. f \in SP!Files /\ w[2] \in Seq(SP!Line) /\ DOMAIN w = 1..3
  BY <1>1, <1>2 DEF TaskOK, WritingOK
<1>4. x # <<>> /\ DOMAIN x = 1..3 /\ x[1] = f /\ x[2] = w[2] /\ x[3] = TRUE
  BY <1>3
<1> HIDE DEF x
<1>5. WritingOK(x)
  BY <1>3, <1>4 DEF WritingOK
<1>6. /\ u.kind = t.kind /\ u.on = t.on /\ u.port = t.port /\ u.left = t.left
      /\ u.todo = t.todo /\ u.found = t.found /\ u.writing = x
      /\ u.failed = t.failed /\ u.alone = t.alone
  BY DEF PInv, ProxyTypes, TaskFields
<1>7. tasks'[k] = u /\ \A j \in Tasks \ {k} : tasks'[j] = tasks[j]
  BY <1>1 DEF PInv, ProxyTypes
<1> HIDE DEF u
<1>8. TaskOK(u) /\ (ProfileAhead(t) => ProfileAhead(u))
  BY <1>1, <1>2, <1>5, <1>6 DEF TaskOK, InFiles, ProfileAhead
<1>9. ProfilesOK'
  BY <1>1, <1>7, <1>8 DEF TInv, ProfilesOK
<1>10. FilesOK' /\ hurt' \subseteq SP!Files /\ hurt \subseteq hurt'
  BY <1>1, <1>3, FileFacts DEF TInv, FilesOK
<1>11. ASSUME NEW g, g = f PROVE Cut(g)'
  BY <1>4, <1>6, <1>7, <1>11 DEF Cut, SP!Cutting
<1>12. ASSUME NEW g, Cut(g) PROVE Cut(g)'
  BY <1>1, <1>7, <1>12 DEF Cut, SP!Cutting
<1>13. TextsKept'
  <2>1. ASSUME NEW g \in SP!Files \ hurt'
        PROVE  (rc[g] = Missing \/ Cut(g) \/ Good(rc[g], typed[g]))'
    <3>1. CASE g = f
      BY <1>11, <3>1
    <3>2. CASE g # f
      <4>1. rc'[g] = rc[g]
        BY <1>1, <3>2 DEF TInv, FilesOK
      <4> QED
        BY <1>1, <1>10, <1>12, <2>1, <4>1 DEF TInv, TextsKept
    <3> QED
      BY <3>1, <3>2
  <2>2. ASSUME NEW j \in Tasks, tasks'[j].writing # <<>>, tasks'[j].writing[1] \notin hurt'
        PROVE  Good(tasks'[j].writing[2], typed'[tasks'[j].writing[1]])
    <3>1. CASE j = k
      BY <1>1, <1>4, <1>6, <1>7, <1>10, <2>2, <3>1 DEF TInv, TextsKept
    <3>2. CASE j # k
      BY <1>1, <1>7, <1>10, <2>2, <3>2 DEF TInv, TextsKept
    <3> QED
      BY <3>1, <3>2
  <2> QED
    BY <2>1, <2>2 DEF TextsKept
<1> QED
  BY <1>7, <1>8, <1>9, <1>10, <1>13 DEF TInv

LEMMA FillTexts ==
  ASSUME PInv, TInv, NEW k \in Tasks, SP!Fill(k)
  PROVE  TInv'
<1> DEFINE t == tasks[k]
           w == t.writing
           f == w[1]
           u == [t EXCEPT !.writing = <<>>]
<1>1. /\ w # <<>> /\ rc' = [rc EXCEPT ![f] = w[2]]
      /\ tasks' = [tasks EXCEPT ![k] = u]
      /\ typed' = typed /\ hurt' = hurt
  BY DEF SP!Fill, SP!history
<1>2. TaskOK(t)
  BY DEF TInv
<1>3. f \in SP!Files /\ w[2] \in Seq(SP!Line)
  BY <1>1, <1>2 DEF TaskOK, WritingOK
<1>4. /\ u.kind = t.kind /\ u.on = t.on /\ u.port = t.port /\ u.left = t.left
      /\ u.todo = t.todo /\ u.found = t.found /\ u.writing = <<>>
      /\ u.failed = t.failed /\ u.alone = t.alone
  BY DEF PInv, ProxyTypes, TaskFields
<1>5. tasks'[k] = u /\ \A j \in Tasks \ {k} : tasks'[j] = tasks[j]
  BY <1>1 DEF PInv, ProxyTypes
<1> HIDE DEF u
<1>6. TaskOK(u) /\ (ProfileAhead(t) => ProfileAhead(u))
  BY <1>2, <1>4 DEF TaskOK, InFiles, ProfileAhead, WritingOK
<1>7. ProfilesOK'
  BY <1>1, <1>5, <1>6 DEF TInv, ProfilesOK
<1>8. FilesOK' /\ hurt' \subseteq SP!Files
  BY <1>1, <1>3, FileFacts DEF TInv, FilesOK
<1>9. ASSUME NEW g, g # f, Cut(g) PROVE Cut(g)'
  BY <1>1, <1>5, <1>9 DEF Cut, SP!Cutting
<1>10. TextsKept'
  <2>1. ASSUME NEW g \in SP!Files \ hurt'
        PROVE  (rc[g] = Missing \/ Cut(g) \/ Good(rc[g], typed[g]))'
    <3>1. CASE g = f
      <4>1. rc'[f] = w[2]
        BY <1>1, <1>3 DEF TInv, FilesOK
      <4> QED
        BY <1>1, <2>1, <3>1, <4>1 DEF TInv, TextsKept
    <3>2. CASE g # f
      <4>1. rc'[g] = rc[g]
        BY <1>1, <3>2 DEF TInv, FilesOK
      <4>2. rc[g] = Missing \/ Cut(g) \/ Good(rc[g], typed[g])
        BY <1>1, <2>1 DEF TInv, TextsKept
      <4>3. CASE Cut(g)
        <5>1. Cut(g)'
          BY <1>9, <3>2, <4>3
        <5> QED
          BY <5>1
      <4>4. CASE ~Cut(g)
        BY <1>1, <4>1, <4>2, <4>4
      <4> QED
        BY <4>3, <4>4
    <3> QED
      BY <3>1, <3>2
  <2>2. ASSUME NEW j \in Tasks, tasks'[j].writing # <<>>, tasks'[j].writing[1] \notin hurt'
        PROVE  Good(tasks'[j].writing[2], typed'[tasks'[j].writing[1]])
    <3>1. j # k
      BY <1>4, <1>5, <2>2
    <3> QED
      BY <1>1, <1>5, <2>2, <3>1 DEF TInv, TextsKept
  <2> QED
    BY <2>1, <2>2 DEF TextsKept
<1> QED
  BY <1>5, <1>6, <1>7, <1>8, <1>10 DEF TInv

LEMMA FileFailsTexts ==
  ASSUME PInv, TInv, NEW k \in Tasks, SP!FileFails(k)
  PROVE  TInv'
<1> DEFINE t == tasks[k]
<1>1. InFiles(t) /\ t.left # <<>> /\ rc' = rc /\ typed' = typed
  BY DEF SP!FileFails, SP!Do, InFiles, SP!files
<1>2. TaskOK(t)
  BY DEF TInv
<1>3. CASE t.writing = <<>> /\ t.kind # "cleanup"
  BY <1>1, <1>3, PhaseTexts DEF SP!FileFails
<1>4. CASE t.writing = <<>> /\ t.kind = "cleanup"
  <2> DEFINE u == [t EXCEPT !.todo = @ \ {SP!First(@)}]
  <2>1. tasks' = [tasks EXCEPT ![k] = u] /\ hurt' = hurt
    BY <1>4 DEF SP!FileFails
  <2>2. /\ u.kind = t.kind /\ u.on = t.on /\ u.port = t.port /\ u.left = t.left
        /\ u.todo \subseteq t.todo /\ u.found = t.found /\ u.writing = t.writing
        /\ u.failed = t.failed /\ u.alone = t.alone
    BY DEF PInv, ProxyTypes, TaskFields
  <2>3. tasks'[k] = u /\ \A j \in Tasks \ {k} : tasks'[j] = tasks[j]
    BY <2>1 DEF PInv, ProxyTypes
  <2> HIDE DEF u
  <2>4. TaskOK(u) /\ ~u.on
    BY <1>2, <1>4, <2>2 DEF TaskOK, InFiles
  <2>5. ProfilesOK'
    BY <1>1, <2>3, <2>4 DEF TInv, ProfilesOK, ProfileAhead
  <2> QED
    BY <1>1, <2>1, <2>2, <2>3, <2>4, <2>5, TextsStay DEF TInv
<1>5. CASE t.writing # <<>>
  <2> DEFINE left == IF t.kind = "cleanup" THEN t.left ELSE SP!Rest(k, TRUE)
             todo == IF t.kind = "cleanup" THEN t.todo ELSE {}
             u == [t EXCEPT !.writing = <<>>, !.failed = TRUE, !.left = left, !.todo = todo]
  <2>1. /\ tasks' = [tasks EXCEPT ![k] = u]
        /\ hurt' = IF t.writing[3] THEN hurt \cup {t.writing[1]} ELSE hurt
    BY <1>5 DEF SP!FileFails, PInv, ProxyTypes, TaskFields
  <2>2. t.kind = "cleanup" \/ (left \in {<<>>, Tail(t.left)} /\ todo = {})
    BY DEF SP!Rest
  <2>3. todo \subseteq SP!Files
    BY <1>2 DEF TaskOK
  <2>4. t.kind = "cleanup" => left = t.left /\ todo = t.todo
    OBVIOUS
  <2> HIDE DEF left, todo
  <2>5. /\ u.kind = t.kind /\ u.on = t.on /\ u.port = t.port /\ u.left = left
        /\ u.todo = todo /\ u.found = t.found /\ u.writing = <<>>
        /\ u.failed = TRUE /\ u.alone = t.alone
    BY DEF PInv, ProxyTypes, TaskFields
  <2>6. tasks'[k] = u /\ \A j \in Tasks \ {k} : tasks'[j] = tasks[j]
    BY <2>1 DEF PInv, ProxyTypes
  <2> HIDE DEF u
  <2>7. TaskOK(u) /\ ProfileAhead(u)
    <3>1. CASE t.kind = "cleanup"
      BY <1>1, <1>2, <2>3, <2>4, <2>5, <3>1 DEF TaskOK, ProfileAhead, InFiles, WritingOK
    <3>2. CASE t.kind # "cleanup"
      <4> DEFINE v == [t EXCEPT !.writing = <<>>]
      <4>1. /\ v.kind = t.kind /\ v.on = t.on /\ v.port = t.port /\ v.left = t.left
            /\ v.todo = t.todo /\ v.found = t.found /\ v.writing = <<>>
            /\ v.failed = t.failed /\ v.alone = t.alone
        BY DEF PInv, ProxyTypes, TaskFields
      <4> HIDE DEF v
      <4>2. TaskOK(v)
        BY <1>2, <4>1 DEF TaskOK, WritingOK
      <4> QED
        BY <1>1, <2>2, <2>3, <2>5, <3>2, <4>1, <4>2, GoesOn
    <3> QED
      BY <3>1, <3>2
  <2>8. ProfilesOK'
    BY <1>1, <2>6, <2>7 DEF TInv, ProfilesOK
  <2>9. hurt \subseteq hurt' /\ hurt' \subseteq SP!Files
    BY <1>2, <1>5, <2>1 DEF TInv, TaskOK, WritingOK
  <2>10. \A f : SP!Cutting(k, f) => f \in hurt'
    BY <2>1 DEF SP!Cutting
  <2> QED
    BY <1>1, <2>5, <2>6, <2>7, <2>8, <2>9, <2>10, TextsStay DEF TInv
<1> QED
  BY <1>3, <1>4, <1>5

LEMMA FilesDoneTexts ==
  ASSUME PInv, TInv, NEW k \in Tasks, SP!FilesDone(k)
  PROVE  TInv'
<1> DEFINE t == tasks[k]
           block == SP!Block(t.port)
           creates == t.on /\ ~t.found
<1>1. PICK failed \in BOOLEAN, text \in {block, <<>>} :
        /\ SP!PhaseEnds(k, failed)
        /\ rc' = rc \/ (creates /\ rc' = [rc EXCEPT ![Profile] = text])
  BY DEF SP!FilesDone
<1>0. /\ InFiles(t) /\ t.left # <<>> /\ t.todo = {} /\ t.writing = <<>>
      /\ typed' = typed /\ hurt' = hurt
  BY DEF SP!FilesDone, SP!Do, InFiles, SP!history
<1>2. CASE rc' = rc
  BY <1>0, <1>1, <1>2, PhaseTexts
<1>3. CASE creates /\ rc' = [rc EXCEPT ![Profile] = text]
  <2>1. /\ \A j \in Tasks : TaskOK(tasks'[j]) /\ tasks'[j].writing = tasks[j].writing
        /\ ProfilesOK'
    BY <1>0, <1>1, PhaseTexts
  <2>2. typed[Profile] = <<>>
    BY <1>0, <1>3 DEF TInv, ProfilesOK, ProfileAhead
  <2>3. t.port \in Ports
    BY DEF TInv, TaskOK
  <2>4. Good(text, typed[Profile])
    <3>1. Good(block, <<>>) /\ Good(<<>>, <<>>)
      BY <2>3, GoodBlock
    <3> HIDE DEF block
    <3> QED
      BY <2>2, <3>1
  <2>5. text \in Seq(SP!Line)
    BY <2>4 DEF Good
  <2> HIDE DEF block
  <2>6. /\ DOMAIN rc' = SP!Files /\ rc'[Profile] = text
        /\ \A f \in SP!Files \ {Profile} : rc'[f] = rc[f]
    BY <1>3, FileFacts DEF TInv, FilesOK
  <2>7. FilesOK'
    <3>1. \A f \in SP!Files : rc'[f] = Missing \/ rc'[f] \in Seq(SP!Line)
      BY <2>5, <2>6 DEF TInv, FilesOK
    <3>2. ASSUME NEW f \in SP!Files, typed[f] # <<>> PROVE rc'[f] # Missing
      <4>1. f # Profile
        BY <2>2, <3>2
      <4> QED
        BY <2>6, <3>2, <4>1 DEF TInv, FilesOK
    <3> QED
      BY <1>0, <2>6, <3>1, <3>2 DEF FilesOK
  <2>8. ASSUME NEW f, Cut(f) PROVE Cut(f)'
    BY <2>1, <2>8 DEF Cut, SP!Cutting
  <2>9. ASSUME NEW f \in SP!Files \ hurt'
        PROVE  (rc[f] = Missing \/ Cut(f) \/ Good(rc[f], typed[f]))'
    <3>1. CASE f = Profile
      BY <1>0, <2>4, <2>6, <3>1
    <3>2. CASE f # Profile
      <4>1. rc[f] = Missing \/ Cut(f) \/ Good(rc[f], typed[f])
        BY <1>0, <2>9 DEF TInv, TextsKept
      <4>2. CASE Cut(f)
        <5>1. Cut(f)'
          BY <2>8, <4>2
        <5> QED
          BY <5>1
      <4>3. CASE ~Cut(f)
        BY <1>0, <2>6, <2>9, <3>2, <4>1, <4>3
      <4> QED
        BY <4>2, <4>3
    <3> QED
      BY <3>1, <3>2
  <2>10. TextsKept'
    <3>1. \A j \in Tasks : tasks'[j].writing # <<>> /\ tasks'[j].writing[1] \notin hurt'
            => Good(tasks'[j].writing[2], typed'[tasks'[j].writing[1]])
      BY <1>0, <2>1 DEF TInv, TextsKept
    <3> QED
      BY <2>9, <3>1 DEF TextsKept
  <2> QED
    BY <1>0, <2>1, <2>7, <2>10 DEF TInv
<1> QED
  BY <1>1, <1>2, <1>3

LEMMA EndTexts ==
  ASSUME PInv, TInv
  PROVE  /\ \A k \in Tasks : SP!Finish(k) => TInv'
         /\ \A p \in Processes : SP!SetLanguage(p) \/ SP!EndProcess(p) => TInv'
<1>1. ASSUME NEW k \in Tasks, SP!Finish(k) PROVE TInv'
  <2>1. tasks[k].writing = <<>> /\ UNCHANGED <<rc, typed, hurt>>
    BY <1>1, NoWriting DEF SP!Finish, SP!files
  <2>2. tasks'[k] = SP!Idle /\ \A j \in Tasks \ {k} : tasks'[j] = tasks[j]
    BY <1>1 DEF SP!Finish, PInv, ProxyTypes
  <2>3. \A j \in Tasks : TaskOK(tasks'[j]) /\ tasks'[j].writing = tasks[j].writing
    BY <2>1, <2>2, IdleOK DEF TInv
  <2>4. ProfilesOK'
    BY <2>1, <2>2, IdleOK DEF TInv, ProfilesOK
  <2> QED
    BY <2>1, <2>3, <2>4, TextsStay DEF TInv
<1>2. ASSUME NEW p \in Processes, SP!SetLanguage(p) PROVE TInv'
  <2>1. UNCHANGED <<rc, typed, hurt>>
    BY <1>2 DEF SP!SetLanguage, SP!files
  <2>2. ASSUME NEW j \in Tasks
        PROVE  /\ TaskOK(tasks'[j]) /\ tasks'[j].writing = tasks[j].writing
               /\ ProfileAhead(tasks[j]) => ProfileAhead(tasks'[j])
    <3> DEFINE c == tasks[j].alone /\ tasks[j] = SP!Idle
    <3>1. c \in BOOLEAN
      OBVIOUS
    <3>2. tasks'[j] = [tasks[j] EXCEPT !.alone = c]
      BY <1>2 DEF SP!SetLanguage
    <3> HIDE DEF c
    <3> QED
      BY <3>1, <3>2, OthersStay DEF PInv, ProxyTypes, TInv
  <2>3. ProfilesOK'
    BY <2>1, <2>2 DEF TInv, ProfilesOK
  <2> QED
    BY <2>1, <2>2, <2>3, TextsStay DEF TInv
<1>3. ASSUME NEW p \in Processes, SP!EndProcess(p) PROVE TInv'
  <2> DEFINE own == {k \in Tasks : Owner[k] = p}
             cut == {f \in SP!Files : \E k \in own : SP!Cutting(k, f)}
  <2>1. /\ tasks' = [k \in Tasks |-> IF k \in own THEN SP!Idle ELSE tasks[k]]
        /\ hurt' = hurt \cup cut /\ rc' = rc /\ typed' = typed
    BY <1>3 DEF SP!EndProcess, SP!files
  <2>2. \A k \in Tasks : tasks'[k] = IF k \in own THEN SP!Idle ELSE tasks[k]
    BY <2>1
  <2>3. \A k \in Tasks : TaskOK(tasks'[k])
    BY <2>2, IdleOK DEF TInv
  <2>4. ProfilesOK'
    BY <2>1, <2>2, IdleOK DEF TInv, ProfilesOK
  <2>5. hurt \subseteq hurt' /\ hurt' \subseteq SP!Files
    BY <2>1 DEF TInv
  <2>6. ASSUME NEW k \in own, NEW f, SP!Cutting(k, f) PROVE f \in hurt'
    <3>1. f \in SP!Files
      BY <2>6 DEF TInv, TaskOK, WritingOK, SP!Cutting
    <3> QED
      BY <2>1, <2>6, <3>1
  <2> HIDE DEF own, cut
  <2>7. \A k \in Tasks : \/ tasks'[k].writing = tasks[k].writing
                          \/ /\ tasks'[k].writing = <<>>
                             /\ \A f : SP!Cutting(k, f) => f \in hurt'
    BY <2>2, <2>6, IdleOK
  <2> QED
    BY <2>1, <2>3, <2>4, <2>5, <2>7, TextsStay
<1> QED
  BY <1>1, <1>2, <1>3

LEMMA FirstTexts == SP!Init => TInv
<1> SUFFICES ASSUME SP!Init PROVE TInv
  OBVIOUS
<1>1. /\ rc \in [SP!Files -> Seq(SP!Line) \cup {Missing}]
      /\ tasks = [k \in Tasks |-> SP!Idle]
      /\ typed = [f \in SP!Files |-> IF rc[f] = Missing THEN <<>> ELSE SP!UserText(rc[f])]
      /\ hurt = {f \in SP!Files : rc[f] # Missing /\ SP!Broken(rc[f])}
  BY FileFacts DEF SP!Init
<1>2. \A k \in Tasks : TaskOK(tasks[k]) /\ ProfileAhead(tasks[k]) /\ tasks[k].writing = <<>>
  BY <1>1, IdleOK
<1>3. FilesOK
  BY <1>1 DEF FilesOK
<1>4. \A f \in SP!Files \ hurt : rc[f] = Missing \/ Good(rc[f], typed[f])
  BY <1>1 DEF Good
<1>5. TextsKept /\ ProfilesOK
  BY <1>2, <1>4 DEF TextsKept, ProfilesOK
<1> QED
  BY <1>1, <1>2, <1>3, <1>5 DEF TInv

LEMMA TextsInvariant == Spec => [](part = "proxy" => TInv)
<1>1. Init => (part = "proxy" => TInv)
  BY FirstTexts DEF Init
<1>2. /\ part = "proxy" => PInv
      /\ part = "proxy" => TInv
      /\ [Next]_state
      => (part = "proxy" => TInv)'
  <2> SUFFICES ASSUME PInv, TInv, part = "proxy", SP!Next PROVE TInv'
    <3>1. CASE UNCHANGED state
      <4>1. ASSUME NEW f PROVE Cut(f)' <=> Cut(f)
        BY <3>1 DEF Cut, SP!Cutting, state
      <4>2. TInv => TInv'
        BY <3>1, <4>1 DEF state, TInv, ProfilesOK, FilesOK, TextsKept
      <4> QED
        BY <3>1, <4>2 DEF state
    <3> QED
      BY <3>1 DEF Next
  <2>1. ASSUME NEW k \in Tasks
        PROVE  /\ SP!ReadFile(k) \/ SP!Truncate(k) \/ SP!Fill(k) => TInv'
               /\ SP!FileFails(k) \/ SP!FilesDone(k) => TInv'
               /\ SP!Session(k) \/ SP!PrefStays(k) \/ SP!Finish(k) => TInv'
    BY ReadFileTexts, TruncateTexts, FillTexts, FileFailsTexts, FilesDoneTexts,
       LaterPhases, EndTexts
  <2> QED
    BY <2>1, OperationTexts, LaterPhases, EndTexts DEF SP!Next
<1> QED
  BY <1>1, <1>2, ProxyInvariant, PTL DEF Spec

(* Whatever switches, reconciliations and cleanups overlap, fail and are    *)
(* killed, the user's own lines of a shell file stay, in their order.       *)
THEOREM UserTextStays == Spec => []UserTextKept
<1>1. (part = "proxy" => TInv) => UserTextKept
  BY DEF TInv, TextsKept, Cut, Good, UserTextKept, SP!UserTextKept
<1> QED
  BY <1>1, TextsInvariant, PTL
-----------------------------------------------------------------------------
(* A switch of the system proxy.  *)
SwitchKinds == {"enable", "disable"}

SwitchLefts == {<<>>, <<"pref">>, <<"session", "pref">>, <<"files", "session", "pref">>}

(* What the switch has to do to a text.                                     *)
HasEffect(t, text) ==
  /\ t.on => SP!HasBlock(text, t.port)
  /\ ~t.on => SP!Broken(text) \/ \A p \in Ports : ~SP!HasBlock(text, p)

(* A file that the loop of the switch has still to come to, or to write.    *)
Ahead(t, f) == InFiles(t) /\ (f \in t.todo \/ (t.writing # <<>> /\ t.writing[1] = f))

FilesSwitched(t) ==
  /\ \A f \in SP!Files : rc[f] = Missing \/ Ahead(t, f) \/ HasEffect(t, rc[f])
  /\ t.writing # <<>> => HasEffect(t, t.writing[2])
  /\ t.on /\ (t.found \/ ~InFiles(t)) => \E f \in SP!Files : rc[f] # Missing

Switched(k) ==
  /\ FilesSwitched(tasks[k])
  /\ tasks[k].left = <<>> => procs[Owner[k]].on = tasks[k].on

Switching(t) == t.kind \in SwitchKinds /\ t.alone /\ ~t.failed

(* What a TUI has cached is what the next process will read.                *)
CacheIsRight ==
  \A p \in Processes :
    procs[p].role = "tui" /\ ~procs[p].stale => SP!Loaded = {procs[p].on}

SwitchOfTui ==
  \A k \in Tasks : tasks[k].kind \in SwitchKinds =>
    procs[Owner[k]].role = "tui" /\ tasks[k].left \in SwitchLefts

AloneIsAlone ==
  \A k \in Tasks : tasks[k] # SP!Idle /\ tasks[k].alone =>
    \A j \in Tasks \ {k} : tasks[j] = SP!Idle

SwitchesOK == \A k \in Tasks : Switching(tasks[k]) => Switched(k)

WInv == CacheIsRight /\ SwitchOfTui /\ AloneIsAlone /\ SwitchesOK

(* A block begins with its marker.                                          *)
LEMMA NoBlock ==
  ASSUME NEW t \in Seq(SP!Line), NoStart(t), NEW port \in Ports
  PROVE  ~SP!HasBlock(t, port)
<1> SUFFICES ASSUME NEW i \in 1..(Len(t) - 2), SubSeq(t, i, i + 2) = SP!Block(port)
             PROVE  FALSE
  BY DEF SP!HasBlock
<1> PICK sub : sub = SubSeq(t, i, i + 2)
  OBVIOUS
<1>1. Len(t) \in Nat /\ i \in 1..Len(t) /\ i + 2 \in 1..Len(t)
  OBVIOUS
<1>2. sub[1] = t[i]
  BY <1>1
<1>3. sub[1] = SP!Start
  BY PortFacts
<1> QED
  BY <1>1, <1>2, <1>3 DEF NoStart

(* What the loop writes has the effect of the switch, whatever it has read. *)
LEMMA SwitchTexts ==
  ASSUME TInv, NEW k \in Tasks, NEW f \in SP!Files, rc[f] # Missing
  PROVE  HasEffect(tasks[k], SP!NewText(k, f))
<1> DEFINE t == tasks[k]
<1> PICK text : text = rc[f]
  OBVIOUS
<1> PICK new : new = SP!NewText(k, f)
  OBVIOUS
<1> SUFFICES HasEffect(t, new)
  OBVIOUS
<1>1. t.port \in Ports /\ text \in Seq(SP!Line)
  BY DEF TInv, TaskOK, FilesOK
<1>2. CASE t.on
  <2>1. new = SP!Upsert(text, t.port)
    BY <1>2 DEF SP!NewText
  <2>2. CASE SP!HasBlock(text, t.port)
    BY <1>2, <2>1, <2>2 DEF HasEffect, SP!Upsert
  <2>3. CASE ~SP!HasBlock(text, t.port)
    <3>1. new = SP!Insert(SP!Base(text), SP!Block(t.port))
      BY <2>1, <2>3 DEF SP!Upsert
    <3>2. SP!Base(text) \in Seq(SP!Line)
      BY <1>1, TextTypes
    <3>3. PICK base : base = SP!Base(text)
      OBVIOUS
    <3>4. new \in Seq(SP!Line) /\ \E h : Inserted(new, base, t.port, h)
      BY <1>1, <3>1, <3>2, <3>3, InsertFacts
    <3>5. SP!HasBlock(new, t.port)
      BY <1>1, <3>2, <3>3, <3>4, InsertedHasBlock
    <3> QED
      BY <1>2, <3>5 DEF HasEffect
  <2> QED
    BY <2>2, <2>3
<1>3. CASE ~t.on
  <2>1. new = SP!Strip(text)
    BY <1>3 DEF SP!NewText
  <2>2. CASE SP!Broken(text)
    BY <1>3, <2>1, <2>2 DEF HasEffect, SP!Strip
  <2>3. CASE ~SP!Broken(text)
    <3>1. new = SP!Scan(text).out
      BY <2>1, <2>3 DEF SP!Strip
    <3>2. new \in Seq(SP!Line) /\ NoStart(new)
      BY <1>1, <3>1, ScanOut
    <3>3. \A p \in Ports : ~SP!HasBlock(new, p)
      BY <3>2, NoBlock
    <3> QED
      BY <1>3, <3>3 DEF HasEffect
  <2> QED
    BY <2>2, <2>3
<1> QED
  BY <1>2, <1>3

LEMMA SwitchLeftFacts ==
  ASSUME NEW left \in SwitchLefts, left # <<>>
  PROVE  /\ Tail(left) \in SwitchLefts
         /\ Tail(left) = <<>> \/ Head(Tail(left)) # "files"
         /\ Tail(left) = <<>> => Head(left) = "pref"
<1>1. CASE left = <<"pref">>
  <2>1. Tail(left) = <<>> /\ Head(left) = "pref"
    BY <1>1
  <2> QED
    BY <2>1 DEF SwitchLefts
<1>2. CASE left = <<"session", "pref">>
  BY <1>2 DEF SwitchLefts
<1>3. CASE left = <<"files", "session", "pref">>
  BY <1>3 DEF SwitchLefts
<1> QED
  BY <1>1, <1>2, <1>3 DEF SwitchLefts

(* A step of one task.                                                      *)
LEMMA TaskSwitches ==
  ASSUME PInv, WInv, NEW k \in Tasks, tasks[k] # SP!Idle,
         NEW u, tasks' = [tasks EXCEPT ![k] = u],
         u.kind = tasks[k].kind, u.alone = tasks[k].alone,
         u.kind \in SwitchKinds => u.left \in SwitchLefts,
         \A p \in Processes : procs'[p].role = procs[p].role, CacheIsRight',
         Switching(u) => Switched(k)'
  PROVE  WInv'
<1>1. tasks'[k] = u /\ \A j \in Tasks \ {k} : tasks'[j] = tasks[j]
  BY DEF PInv, ProxyTypes
<1>2. SwitchOfTui'
  BY <1>1, ProxyFacts DEF WInv, SwitchOfTui
<1>3. AloneIsAlone'
  BY <1>1 DEF WInv, AloneIsAlone
<1>4. ASSUME NEW j \in Tasks, Switching(tasks'[j]) PROVE Switched(j)'
  <2>1. CASE j = k
    BY <1>1, <1>4, <2>1
  <2>2. CASE j # k
    <3>1. tasks[j].kind \in SwitchKinds /\ tasks[j].alone
      BY <1>1, <1>4, <2>2 DEF Switching
    <3>2. tasks[j] # SP!Idle
      BY <3>1 DEF SP!Idle, SwitchKinds
    <3> QED
      BY <2>2, <3>1, <3>2 DEF WInv, AloneIsAlone
  <2> QED
    BY <2>1, <2>2
<1> QED
  BY <1>2, <1>3, <1>4 DEF WInv, SwitchesOK

(* Tasks that end, and processes that start or end without one.             *)
LEMMA EndSwitches ==
  ASSUME PInv, WInv, rc' = rc, CacheIsRight',
         \A k \in Tasks :
           \/ tasks'[k] = SP!Idle
           \/ /\ tasks'[k] = tasks[k]
              /\ tasks[k].kind \in SwitchKinds => procs'[Owner[k]] = procs[Owner[k]]
  PROVE  WInv'
<1>1. SP!Idle.kind \notin SwitchKinds
  BY DEF SP!Idle, SwitchKinds
<1>2. SwitchOfTui'
  BY <1>1 DEF WInv, SwitchOfTui
<1>3. AloneIsAlone'
  BY DEF WInv, AloneIsAlone
<1>4. ASSUME NEW k \in Tasks, Switching(tasks'[k]) PROVE Switched(k)'
  <2>1. tasks'[k] = tasks[k] /\ procs'[Owner[k]] = procs[Owner[k]] /\ Switched(k)
    BY <1>1, <1>4 DEF Switching, WInv, SwitchesOK
  <2> QED
    BY <2>1 DEF Switched, FilesSwitched
<1> QED
  BY <1>2, <1>3, <1>4 DEF WInv, SwitchesOK

(* Steps after which the old tasks are not alone.                           *)
LEMMA CrowdSwitches ==
  ASSUME PInv, WInv, CacheIsRight',
         \A p \in Processes : procs[p].role = "tui" => procs'[p].role = "tui",
         \A k \in Tasks :
           \/ tasks'[k] = SP!Idle
           \/ /\ ~tasks'[k].alone
              /\ tasks'[k].kind = tasks[k].kind /\ tasks'[k].left = tasks[k].left
           \/ /\ tasks'[k].kind \in SwitchKinds => procs'[Owner[k]].role = "tui"
                                              /\ tasks'[k].left \in SwitchLefts
              /\ tasks'[k].alone => \A j \in Tasks \ {k} : tasks'[j] = SP!Idle
              /\ Switching(tasks'[k]) => Switched(k)'
  PROVE  WInv'
<1>1. SP!Idle.kind \notin SwitchKinds
  BY DEF SP!Idle, SwitchKinds
<1>2. SwitchOfTui'
  BY <1>1, ProxyFacts DEF WInv, SwitchOfTui
<1>3. AloneIsAlone'
  BY DEF AloneIsAlone
<1>4. SwitchesOK'
  BY <1>1 DEF SwitchesOK, Switching
<1> QED
  BY <1>2, <1>3, <1>4 DEF WInv

(* What an idle task, or a process that is not there, already has is noted  *)
(* of it again.                                                             *)
LEMMA NotedAgain ==
  /\ [SP!Idle EXCEPT !.alone = TRUE] = SP!Idle
  /\ [SP!Down EXCEPT !.stale = FALSE] = SP!Down
<1>1. PICK i : i = SP!Idle
  OBVIOUS
<1>2. i = [x \in DOMAIN i |-> i[x]] /\ i.alone = TRUE
  BY <1>1 DEF SP!Idle
<1>3. [i EXCEPT !.alone = TRUE] = i
  BY <1>2
<1>4. PICK d : d = SP!Down
  OBVIOUS
<1>5. d = [x \in DOMAIN d |-> d[x]] /\ d.stale = FALSE
  BY <1>4 DEF SP!Down
<1>6. [d EXCEPT !.stale = FALSE] = d
  BY <1>5
<1> QED
  BY <1>1, <1>3, <1>4, <1>6

LEMMA EnlistSwitches ==
  ASSUME PInv, TInv, WInv, NEW k \in Tasks, NEW on \in BOOLEAN, NEW withPort \in Ports,
         NEW kind \in {"start", "enable", "disable", "stop", "ports", "cleanup"},
         SP!Enlist(k, kind, on, withPort), rc' = rc, CacheIsRight',
         \A p \in Processes : procs[p].role = "tui" => procs'[p].role = "tui",
         kind \in SwitchKinds => procs'[Owner[k]].role = "tui"
  PROVE  WInv'
<1> DEFINE b == {j \in Tasks : tasks[j] # SP!Idle} = {}
           new == [SP!Idle EXCEPT !.kind = kind, !.on = on, !.port = withPort,
                             !.left = SP!Plan(kind), !.todo = SP!Targets(kind), !.alone = b]
<1>1. tasks'[k] = new
  BY DEF SP!Enlist
<1>2. b \in BOOLEAN
  OBVIOUS
<1>3. b => \A j \in Tasks : tasks[j] = SP!Idle
  OBVIOUS
<1> HIDE DEF b
<1>4. Fresh(new, kind, on, withPort) /\ new.alone = b
  BY <1>2 DEF Fresh, SP!Idle
<1> HIDE DEF new
<1>5. ASSUME NEW j \in Tasks \ {k}
      PROVE  \/ tasks'[j] = SP!Idle
             \/ /\ tasks[j] # SP!Idle /\ ~tasks'[j].alone
                /\ tasks'[j].kind = tasks[j].kind /\ tasks'[j].left = tasks[j].left
  <2>1. tasks'[j] = [tasks[j] EXCEPT !.alone = tasks[j] = SP!Idle]
    BY <1>5 DEF SP!Enlist
  <2>2. CASE tasks[j] = SP!Idle
    <3>1. tasks'[j] = [SP!Idle EXCEPT !.alone = TRUE]
      BY <2>1, <2>2
    <3> QED
      BY <3>1, NotedAgain
  <2>3. CASE tasks[j] # SP!Idle
    <3>1. tasks'[j] = [tasks[j] EXCEPT !.alone = FALSE]
      BY <2>1, <2>3
    <3>2. DOMAIN tasks[j] = TaskFields
      BY DEF PInv, ProxyTypes
    <3> QED
      BY <2>3, <3>1, <3>2 DEF TaskFields
  <2> QED
    BY <2>2, <2>3
<1>6. tasks'[k].alone => \A j \in Tasks \ {k} : tasks'[j] = SP!Idle
  BY <1>1, <1>3, <1>4, <1>5
<1>7. tasks'[k].kind \in SwitchKinds => procs'[Owner[k]].role = "tui"
                                      /\ tasks'[k].left \in SwitchLefts
  BY <1>1, <1>4, PlanFacts DEF Fresh, SwitchKinds, SwitchLefts
<1>8. Switching(tasks'[k]) => Switched(k)'
  <2> SUFFICES ASSUME kind \in SwitchKinds PROVE Switched(k)'
    BY <1>1, <1>4 DEF Fresh, Switching
  <2>1. new.left = <<"files", "session", "pref">>
    BY <1>4, PlanFacts DEF Fresh, SwitchKinds
  <2>2. InFiles(new)
    BY <2>1 DEF InFiles
  <2>3. \A f \in SP!Files : rc[f] = Missing \/ f \in new.todo
    BY <1>4 DEF Fresh, SP!Targets
  <2>4. new.writing = <<>> /\ new.found = FALSE
    BY <1>4 DEF Fresh
  <2> QED
    BY <1>1, <2>1, <2>2, <2>3, <2>4 DEF Switched, FilesSwitched, Ahead
<1> QED
  BY <1>1, <1>4, <1>5, <1>6, <1>7, <1>8, CrowdSwitches

LEMMA LoadedFacts ==
  /\ \A on \in SP!Loaded : on \in BOOLEAN /\ SP!Loaded = {on}
  /\ \A on \in SP!Reads : on \in BOOLEAN
  /\ pref' = pref => SP!Loaded' = SP!Loaded
BY DEF SP!Reads, SP!Loaded

LEMMA StartSwitches ==
  ASSUME PInv, CacheIsRight, NEW p \in Processes, NEW role \in {"tui", "cli"},
         NEW on \in SP!Reads, SP!Starts(p, role, on), pref' = pref
  PROVE  /\ CacheIsRight'
         /\ \A q \in Processes : procs[q].role = "tui" => procs'[q] = procs[q]
<1>1. /\ procs[p].role = "down" /\ \A q \in Processes \ {p} : procs'[q] = procs[q]
      /\ procs'[p].on = on /\ SP!Loaded' = SP!Loaded
  BY StartsFacts, LoadedFacts
<1>2. procs'[p].stale = (on \notin SP!Loaded)
  BY DEF SP!Starts, PInv, ProxyTypes
<1>3. ~procs'[p].stale => SP!Loaded' = {procs'[p].on}
  BY <1>1, <1>2, LoadedFacts
<1> QED
  BY <1>1, <1>3 DEF CacheIsRight

LEMMA OperationSwitches ==
  ASSUME PInv, TInv, WInv, NEW k \in Tasks
  PROVE  /\ \A on \in SP!Reads : SP!Run(k, on) \/ SP!RunMihomoStart(k, on)
                                   \/ SP!RunMihomoStop(k, on) => WInv'
         /\ \A on \in BOOLEAN : SP!Toggle(k, on) => WInv'
         /\ SP!StopFromDashboard(k) \/ SP!Cleanup(k) => WInv'
         /\ \A new \in Ports : SP!ChangePort(k, new) => WInv'
<1> USE DEF SP!files, SP!history
<1>1. /\ Owner[k] \in Processes /\ procs[Owner[k]].port \in Ports /\ s3 \in Ports
      /\ procs[Owner[k]].on \in BOOLEAN
  BY ProxyFacts DEF PInv, ProxyTypes, ProcessType
<1>2. \A kind \in {"start", "stop", "ports", "cleanup"} : kind \notin SwitchKinds
  BY DEF SwitchKinds
<1>3. CacheIsRight
  BY DEF WInv
<1>4. ASSUME NEW on \in SP!Reads, NEW role \in {"tui", "cli"}, NEW listening,
             SP!Starts(Owner[k], role, on), SP!ReconcileIfUsable(k, on, listening),
             UNCHANGED <<rc, pref>>
      PROVE  WInv'
  <2>1. /\ CacheIsRight'
        /\ \A q \in Processes : procs[q].role = "tui" => procs'[q] = procs[q]
    BY <1>1, <1>3, <1>4, StartSwitches
  <2>2. CASE UNCHANGED tasks
    <3>1. \A j \in Tasks : tasks[j].kind \in SwitchKinds => procs'[Owner[j]] = procs[Owner[j]]
      BY <2>1, ProxyFacts DEF WInv, SwitchOfTui
    <3> QED
      BY <1>4, <2>1, <2>2, <3>1, EndSwitches
  <2>3. CASE SP!Enlist(k, "start", on, s3)
    BY <1>1, <1>2, <1>4, <2>1, <2>3, EnlistSwitches, LoadedFacts
  <2> QED
    BY <1>4, <2>2, <2>3 DEF SP!ReconcileIfUsable
<1>5. ASSUME NEW on \in SP!Reads, SP!Run(k, on) \/ SP!RunMihomoStart(k, on) PROVE WInv'
  <2>1. CASE SP!Run(k, on)
    BY <1>4, <2>1 DEF SP!Run
  <2>2. CASE SP!RunMihomoStart(k, on)
    BY <1>4, <2>2 DEF SP!RunMihomoStart
  <2> QED
    BY <1>5, <2>1, <2>2
<1>6. ASSUME NEW on \in SP!Reads, SP!RunMihomoStop(k, on) PROVE WInv'
  <2>1. /\ SP!Starts(Owner[k], "cli", on) /\ SP!Enlist(k, "stop", FALSE, s3)
        /\ UNCHANGED <<rc, pref>>
    BY <1>6 DEF SP!RunMihomoStop, SP!KernelStops
  <2>2. /\ CacheIsRight'
        /\ \A q \in Processes : procs[q].role = "tui" => procs'[q] = procs[q]
    BY <1>1, <1>3, <2>1, StartSwitches
  <2> QED
    BY <1>1, <1>2, <2>1, <2>2, EnlistSwitches
<1>7. ASSUME UNCHANGED <<procs, pref>> PROVE CacheIsRight'
  BY <1>3, <1>7, LoadedFacts DEF CacheIsRight
<1>8. ASSUME SP!StopFromDashboard(k) PROVE WInv'
  <2>1. /\ SP!Enlist(k, "stop", FALSE, procs[Owner[k]].port)
        /\ UNCHANGED <<rc, pref, procs>>
    BY <1>8 DEF SP!StopFromDashboard, SP!KernelStops
  <2> QED
    BY <1>1, <1>2, <1>7, <2>1, EnlistSwitches
<1>9. ASSUME SP!Cleanup(k) PROVE WInv'
  <2>1. /\ procs[Owner[k]].role = "down" /\ SP!Enlist(k, "cleanup", FALSE, s3)
        /\ procs' = [procs EXCEPT ![Owner[k]].role = "cli"]
        /\ UNCHANGED <<rc, pref>>
    BY <1>9 DEF SP!Cleanup
  <2>2. /\ procs'[Owner[k]].role = "cli"
        /\ \A q \in Processes : procs[q].role = "tui" => procs'[q] = procs[q]
        /\ \A q \in Processes \ {Owner[k]} : procs'[q] = procs[q]
    BY <1>1, <2>1 DEF PInv, ProxyTypes, ProcessType
  <2>3. CacheIsRight'
    BY <1>3, <2>1, <2>2, LoadedFacts DEF CacheIsRight
  <2> QED
    BY <1>1, <1>2, <2>1, <2>2, <2>3, EnlistSwitches
<1>10. ASSUME NEW on \in BOOLEAN, SP!Toggle(k, on) PROVE WInv'
  <2> DEFINE kind == IF on THEN "enable" ELSE "disable"
  <2>1. /\ procs[Owner[k]].role = "tui" /\ UNCHANGED <<rc, pref, procs>>
        /\ SP!Enlist(k, kind, on, procs[Owner[k]].port)
    BY <1>10 DEF SP!Toggle
  <2>2. kind \in {"start", "enable", "disable", "stop", "ports", "cleanup"}
    OBVIOUS
  <2> HIDE DEF kind
  <2> QED
    BY <1>1, <1>7, <2>1, <2>2, EnlistSwitches
<1>11. ASSUME NEW new \in Ports, SP!ChangePort(k, new) PROVE WInv'
  <2>1. /\ SP!Enlist(k, "ports", procs[Owner[k]].on, new)
        /\ procs' = [procs EXCEPT ![Owner[k]].port = new]
        /\ UNCHANGED <<rc, pref>>
    BY <1>11 DEF SP!ChangePort
  <2>2. \A q \in Processes : /\ procs'[q].role = procs[q].role /\ procs'[q].on = procs[q].on
                             /\ procs'[q].stale = procs[q].stale
    BY <1>1, <2>1 DEF PInv, ProxyTypes, ProcessType
  <2>3. CacheIsRight'
    BY <1>3, <2>1, <2>2, LoadedFacts DEF CacheIsRight
  <2> QED
    BY <1>1, <1>2, <2>1, <2>2, <2>3, EnlistSwitches
<1> QED
  BY <1>5, <1>6, <1>8, <1>9, <1>10, <1>11

LEMMA SameCache ==
  ASSUME PInv, WInv, UNCHANGED <<procs, pref>>
  PROVE  CacheIsRight' /\ \A p \in Processes : procs'[p].role = procs[p].role
BY LoadedFacts DEF WInv, CacheIsRight

LEMMA Busy ==
  ASSUME NEW k, tasks[k].left # <<>> \/ tasks[k].writing # <<>>
  PROVE  tasks[k] # SP!Idle
BY DEF SP!Idle

LEMMA ReadFileSwitches ==
  ASSUME PInv, TInv, WInv, NEW k \in Tasks, SP!ReadFile(k)
  PROVE  WInv'
<1> DEFINE f == SP!First(tasks[k].todo)
           there == rc[f] # Missing
           new == SP!NewText(k, f)
           w == IF there /\ new # rc[f] THEN <<f, new, FALSE>> ELSE <<>>
           t == tasks[k]
           u == [t EXCEPT !.todo = @ \ {f}, !.found = @ \/ there, !.writing = w]
<1>1. /\ InFiles(t) /\ t.left # <<>> /\ t.writing = <<>> /\ t.todo # {}
      /\ tasks' = [tasks EXCEPT ![k] = u]
      /\ rc' = rc /\ UNCHANGED <<procs, pref>>
  BY DEF SP!ReadFile, SP!Do, InFiles, SP!files
<1>2. f \in t.todo /\ f \in SP!Files
  BY <1>1, FirstFacts DEF TInv, TaskOK
<1> HIDE DEF f
<1>3. there => HasEffect(t, new)
  BY <1>2, SwitchTexts
<1> HIDE DEF new
<1>4. w # <<>> => there /\ w[1] = f /\ w[2] = new
  OBVIOUS
<1>5. w = <<>> => ~there \/ new = rc[f]
  OBVIOUS
<1> HIDE DEF w
<1>6. there \in BOOLEAN /\ (t.found \/ there) \in BOOLEAN
  OBVIOUS
<1>7. /\ u.kind = t.kind /\ u.on = t.on /\ u.port = t.port /\ u.left = t.left
      /\ u.todo = t.todo \ {f} /\ u.found = (t.found \/ there) /\ u.writing = w
      /\ u.failed = t.failed /\ u.alone = t.alone
  BY DEF PInv, ProxyTypes, TaskFields
<1>8. tasks'[k] = u
  BY <1>1 DEF PInv, ProxyTypes
<1> HIDE DEF u
<1>9. \A text : HasEffect(t, text) => HasEffect(u, text)
  BY <1>7 DEF HasEffect
<1>10. ASSUME Switching(u) PROVE Switched(k)'
  <2>1. FilesSwitched(t)
    BY <1>7, <1>10 DEF Switching, WInv, SwitchesOK, Switched
  <2>2. ASSUME NEW g \in SP!Files
        PROVE  rc[g] = Missing \/ Ahead(u, g) \/ HasEffect(u, rc[g])
    <3>1. CASE g = f
      BY <1>1, <1>3, <1>4, <1>5, <1>7, <1>9, <3>1 DEF Ahead, InFiles
    <3>2. CASE g # f
      <4>1. rc[g] = Missing \/ Ahead(t, g) \/ HasEffect(t, rc[g])
        BY <2>1 DEF FilesSwitched
      <4> QED
        BY <1>1, <1>7, <1>9, <3>2, <4>1 DEF Ahead, InFiles
    <3> QED
      BY <3>1, <3>2
  <2>3. u.writing # <<>> => HasEffect(u, u.writing[2])
    BY <1>3, <1>4, <1>7, <1>9
  <2>4. u.on /\ (u.found \/ ~InFiles(u)) => \E g \in SP!Files : rc[g] # Missing
    BY <1>1, <1>2, <1>7, <2>1 DEF FilesSwitched, InFiles
  <2> QED
    BY <1>1, <1>7, <1>8, <2>2, <2>3, <2>4 DEF Switched, FilesSwitched
<1>11. u.kind \in SwitchKinds => u.left \in SwitchLefts
  BY <1>7 DEF WInv, SwitchOfTui
<1> QED
  BY <1>1, <1>7, <1>10, <1>11, Busy, SameCache, TaskSwitches

LEMMA TruncateSwitches ==
  ASSUME PInv, TInv, WInv, NEW k \in Tasks, SP!Truncate(k)
  PROVE  WInv'
<1> DEFINE t == tasks[k]
           w == t.writing
           f == w[1]
           x == [w EXCEPT ![3] = TRUE]
           u == [t EXCEPT !.writing = x]
<1>1. /\ w # <<>> /\ rc' = [rc EXCEPT ![f] = <<>>]
      /\ tasks' = [tasks EXCEPT ![k] = u]
      /\ UNCHANGED <<procs, pref>>
  BY DEF SP!Truncate, PInv, ProxyTypes, TaskFields
<1>2. f \in SP!Files /\ DOMAIN w = 1..3 /\ InFiles(t)
  BY <1>1 DEF TInv, TaskOK, WritingOK
<1>3. x # <<>> /\ x[1] = f /\ x[2] = w[2]
  BY <1>2
<1> HIDE DEF x
<1>4. /\ u.kind = t.kind /\ u.on = t.on /\ u.port = t.port /\ u.left = t.left
      /\ u.todo = t.todo /\ u.found = t.found /\ u.writing = x
      /\ u.failed = t.failed /\ u.alone = t.alone
  BY DEF PInv, ProxyTypes, TaskFields
<1>5. tasks'[k] = u
  BY <1>1 DEF PInv, ProxyTypes
<1> HIDE DEF u
<1>6. \A text : HasEffect(t, text) => HasEffect(u, text)
  BY <1>4 DEF HasEffect
<1>7. rc'[f] = <<>> /\ \A g \in SP!Files \ {f} : rc'[g] = rc[g]
  BY <1>1, <1>2 DEF TInv, FilesOK
<1>8. ASSUME Switching(u) PROVE Switched(k)'
  <2>1. FilesSwitched(t)
    BY <1>4, <1>8 DEF Switching, WInv, SwitchesOK, Switched
  <2>2. ASSUME NEW g \in SP!Files
        PROVE  rc'[g] = Missing \/ Ahead(u, g) \/ HasEffect(u, rc'[g])
    <3>1. CASE g = f
      BY <1>2, <1>3, <1>4, <3>1 DEF Ahead, InFiles
    <3>2. CASE g # f
      <4>1. rc[g] = Missing \/ Ahead(t, g) \/ HasEffect(t, rc[g])
        BY <2>1 DEF FilesSwitched
      <4> QED
        BY <1>2, <1>4, <1>6, <1>7, <3>2, <4>1 DEF Ahead, InFiles
    <3> QED
      BY <3>1, <3>2
  <2>3. HasEffect(u, u.writing[2])
    BY <1>1, <1>3, <1>4, <1>6, <2>1 DEF FilesSwitched
  <2>4. \E g \in SP!Files : rc'[g] # Missing
    BY <1>2, <1>7, FileFacts
  <2>5. u.left # <<>>
    BY <1>2, <1>4 DEF InFiles
  <2> QED
    BY <1>5, <2>2, <2>3, <2>4, <2>5 DEF Switched, FilesSwitched
<1>9. u.kind \in SwitchKinds => u.left \in SwitchLefts
  BY <1>4 DEF WInv, SwitchOfTui
<1> QED
  BY <1>1, <1>4, <1>8, <1>9, Busy, SameCache, TaskSwitches

LEMMA FillSwitches ==
  ASSUME PInv, TInv, WInv, NEW k \in Tasks, SP!Fill(k)
  PROVE  WInv'
<1> DEFINE t == tasks[k]
           w == t.writing
           f == w[1]
           u == [t EXCEPT !.writing = <<>>]
<1>1. /\ w # <<>> /\ rc' = [rc EXCEPT ![f] = w[2]]
      /\ tasks' = [tasks EXCEPT ![k] = u]
      /\ UNCHANGED <<procs, pref>>
  BY DEF SP!Fill, SP!history
<1>2. f \in SP!Files /\ w[2] \in Seq(SP!Line) /\ InFiles(t)
  BY <1>1 DEF TInv, TaskOK, WritingOK
<1>3. /\ u.kind = t.kind /\ u.on = t.on /\ u.port = t.port /\ u.left = t.left
      /\ u.todo = t.todo /\ u.found = t.found /\ u.writing = <<>>
      /\ u.failed = t.failed /\ u.alone = t.alone
  BY DEF PInv, ProxyTypes, TaskFields
<1>4. tasks'[k] = u
  BY <1>1 DEF PInv, ProxyTypes
<1> HIDE DEF u
<1>5. \A text : HasEffect(t, text) => HasEffect(u, text)
  BY <1>3 DEF HasEffect
<1>6. rc'[f] = w[2] /\ \A g \in SP!Files \ {f} : rc'[g] = rc[g]
  BY <1>1, <1>2 DEF TInv, FilesOK
<1>7. ASSUME Switching(u) PROVE Switched(k)'
  <2>1. FilesSwitched(t)
    BY <1>3, <1>7 DEF Switching, WInv, SwitchesOK, Switched
  <2>2. ASSUME NEW g \in SP!Files
        PROVE  rc'[g] = Missing \/ Ahead(u, g) \/ HasEffect(u, rc'[g])
    <3>1. CASE g = f
      BY <1>1, <1>5, <1>6, <2>1, <3>1 DEF FilesSwitched
    <3>2. CASE g # f
      <4>1. rc[g] = Missing \/ Ahead(t, g) \/ HasEffect(t, rc[g])
        BY <2>1 DEF FilesSwitched
      <4> QED
        BY <1>2, <1>3, <1>5, <1>6, <3>2, <4>1 DEF Ahead, InFiles
    <3> QED
      BY <3>1, <3>2
  <2>3. \E g \in SP!Files : rc'[g] # Missing
    BY <1>2, <1>6, FileFacts
  <2>4. u.left # <<>>
    BY <1>2, <1>3 DEF InFiles
  <2> QED
    BY <1>3, <1>4, <2>2, <2>3, <2>4 DEF Switched, FilesSwitched
<1>8. u.kind \in SwitchKinds => u.left \in SwitchLefts
  BY <1>3 DEF WInv, SwitchOfTui
<1> QED
  BY <1>1, <1>3, <1>7, <1>8, Busy, SameCache, TaskSwitches

LEMMA FileFailsSwitches ==
  ASSUME PInv, TInv, WInv, NEW k \in Tasks, SP!FileFails(k)
  PROVE  WInv'
<1> DEFINE t == tasks[k]
<1>1. SP!Do(k, "files") /\ t.left # <<>> /\ rc' = rc /\ UNCHANGED <<procs, pref>>
  BY DEF SP!FileFails, SP!Do, SP!files
<1>2. t.kind \in SwitchKinds => SP!Rest(k, TRUE) = <<>>
  BY DEF SP!Rest, SwitchKinds
<1>3. <<>> \in SwitchLefts
  BY DEF SwitchLefts
<1>4. t.kind \in SwitchKinds => t.kind # "cleanup"
  BY DEF SwitchKinds
<1>5. CASE t.writing = <<>> /\ t.kind # "cleanup"
  <2> DEFINE u == [t EXCEPT !.left = SP!Rest(k, TRUE), !.todo = {}, !.failed = @ \/ TRUE]
  <2>1. tasks' = [tasks EXCEPT ![k] = u]
    BY <1>5 DEF SP!FileFails, SP!PhaseEnds
  <2>2. u.kind = t.kind /\ u.alone = t.alone /\ u.failed /\ u.left = SP!Rest(k, TRUE)
    BY DEF PInv, ProxyTypes, TaskFields
  <2> HIDE DEF u
  <2> QED
    BY <1>1, <1>2, <1>3, <2>1, <2>2, Busy, SameCache, TaskSwitches DEF Switching
<1>6. CASE t.writing = <<>> /\ t.kind = "cleanup"
  <2> DEFINE u == [t EXCEPT !.todo = @ \ {SP!First(@)}]
  <2>1. tasks' = [tasks EXCEPT ![k] = u]
    BY <1>6 DEF SP!FileFails
  <2>2. u.kind = t.kind /\ u.alone = t.alone
    BY DEF PInv, ProxyTypes, TaskFields
  <2> HIDE DEF u
  <2> QED
    BY <1>1, <1>4, <1>6, <2>1, <2>2, Busy, SameCache, TaskSwitches DEF Switching
<1>7. CASE t.writing # <<>>
  <2> DEFINE left == IF t.kind = "cleanup" THEN t.left ELSE SP!Rest(k, TRUE)
             todo == IF t.kind = "cleanup" THEN t.todo ELSE {}
             u == [t EXCEPT !.writing = <<>>, !.failed = TRUE, !.left = left, !.todo = todo]
  <2>1. tasks' = [tasks EXCEPT ![k] = u]
    BY <1>7 DEF SP!FileFails, PInv, ProxyTypes, TaskFields
  <2>2. t.kind \in SwitchKinds => left = <<>>
    BY <1>2, <1>4
  <2> HIDE DEF left, todo
  <2>3. u.kind = t.kind /\ u.alone = t.alone /\ u.failed /\ u.left = left
    BY DEF PInv, ProxyTypes, TaskFields
  <2> HIDE DEF u
  <2> QED
    BY <1>1, <1>3, <2>1, <2>2, <2>3, Busy, SameCache, TaskSwitches DEF Switching
<1> QED
  BY <1>5, <1>6, <1>7

(* A phase that ends well after the files.                                  *)
LEMMA LaterSwitches ==
  ASSUME PInv, TInv, WInv, NEW k \in Tasks, tasks[k].left # <<>>, ~InFiles(tasks[k]),
         rc' = rc, NEW u, tasks' = [tasks EXCEPT ![k] = u],
         u.kind = tasks[k].kind, u.on = tasks[k].on, u.port = tasks[k].port,
         u.found = tasks[k].found, u.writing = tasks[k].writing, u.alone = tasks[k].alone,
         u.failed = tasks[k].failed,
         u.kind \in SwitchKinds => u.left = Tail(tasks[k].left),
         \A p \in Processes : procs'[p].role = procs[p].role, CacheIsRight',
         SP!Do(k, "pref") => procs'[Owner[k]].on = tasks[k].on
  PROVE  WInv'
<1> DEFINE t == tasks[k]
<1>1. tasks'[k] = u
  BY DEF PInv, ProxyTypes
<1>2. ASSUME u.kind \in SwitchKinds
      PROVE  /\ u.left \in SwitchLefts
             /\ ~InFiles(u)
             /\ u.left = <<>> => SP!Do(k, "pref")
  BY <1>2, SwitchLeftFacts DEF WInv, SwitchOfTui, InFiles, SP!Do
<1>3. \A text : HasEffect(t, text) => HasEffect(u, text)
  BY DEF HasEffect
<1>4. ASSUME Switching(u) PROVE Switched(k)'
  <2>1. FilesSwitched(t)
    BY <1>4 DEF Switching, WInv, SwitchesOK, Switched
  <2>2. FilesSwitched(u)
    BY <1>2, <1>3, <1>4, <2>1 DEF FilesSwitched, Ahead, Switching
  <2>3. u.left = <<>> => procs'[Owner[k]].on = u.on
    BY <1>2, <1>4 DEF Switching
  <2> QED
    BY <1>1, <2>2, <2>3 DEF Switched, FilesSwitched
<1>5. tasks[k] # SP!Idle
  BY Busy
<1>6. u.kind \in SwitchKinds => u.left \in SwitchLefts
  BY <1>2
<1> HIDE DEF t
<1> QED
  BY <1>4, <1>5, <1>6, TaskSwitches

LEMMA PhaseSwitches ==
  ASSUME PInv, TInv, WInv, NEW k \in Tasks, SP!PhaseEnds(k, FALSE),
         SP!Do(k, "session") \/ (SP!Do(k, "pref") /\ SP!Unchanged(k)),
         UNCHANGED <<rc, procs, pref>>
  PROVE  WInv'
<1> DEFINE t == tasks[k]
           u == [t EXCEPT !.left = SP!Rest(k, FALSE), !.todo = {}, !.failed = @ \/ FALSE]
<1>1. tasks' = [tasks EXCEPT ![k] = u]
  BY DEF SP!PhaseEnds
<1>2. SP!Rest(k, FALSE) = Tail(t.left)
  BY DEF SP!Rest
<1>3. t.failed \in BOOLEAN
  BY DEF TInv, TaskOK
<1>4. /\ u.kind = t.kind /\ u.on = t.on /\ u.port = t.port /\ u.found = t.found
      /\ u.writing = t.writing /\ u.alone = t.alone /\ u.failed = t.failed
      /\ u.left = Tail(t.left)
  BY <1>2, <1>3 DEF PInv, ProxyTypes, TaskFields
<1> HIDE DEF u
<1>5. t.left # <<>> /\ ~InFiles(t)
  BY DEF SP!Do, InFiles
<1>6. SP!Do(k, "pref") => procs[Owner[k]].on = t.on
  BY DEF SP!Do, SP!Unchanged
<1> QED
  BY <1>1, <1>4, <1>5, <1>6, SameCache, LaterSwitches

LEMMA SavedSwitches ==
  ASSUME PInv, NEW p \in Processes, NEW on \in BOOLEAN, SP!Saved(p, on)
  PROVE  /\ CacheIsRight' /\ procs'[p].on = on
         /\ \A q \in Processes : procs'[q].role = procs[q].role
<1> DEFINE Now(q) == IF q = p THEN [procs[q] EXCEPT !.on = on, !.stale = FALSE]
                     ELSE [procs[q] EXCEPT !.stale = procs[q].role # "down"]
<1>1. \A q \in Processes : procs[q] \in ProcessType
  BY DEF PInv, ProxyTypes
<1>2. ASSUME NEW q \in Processes
      PROVE  /\ Now(q).role = procs[q].role
             /\ q = p => Now(q).on = on
             /\ q # p => Now(q).stale = (procs[q].role # "down")
  BY <1>1 DEF ProcessType
<1>3. procs' = [q \in Processes |-> Now(q)] /\ pref' = IF on THEN "on" ELSE "off"
  BY DEF SP!Saved
<1> HIDE DEF Now
<1>4. SP!Loaded' = {on}
  BY <1>3 DEF SP!Loaded
<1>5. ASSUME NEW q \in Processes, procs'[q].role = "tui", ~procs'[q].stale
      PROVE  SP!Loaded' = {procs'[q].on}
  <2>1. q = p
    BY <1>2, <1>3, <1>5
  <2> QED
    BY <1>2, <1>3, <1>4, <2>1
<1> QED
  BY <1>2, <1>3, <1>5 DEF CacheIsRight

LEMMA PrefSwitches ==
  ASSUME PInv, TInv, WInv, NEW k \in Tasks
  PROVE  /\ SP!Session(k) \/ SP!PrefStays(k) => WInv'
         /\ \A saved \in BOOLEAN : SP!SavePref(k, saved) => WInv'
<1> USE DEF SP!files, SP!history
<1> DEFINE t == tasks[k]
<1>1. ASSUME SP!Session(k) PROVE WInv'
  BY <1>1, PhaseSwitches DEF SP!Session
<1>2. ASSUME SP!PrefStays(k) PROVE WInv'
  <2>1. SP!Do(k, "pref") /\ SP!Unchanged(k) /\ UNCHANGED <<rc, procs, pref>>
    BY <1>2 DEF SP!PrefStays
  <2>2. CASE SP!PhaseEnds(k, FALSE)
    BY <2>1, <2>2, PhaseSwitches
  <2>3. CASE t.kind = "stop" /\ tasks' = [tasks EXCEPT ![k].left = <<>>, ![k].todo = {}]
    <3> DEFINE u == [t EXCEPT !.left = <<>>, !.todo = {}]
    <3>1. tasks' = [tasks EXCEPT ![k] = u]
      BY <2>3
    <3>2. u.kind = t.kind /\ u.alone = t.alone
      BY DEF PInv, ProxyTypes, TaskFields
    <3> HIDE DEF u
    <3>3. t.left # <<>> /\ t.kind \notin SwitchKinds
      BY <2>1, <2>3 DEF SP!Do, SwitchKinds
    <3> QED
      BY <2>1, <3>1, <3>2, <3>3, Busy, SameCache, TaskSwitches DEF Switching
  <2> QED
    BY <1>2, <2>2, <2>3 DEF SP!PrefStays
<1>3. ASSUME NEW saved \in BOOLEAN, SP!SavePref(k, saved) PROVE WInv'
  <2>1. /\ SP!Do(k, "pref") /\ rc' = rc /\ t.left # <<>> /\ ~InFiles(t)
        /\ Owner[k] \in Processes
    BY <1>3, ProxyFacts DEF SP!SavePref, SP!Do, InFiles
  <2>0. SP!Rest(k, TRUE) = <<>> /\ <<>> \in SwitchLefts
    BY <2>1 DEF SP!Rest, SwitchLefts
  <2>2. CASE SP!Saved(Owner[k], t.on) /\ tasks' = [tasks EXCEPT ![k].left = Tail(@)]
    <3> DEFINE u == [t EXCEPT !.left = Tail(t.left)]
    <3>1. tasks' = [tasks EXCEPT ![k] = u] /\ SP!Saved(Owner[k], t.on)
      BY <2>2
    <3>2. /\ u.kind = t.kind /\ u.on = t.on /\ u.port = t.port /\ u.found = t.found
          /\ u.writing = t.writing /\ u.alone = t.alone /\ u.failed = t.failed
          /\ u.left = Tail(t.left)
      BY DEF PInv, ProxyTypes, TaskFields
    <3> HIDE DEF u
    <3>3. /\ CacheIsRight' /\ procs'[Owner[k]].on = t.on
          /\ \A q \in Processes : procs'[q].role = procs[q].role
      BY <2>1, <3>1, SavedSwitches DEF PInv, ProxyTypes
    <3> QED
      BY <2>1, <3>1, <3>2, <3>3, LaterSwitches
  <2>4. CASE SP!Saved(Owner[k], t.on) /\ SP!PhaseEnds(k, TRUE)
    <3> DEFINE u == [t EXCEPT !.left = SP!Rest(k, TRUE), !.todo = {}, !.failed = @ \/ TRUE]
    <3>1. tasks' = [tasks EXCEPT ![k] = u]
      BY <2>4 DEF SP!PhaseEnds
    <3>2. u.kind = t.kind /\ u.alone = t.alone /\ u.failed /\ u.left = SP!Rest(k, TRUE)
      BY DEF PInv, ProxyTypes, TaskFields
    <3> HIDE DEF u
    <3>3. CacheIsRight' /\ \A q \in Processes : procs'[q].role = procs[q].role
      BY <2>1, <2>4, SavedSwitches DEF PInv, ProxyTypes
    <3> QED
      BY <2>0, <2>1, <3>1, <3>2, <3>3, Busy, TaskSwitches DEF Switching
  <2>3. CASE ~saved
    <3> DEFINE u == [t EXCEPT !.left = SP!Rest(k, TRUE), !.todo = {}, !.failed = @ \/ TRUE]
    <3>1. /\ tasks' = [tasks EXCEPT ![k] = u] /\ pref' = pref
          /\ procs' = [procs EXCEPT ![Owner[k]].on = t.on, ![Owner[k]].stale = TRUE]
      BY <1>3, <2>3 DEF SP!SavePref, SP!PhaseEnds
    <3>2. u.kind = t.kind /\ u.alone = t.alone /\ u.failed /\ u.left = SP!Rest(k, TRUE)
      BY DEF PInv, ProxyTypes, TaskFields
    <3> HIDE DEF u
    <3>4. /\ procs'[Owner[k]].stale
          /\ \A q \in Processes : procs'[q].role = procs[q].role
          /\ \A q \in Processes \ {Owner[k]} : procs'[q] = procs[q]
      BY <2>1, <3>1 DEF PInv, ProxyTypes, ProcessType
    <3>5. CacheIsRight'
      BY <3>1, <3>4, LoadedFacts DEF WInv, CacheIsRight
    <3> QED
      BY <2>0, <2>1, <3>1, <3>2, <3>4, <3>5, Busy, TaskSwitches DEF Switching
  <2> QED
    BY <1>3, <2>2, <2>3, <2>4 DEF SP!SavePref
<1> QED
  BY <1>1, <1>2, <1>3

(* The block that is a whole new .profile.                                  *)
LEMMA BlockHasBlock ==
  ASSUME NEW port \in Ports
  PROVE  SP!HasBlock(SP!Block(port), port)
<1> PICK t : t = SP!Block(port)
  OBVIOUS
<1> PICK none : none = <<>>
  OBVIOUS
<1>1. none \in Seq(SP!Line)
  OBVIOUS
<1>2. t \in Seq(SP!Line) /\ Inserted(t, none, port, 0)
  BY PortFacts DEF Inserted
<1>3. SP!HasBlock(t, port)
  BY <1>1, <1>2, InsertedHasBlock
<1> QED
  BY <1>3

LEMMA FilesDoneWell ==
  ASSUME PInv, TInv, WInv, NEW k \in Tasks, SP!FilesDone(k), SP!PhaseEnds(k, FALSE),
         rc' = IF tasks[k].on /\ ~tasks[k].found
               THEN [rc EXCEPT ![Profile] = SP!Block(tasks[k].port)] ELSE rc
  PROVE  WInv'
<1> DEFINE t == tasks[k]
           creates == t.on /\ ~t.found
           u == [t EXCEPT !.left = SP!Rest(k, FALSE), !.todo = {}, !.failed = @ \/ FALSE]
<1> PICK block : block = SP!Block(t.port)
  OBVIOUS
<1>1. /\ SP!Do(k, "files") /\ t.left # <<>> /\ t.todo = {} /\ t.writing = <<>>
      /\ rc' = IF creates THEN [rc EXCEPT ![Profile] = block] ELSE rc
      /\ tasks' = [tasks EXCEPT ![k] = u] /\ UNCHANGED <<procs, pref>>
  BY DEF SP!FilesDone, SP!PhaseEnds, SP!Do
<1>2. SP!Rest(k, FALSE) = Tail(t.left)
  BY DEF SP!Rest
<1>3. t.failed \in BOOLEAN /\ t.port \in Ports
  BY DEF TInv, TaskOK
<1>4. /\ u.kind = t.kind /\ u.on = t.on /\ u.port = t.port /\ u.found = t.found
      /\ u.writing = <<>> /\ u.alone = t.alone /\ u.failed = t.failed
      /\ u.left = Tail(t.left)
  BY <1>1, <1>2, <1>3 DEF PInv, ProxyTypes, TaskFields
<1>5. tasks'[k] = u
  BY <1>1 DEF PInv, ProxyTypes
<1> HIDE DEF u
<1>6. ASSUME u.kind \in SwitchKinds
      PROVE  u.left \in SwitchLefts /\ u.left # <<>> /\ ~InFiles(u)
  BY <1>1, <1>4, <1>6, SwitchLeftFacts DEF WInv, SwitchOfTui, InFiles, SP!Do
<1>7. \A text : HasEffect(t, text) => HasEffect(u, text)
  BY <1>4 DEF HasEffect
<1>8. block # Missing /\ (t.on => HasEffect(u, block))
  BY <1>3, <1>4, PortFacts, BlockHasBlock, FileFacts DEF HasEffect
<1>9. ASSUME Switching(u) PROVE Switched(k)'
  <2>1. FilesSwitched(t)
    BY <1>4, <1>9 DEF Switching, WInv, SwitchesOK, Switched
  <2>2. \A f \in SP!Files : rc[f] = Missing \/ HasEffect(u, rc[f])
    BY <1>1, <1>7, <2>1 DEF FilesSwitched, Ahead
  <2>3. CASE creates
    <3>1. rc'[Profile] = block /\ \A f \in SP!Files \ {Profile} : rc'[f] = rc[f]
      BY <1>1, <2>3, FileFacts DEF TInv, FilesOK
    <3>2. \A f \in SP!Files : rc'[f] = Missing \/ HasEffect(u, rc'[f])
      BY <1>8, <2>2, <2>3, <3>1
    <3>3. \E f \in SP!Files : rc'[f] # Missing
      BY <1>8, <3>1, FileFacts
    <3> QED
      BY <1>4, <1>5, <1>6, <1>9, <3>2, <3>3 DEF Switched, FilesSwitched, Switching
  <2>4. CASE ~creates
    <3>1. t.on => \E f \in SP!Files : rc[f] # Missing
      BY <2>1, <2>4 DEF FilesSwitched
    <3> QED
      BY <1>1, <1>4, <1>5, <1>6, <1>9, <2>2, <2>4, <3>1
      DEF Switched, FilesSwitched, Switching
  <2> QED
    BY <2>3, <2>4
<1>10. tasks[k] # SP!Idle
  BY <1>1, Busy
<1>11. u.kind \in SwitchKinds => u.left \in SwitchLefts
  BY <1>6
<1> QED
  BY <1>1, <1>4, <1>9, <1>10, <1>11, SameCache, TaskSwitches

LEMMA FilesDoneSwitches ==
  ASSUME PInv, TInv, WInv, NEW k \in Tasks, SP!FilesDone(k)
  PROVE  WInv'
<1>1. CASE SP!PhaseEnds(k, TRUE)
  <2> DEFINE t == tasks[k]
             u == [t EXCEPT !.left = SP!Rest(k, TRUE), !.todo = {}, !.failed = @ \/ TRUE]
  <2>1. SP!Do(k, "files") /\ t.left # <<>> /\ UNCHANGED <<procs, pref>>
    BY DEF SP!FilesDone, SP!Do
  <2>2. tasks' = [tasks EXCEPT ![k] = u]
    BY <1>1 DEF SP!PhaseEnds
  <2>3. u.kind = t.kind /\ u.alone = t.alone /\ u.failed /\ u.left = SP!Rest(k, TRUE)
    BY DEF PInv, ProxyTypes, TaskFields
  <2> HIDE DEF u
  <2>4. u.kind \in SwitchKinds => u.left \in SwitchLefts
    BY <2>3 DEF SP!Rest, SwitchKinds, SwitchLefts
  <2> QED
    BY <2>1, <2>2, <2>3, <2>4, Busy, SameCache, TaskSwitches DEF Switching
<1>2. CASE /\ SP!PhaseEnds(k, FALSE)
           /\ rc' = IF tasks[k].on /\ ~tasks[k].found
                    THEN [rc EXCEPT ![Profile] = SP!Block(tasks[k].port)] ELSE rc
  BY <1>2, FilesDoneWell
<1> QED
  BY <1>1, <1>2 DEF SP!FilesDone

LEMMA EndsSwitches ==
  ASSUME PInv, TInv, WInv
  PROVE  /\ \A k \in Tasks : SP!Finish(k) => WInv'
         /\ \A p \in Processes : SP!SetLanguage(p) \/ SP!EndProcess(p) => WInv'
<1>1. ASSUME NEW k \in Tasks, SP!Finish(k) PROVE WInv'
  <2>1. /\ UNCHANGED <<rc, procs, pref>> /\ tasks'[k] = SP!Idle
        /\ \A j \in Tasks \ {k} : tasks'[j] = tasks[j]
    BY <1>1 DEF SP!Finish, SP!files, PInv, ProxyTypes
  <2> QED
    BY <2>1, SameCache, EndSwitches
<1>2. ASSUME NEW p \in Processes, SP!SetLanguage(p) PROVE WInv'
  <2>1. /\ SP!Saved(p, procs[p].on) /\ procs[p].on \in BOOLEAN
        /\ tasks' = [k \in Tasks |-> [tasks[k] EXCEPT !.alone = @ /\ tasks[k] = SP!Idle]]
    BY <1>2 DEF SP!SetLanguage, PInv, ProxyTypes, ProcessType
  <2>2. CacheIsRight' /\ \A q \in Processes : procs'[q].role = procs[q].role
    BY <2>1, SavedSwitches
  <2>3. ASSUME NEW j \in Tasks
        PROVE  \/ tasks'[j] = SP!Idle
               \/ /\ ~tasks'[j].alone
                  /\ tasks'[j].kind = tasks[j].kind /\ tasks'[j].left = tasks[j].left
    <3>1. CASE tasks[j] = SP!Idle
      <4>1. tasks'[j] = [SP!Idle EXCEPT !.alone = SP!Idle.alone /\ TRUE]
        BY <2>1, <3>1
      <4>2. SP!Idle.alone = TRUE
        BY DEF SP!Idle
      <4>3. tasks'[j] = [SP!Idle EXCEPT !.alone = TRUE]
        BY <4>1, <4>2
      <4> QED
        BY <4>3, NotedAgain
    <3>2. CASE tasks[j] # SP!Idle
      <4>1. tasks'[j] = [tasks[j] EXCEPT !.alone = FALSE]
        BY <2>1, <3>2
      <4>2. DOMAIN tasks[j] = TaskFields
        BY DEF PInv, ProxyTypes
      <4> QED
        BY <4>1, <4>2 DEF TaskFields
    <3> QED
      BY <3>1, <3>2
  <2> QED
    BY <2>2, <2>3, CrowdSwitches
<1>3. ASSUME NEW p \in Processes, SP!EndProcess(p) PROVE WInv'
  <2> DEFINE own == {k \in Tasks : Owner[k] = p}
  <2>1. /\ tasks' = [k \in Tasks |-> IF k \in own THEN SP!Idle ELSE tasks[k]]
        /\ procs' = [procs EXCEPT ![p] = SP!Down]
        /\ UNCHANGED <<rc, pref>>
    BY <1>3 DEF SP!EndProcess, SP!files
  <2>2. /\ procs'[p].role = "down"
        /\ \A q \in Processes \ {p} : procs'[q] = procs[q]
    BY <2>1 DEF PInv, ProxyTypes, SP!Down
  <2>3. CacheIsRight'
    BY <2>1, <2>2, LoadedFacts DEF WInv, CacheIsRight
  <2>4. \A k \in Tasks : \/ tasks'[k] = SP!Idle
                         \/ tasks'[k] = tasks[k] /\ procs'[Owner[k]] = procs[Owner[k]]
    BY <2>1, <2>2, ProxyFacts
  <2> QED
    BY <2>1, <2>3, <2>4, EndSwitches
<1> QED
  BY <1>1, <1>2, <1>3

LEMMA SwitchInvariant == Spec => [](part = "proxy" => WInv)
<1>1. Init => (part = "proxy" => WInv)
  <2> SUFFICES ASSUME SP!Init PROVE WInv
    BY DEF Init
  <2>1. \A k \in Tasks : tasks[k] = SP!Idle
    BY DEF SP!Init
  <2>2. \A p \in Processes : procs[p].role = "down"
    BY DEF SP!Init, SP!Down
  <2>3. SP!Idle.kind \notin SwitchKinds
    BY DEF SP!Idle, SwitchKinds
  <2> QED
    BY <2>1, <2>2, <2>3
    DEF WInv, CacheIsRight, SwitchOfTui, AloneIsAlone, SwitchesOK, Switching
<1>2. /\ part = "proxy" => PInv
      /\ part = "proxy" => TInv
      /\ part = "proxy" => WInv
      /\ [Next]_state
      => (part = "proxy" => WInv)'
  <2> SUFFICES ASSUME PInv, TInv, WInv, part = "proxy", SP!Next PROVE WInv'
    <3>1. CASE UNCHANGED state
      <4>1. WInv => WInv'
        BY <3>1 DEF state, WInv, CacheIsRight, SP!Loaded, SwitchOfTui, AloneIsAlone,
           SwitchesOK, Switched, FilesSwitched
      <4> QED
        BY <3>1, <4>1 DEF state
    <3> QED
      BY <3>1 DEF Next
  <2>1. ASSUME NEW k \in Tasks
        PROVE  /\ SP!ReadFile(k) \/ SP!Truncate(k) \/ SP!Fill(k) => WInv'
               /\ SP!FileFails(k) \/ SP!FilesDone(k) => WInv'
               /\ SP!Session(k) \/ SP!PrefStays(k) \/ SP!Finish(k) => WInv'
    BY ReadFileSwitches, TruncateSwitches, FillSwitches, FileFailsSwitches,
       FilesDoneSwitches, PrefSwitches, EndsSwitches
  <2> QED
    BY <2>1, OperationSwitches, PrefSwitches, EndsSwitches DEF SP!Next
<1> QED
  BY <1>1, <1>2, ProxyInvariant, TextsInvariant, PTL DEF Spec

(* A switch beside which nothing else ran and of which nothing failed has   *)
(* reached every file and the preference, from whatever texts it started    *)
(* and whatever ran, failed or was killed before.                           *)
THEOREM SwitchesTakeEffect == Spec => []SwitchTakesEffect
<1>1. ASSUME TInv, WInv PROVE SP!SwitchTakesEffect
  <2> SUFFICES ASSUME NEW k \in Tasks, tasks[k].kind \in SwitchKinds,
                      tasks[k].left = <<>>, tasks[k].alone, ~tasks[k].failed
               PROVE  LET t == tasks[k]
                          present == {f \in SP!Targets(t.kind) : rc[f] # Missing}
                      IN /\ t.on => /\ present # {}
                                    /\ \A f \in present : SP!HasBlock(rc[f], t.port)
                         /\ ~t.on => \A f \in present, p \in Ports :
                                       ~SP!Broken(rc[f]) => ~SP!HasBlock(rc[f], p)
                         /\ ~procs[Owner[k]].stale => SP!Loaded = {t.on}
    BY DEF SP!SwitchTakesEffect, SwitchKinds
  <2>1. Switched(k) /\ ~InFiles(tasks[k])
    BY <1>1 DEF WInv, SwitchesOK, Switching, InFiles
  <2>2. {f \in SP!Targets(tasks[k].kind) : rc[f] # Missing} = {f \in SP!Files : rc[f] # Missing}
    BY DEF SP!Targets
  <2>3. \A f \in SP!Files : rc[f] = Missing \/ HasEffect(tasks[k], rc[f])
    BY <2>1 DEF Switched, FilesSwitched, Ahead
  <2>4. tasks[k].on => \E f \in SP!Files : rc[f] # Missing
    BY <2>1 DEF Switched, FilesSwitched
  <2>5. ~procs[Owner[k]].stale => SP!Loaded = {tasks[k].on}
    BY <1>1, <2>1, ProxyFacts DEF WInv, CacheIsRight, SwitchOfTui, Switched
  <2> QED
    BY <2>2, <2>3, <2>4, <2>5 DEF HasEffect
<1>2. (part = "proxy" => TInv) /\ (part = "proxy" => WInv) => SwitchTakesEffect
  BY <1>1 DEF SwitchTakesEffect
<1> QED
  BY <1>2, TextsInvariant, SwitchInvariant, PTL
-----------------------------------------------------------------------------
(* The types of every part.  Of SystemProxy they need that a process that   *)
(* is not there has nothing under way and nothing cached.                   *)
DownIsDown ==
  \A p \in Processes : procs[p].role = "down" =>
    procs[p] = SP!Down /\ \A k \in Tasks : Owner[k] = p => tasks[k] = SP!Idle

SettingsOK ==
  /\ pref \in {"missing", "on", "off"} /\ s4 \in BOOLEAN
  /\ s5 \subseteq {"systemd", "dbus"}

YInv == SettingsOK /\ DownIsDown

(* A step within an operation.                                              *)
LEMMA InnerStep ==
  ASSUME DownIsDown, procs' = procs,
         \A j \in Tasks : tasks'[j] = tasks[j] \/ tasks[j] # SP!Idle
  PROVE  DownIsDown'
BY ProxyFacts DEF DownIsDown

LEMMA OnlyOf ==
  ASSUME DOMAIN tasks = Tasks, NEW k \in Tasks, NEW new, tasks' = [tasks EXCEPT ![k] = new]
  PROVE  \A j \in Tasks : j # k => tasks'[j] = tasks[j]
OBVIOUS

(* The steps that begin an operation.                                       *)
LEMMA EnlistTypes ==
  ASSUME PInv, DownIsDown, NEW k \in Tasks, NEW kind, NEW on, NEW withPort,
         SP!Enlist(k, kind, on, withPort) \/ tasks' = tasks,
         tasks' # tasks => procs'[Owner[k]].role # "down",
         DOMAIN procs' = Processes,
         \A p \in Processes : procs'[p].role = "down" => procs'[p] = procs[p]
  PROVE  DownIsDown'
<1>1. ASSUME NEW p \in Processes, procs'[p].role = "down", NEW j \in Tasks, Owner[j] = p
      PROVE  tasks'[j] = SP!Idle
  <2>1. procs[p].role = "down" /\ tasks[j] = SP!Idle
    BY <1>1 DEF DownIsDown
  <2>2. CASE tasks' = tasks
    BY <2>1, <2>2
  <2>3. CASE tasks' # tasks
    <3>1. j # k
      BY <1>1, <2>3
    <3>2. tasks'[j] = [tasks[j] EXCEPT !.alone = TRUE]
      BY <2>1, <2>3, <3>1 DEF SP!Enlist
    <3> QED
      BY <2>1, <3>2, NotedAgain
  <2> QED
    BY <2>2, <2>3
<1> QED
  BY <1>1 DEF DownIsDown

LEMMA StartTypes ==
  ASSUME PInv, YInv, NEW k \in Tasks, NEW role \in {"tui", "cli"}, NEW cached,
         SP!Starts(Owner[k], role, cached), NEW kind, NEW on, NEW withPort,
         SP!Enlist(k, kind, on, withPort) \/ tasks' = tasks,
         UNCHANGED <<pref, s5>>, s4' \in BOOLEAN
  PROVE  YInv'
<1>1. procs \in [Processes -> ProcessType] /\ Owner[k] \in Processes
  BY ProxyFacts DEF PInv, ProxyTypes
<1>2. /\ DOMAIN procs' = Processes /\ procs'[Owner[k]].role = role
      /\ \A p \in Processes \ {Owner[k]} : procs'[p] = procs[p]
  BY <1>1 DEF SP!Starts
<1>3. DownIsDown'
  BY <1>1, <1>2, EnlistTypes DEF YInv
<1> QED
  BY <1>3 DEF YInv, SettingsOK

(* The processes that are there stay there.                                 *)
LEMMA StayTypes ==
  ASSUME PInv, YInv, NEW k \in Tasks, NEW kind, NEW on, NEW withPort,
         SP!Enlist(k, kind, on, withPort),
         procs[Owner[k]].role # "down" \/ procs'[Owner[k]].role # "down",
         DOMAIN procs' = Processes,
         \A p \in Processes : procs'[p] = procs[p] \/ procs'[p].role # "down",
         UNCHANGED <<pref, s5>>, s4' \in BOOLEAN
  PROVE  YInv'
<1>1. Owner[k] \in Processes
  BY ProxyFacts
<1>2. DownIsDown'
  BY <1>1, EnlistTypes DEF YInv
<1> QED
  BY <1>2 DEF YInv, SettingsOK

LEMMA OperationTypes ==
  ASSUME PInv, YInv, NEW k \in Tasks
  PROVE  /\ \A on : SP!Run(k, on) \/ SP!RunMihomoStart(k, on) \/ SP!RunMihomoStop(k, on) => YInv'
         /\ \A on : SP!Toggle(k, on) => YInv'
         /\ SP!StopFromDashboard(k) \/ SP!Cleanup(k) => YInv'
         /\ \A new : SP!ChangePort(k, new) => YInv'
<1>0. procs \in [Processes -> ProcessType] /\ Owner[k] \in Processes
  BY ProxyFacts DEF PInv, ProxyTypes
<1>1. ASSUME NEW on, SP!Run(k, on) PROVE YInv'
  <2>1. SP!Enlist(k, "start", on, s3) \/ tasks' = tasks
    BY <1>1 DEF SP!Run, SP!ReconcileIfUsable
  <2>2. SP!Starts(Owner[k], "tui", on) /\ UNCHANGED <<pref, s5>> /\ s4' \in BOOLEAN
    BY <1>1 DEF SP!Run, SP!files, YInv, SettingsOK
  <2> QED
    BY <2>1, <2>2, StartTypes
<1>2. ASSUME NEW on, SP!RunMihomoStart(k, on) PROVE YInv'
  <2>1. SP!Enlist(k, "start", on, s3) \/ tasks' = tasks
    BY <1>2 DEF SP!RunMihomoStart, SP!ReconcileIfUsable
  <2>2. SP!Starts(Owner[k], "cli", on) /\ UNCHANGED <<pref, s5>> /\ s4' \in BOOLEAN
    BY <1>2 DEF SP!RunMihomoStart, SP!files
  <2> QED
    BY <2>1, <2>2, StartTypes
<1>3. ASSUME NEW on, SP!RunMihomoStop(k, on) PROVE YInv'
  <2>1. SP!Enlist(k, "stop", FALSE, s3)
    BY <1>3 DEF SP!RunMihomoStop, SP!KernelStops
  <2>2. SP!Starts(Owner[k], "cli", on) /\ UNCHANGED <<pref, s5>> /\ s4' \in BOOLEAN
    BY <1>3 DEF SP!RunMihomoStop, SP!KernelStops, SP!files
  <2> QED
    BY <2>1, <2>2, StartTypes
<1>4. ASSUME NEW on, SP!Toggle(k, on) PROVE YInv'
  <2>1. /\ procs[Owner[k]].role # "down" /\ procs' = procs
        /\ UNCHANGED <<pref, s5>> /\ s4' \in BOOLEAN
        /\ \E kind : SP!Enlist(k, kind, on, procs[Owner[k]].port)
    BY <1>4 DEF SP!Toggle, SP!files, YInv, SettingsOK
  <2> QED
    BY <1>0, <2>1, StayTypes
<1>5. ASSUME SP!StopFromDashboard(k) PROVE YInv'
  <2>1. /\ procs[Owner[k]].role # "down" /\ procs' = procs
        /\ UNCHANGED <<pref, s5>> /\ s4' \in BOOLEAN
        /\ SP!Enlist(k, "stop", FALSE, procs[Owner[k]].port)
    BY <1>5 DEF SP!StopFromDashboard, SP!KernelStops, SP!files
  <2> QED
    BY <1>0, <2>1, StayTypes
<1>6. ASSUME SP!Cleanup(k) PROVE YInv'
  <2>1. /\ procs' = [procs EXCEPT ![Owner[k]].role = "cli"]
        /\ UNCHANGED <<pref, s5>> /\ s4' \in BOOLEAN
        /\ SP!Enlist(k, "cleanup", FALSE, s3)
    BY <1>6 DEF SP!Cleanup, SP!files, YInv, SettingsOK
  <2>2. /\ DOMAIN procs' = Processes /\ procs'[Owner[k]].role = "cli"
        /\ \A p \in Processes : procs'[p] = procs[p] \/ procs'[p].role # "down"
    BY <1>0, <2>1 DEF ProcessType
  <2> QED
    BY <2>1, <2>2, StayTypes
<1>7. ASSUME NEW new, SP!ChangePort(k, new) PROVE YInv'
  <2>1. /\ procs[Owner[k]].role = "tui"
        /\ procs' = [procs EXCEPT ![Owner[k]].port = new]
        /\ UNCHANGED <<pref, s5>> /\ s4' \in BOOLEAN
        /\ SP!Enlist(k, "ports", procs[Owner[k]].on, new)
    BY <1>7 DEF SP!ChangePort, SP!files, YInv, SettingsOK
  <2>2. /\ DOMAIN procs' = Processes /\ procs'[Owner[k]].role = "tui"
        /\ \A p \in Processes : procs'[p] = procs[p] \/ procs'[p].role # "down"
    BY <1>0, <2>1 DEF ProcessType
  <2> QED
    BY <2>1, <2>2, StayTypes
<1> QED
  BY <1>1, <1>2, <1>3, <1>4, <1>5, <1>6, <1>7

(* The steps of an operation, of which only the last save a preference.     *)
LEMMA InnerTypes ==
  ASSUME PInv, YInv, procs' = procs, pref' = pref, s4' = s4,
         s5' \subseteq {"systemd", "dbus"},
         NEW k \in Tasks, tasks[k] # SP!Idle,
         \A j \in Tasks : j # k => tasks'[j] = tasks[j]
  PROVE  YInv'
BY InnerStep DEF YInv, SettingsOK

LEMMA BusyFacts ==
  ASSUME NEW k \in Tasks, tasks[k].left # <<>> \/ tasks[k].writing # <<>>
  PROVE  tasks[k] # SP!Idle
BY DEF SP!Idle

LEMMA FileStepTypes ==
  ASSUME PInv, YInv, NEW k \in Tasks
  PROVE  /\ SP!ReadFile(k) \/ SP!Truncate(k) \/ SP!Fill(k) => YInv'
         /\ SP!FileFails(k) \/ SP!FilesDone(k) => YInv'
         /\ SP!Session(k) \/ SP!PrefStays(k) \/ SP!Finish(k) => YInv'
<1>0. DOMAIN tasks = Tasks
  BY DEF PInv, ProxyTypes
<1>1. SP!Do(k, "files") \/ SP!Do(k, "session") \/ SP!Do(k, "pref") => tasks[k] # SP!Idle
  BY BusyFacts DEF SP!Do
<1>2. \A failed : SP!PhaseEnds(k, failed) => \A j \in Tasks : j # k => tasks'[j] = tasks[j]
  BY <1>0 DEF SP!PhaseEnds
<1>3. s5 \subseteq {"systemd", "dbus"}
  BY DEF YInv, SettingsOK
<1>4. ASSUME SP!ReadFile(k) PROVE YInv'
  <2>1. /\ SP!Do(k, "files") /\ UNCHANGED <<procs, pref, s4, s5>>
        /\ \A j \in Tasks : j # k => tasks'[j] = tasks[j]
    BY <1>0, <1>4 DEF SP!ReadFile, SP!files
  <2> QED
    BY <1>1, <1>3, <2>1, InnerTypes
<1>5. ASSUME SP!Truncate(k) PROVE YInv'
  <2>1. /\ tasks[k].writing # <<>> /\ UNCHANGED <<procs, pref, s4, s5>>
        /\ \A j \in Tasks : j # k => tasks'[j] = tasks[j]
    BY <1>0, <1>5 DEF SP!Truncate
  <2> QED
    BY BusyFacts, <1>3, <2>1, InnerTypes
<1>6. ASSUME SP!Fill(k) PROVE YInv'
  <2>1. /\ tasks[k].writing # <<>> /\ UNCHANGED <<procs, pref, s4, s5>>
        /\ \A j \in Tasks : j # k => tasks'[j] = tasks[j]
    BY <1>0, <1>6 DEF SP!Fill
  <2> QED
    BY BusyFacts, <1>3, <2>1, InnerTypes
<1>7. ASSUME SP!FileFails(k) PROVE YInv'
  <2>1. SP!Do(k, "files") /\ UNCHANGED <<procs, pref, s4, s5>>
    BY <1>7 DEF SP!FileFails, SP!files
  <2>2. \A j \in Tasks : j # k => tasks'[j] = tasks[j]
    BY <1>0, <1>2, <1>7 DEF SP!FileFails
  <2> QED
    BY <1>1, <1>3, <2>1, <2>2, InnerTypes
<1>8. ASSUME SP!FilesDone(k) PROVE YInv'
  <2>1. /\ SP!Do(k, "files") /\ UNCHANGED <<procs, pref, s4, s5>>
        /\ SP!PhaseEnds(k, FALSE) \/ SP!PhaseEnds(k, TRUE)
    BY <1>8 DEF SP!FilesDone
  <2> QED
    BY <1>1, <1>2, <1>3, <2>1, InnerTypes
<1>9. ASSUME SP!Session(k) PROVE YInv'
  <2>1. SP!Do(k, "session") /\ UNCHANGED <<procs, pref, s4>> /\ SP!PhaseEnds(k, FALSE)
    BY <1>9 DEF SP!Session
  <2>2. s5' \subseteq {"systemd", "dbus"}
    BY <1>3, <1>9 DEF SP!Session
  <2> QED
    BY <1>1, <1>2, <2>1, <2>2, InnerTypes
<1>10. ASSUME SP!PrefStays(k) PROVE YInv'
  <2>1. SP!Do(k, "pref") /\ UNCHANGED <<procs, pref, s4, s5>>
    BY <1>10 DEF SP!PrefStays, SP!files
  <2>2. \A j \in Tasks : j # k => tasks'[j] = tasks[j]
    BY <1>0, <1>2, <1>10 DEF SP!PrefStays
  <2> QED
    BY <1>1, <1>3, <2>1, <2>2, InnerTypes
<1>11. ASSUME SP!Finish(k) PROVE YInv'
  <2>1. /\ tasks[k] # SP!Idle /\ UNCHANGED <<procs, pref, s4, s5>>
        /\ \A j \in Tasks : j # k => tasks'[j] = tasks[j]
    BY <1>0, <1>11 DEF SP!Finish, SP!files
  <2> QED
    BY <1>3, <2>1, InnerTypes
<1> QED
  BY <1>4, <1>5, <1>6, <1>7, <1>8, <1>9, <1>10, <1>11

(* A preference is saved by a process that is there; what the others then   *)
(* note does not concern one that is not.                                   *)
LEMMA SavedTypes ==
  ASSUME PInv, DownIsDown, NEW p \in Processes, procs[p].role # "down", NEW on,
         SP!Saved(p, on)
  PROVE  /\ pref' \in {"on", "off"}
         /\ \A q \in Processes : procs'[q].role = procs[q].role
         /\ \A q \in Processes : procs'[q].role = "down" => procs'[q] = procs[q]
<1>1. procs \in [Processes -> ProcessType]
  BY DEF PInv, ProxyTypes
<1>2. ASSUME NEW q \in Processes PROVE procs'[q].role = procs[q].role
  BY <1>1 DEF SP!Saved, ProcessType
<1>3. ASSUME NEW q \in Processes, procs'[q].role = "down" PROVE procs'[q] = procs[q]
  <2>1. procs[q] = SP!Down /\ q # p
    BY <1>2, <1>3 DEF DownIsDown
  <2>2. procs'[q] = [procs[q] EXCEPT !.stale = FALSE]
    BY <1>2, <1>3, <2>1 DEF SP!Saved
  <2> QED
    BY <2>1, <2>2, NotedAgain
<1>4. pref' \in {"on", "off"}
  BY DEF SP!Saved
<1> QED
  BY <1>2, <1>3, <1>4

LEMMA SavePrefTypes ==
  ASSUME PInv, YInv, NEW k \in Tasks, NEW saved, SP!SavePref(k, saved)
  PROVE  YInv'
<1>1. procs \in [Processes -> ProcessType] /\ Owner[k] \in Processes /\ DOMAIN tasks = Tasks
  BY ProxyFacts DEF PInv, ProxyTypes
<1>2. tasks[k] # SP!Idle /\ UNCHANGED <<s4, s5>>
  BY BusyFacts DEF SP!SavePref, SP!Do, SP!files
<1>3. procs[Owner[k]].role # "down"
  BY <1>1, <1>2 DEF YInv, DownIsDown
<1>4. \A j \in Tasks : j # k => tasks'[j] = tasks[j]
  BY <1>1 DEF SP!SavePref, SP!PhaseEnds
<1>5. /\ pref' \in {"missing", "on", "off"}
      /\ \A q \in Processes : procs'[q].role = procs[q].role
      /\ \A q \in Processes : procs'[q].role = "down" => procs'[q] = procs[q]
  <2>1. CASE SP!Saved(Owner[k], tasks[k].on)
    BY <1>1, <1>3, <2>1, SavedTypes DEF YInv
  <2>2. CASE /\ pref' = pref
             /\ procs' = [procs EXCEPT ![Owner[k]].on = tasks[k].on, ![Owner[k]].stale = TRUE]
    BY <1>1, <1>3, <2>2 DEF YInv, SettingsOK, ProcessType
  <2> QED
    BY <2>1, <2>2 DEF SP!SavePref
<1>6. DownIsDown'
  BY <1>1, <1>3, <1>4, <1>5 DEF YInv, DownIsDown
<1> QED
  BY <1>2, <1>5, <1>6 DEF YInv, SettingsOK

LEMMA ProcessTypes ==
  ASSUME PInv, YInv, NEW p \in Processes, SP!SetLanguage(p) \/ SP!EndProcess(p)
  PROVE  YInv'
<1>0. procs \in [Processes -> ProcessType] /\ DOMAIN tasks = Tasks
  BY DEF PInv, ProxyTypes
<1>1. CASE SP!SetLanguage(p)
  <2>1. /\ procs[p].role # "down" /\ SP!Saved(p, procs[p].on) /\ UNCHANGED <<s4, s5>>
        /\ tasks' = [k \in Tasks |-> [tasks[k] EXCEPT !.alone = @ /\ tasks[k] = SP!Idle]]
    BY <1>1 DEF SP!SetLanguage, SP!files
  <2>2. /\ pref' \in {"on", "off"}
        /\ \A q \in Processes : procs'[q].role = procs[q].role
        /\ \A q \in Processes : procs'[q].role = "down" => procs'[q] = procs[q]
    BY <2>1, SavedTypes DEF YInv
  <2>3. ASSUME NEW k \in Tasks, tasks[k] = SP!Idle PROVE tasks'[k] = SP!Idle
    <3>1. tasks'[k] = [tasks[k] EXCEPT !.alone = tasks[k].alone /\ tasks[k] = SP!Idle]
      BY <2>1
    <3>2. SP!Idle.alone = TRUE
      BY DEF SP!Idle
    <3> QED
      BY <2>3, <3>1, <3>2, NotedAgain
  <2>4. DownIsDown'
    BY <2>2, <2>3 DEF YInv, DownIsDown
  <2> QED
    BY <2>1, <2>2, <2>4 DEF YInv, SettingsOK
<1>2. CASE SP!EndProcess(p)
  <2>1. /\ UNCHANGED <<pref, s4, s5>> /\ procs' = [procs EXCEPT ![p] = SP!Down]
        /\ tasks' = [k \in Tasks |-> IF Owner[k] = p THEN SP!Idle ELSE tasks[k]]
    BY <1>2 DEF SP!EndProcess, SP!files
  <2>2. DownIsDown'
    BY <1>0, <2>1, ProxyFacts DEF YInv, DownIsDown
  <2> QED
    BY <2>1, <2>2 DEF YInv, SettingsOK
<1> QED
  BY <1>1, <1>2

LEMMA ProxyTyped == Spec => [](part = "proxy" => YInv)
<1>1. Init => (part = "proxy" => YInv)
  BY DEF Init, SP!Init, YInv, SettingsOK, DownIsDown
<1>2. /\ part = "proxy" => PInv
      /\ part = "proxy" => YInv
      /\ [Next]_state
      => (part = "proxy" => YInv)'
  <2> SUFFICES ASSUME PInv, YInv, part = "proxy", SP!Next PROVE YInv'
    <3>1. CASE UNCHANGED state
      BY <3>1 DEF state, YInv, SettingsOK, DownIsDown
    <3> QED
      BY <3>1 DEF Next
  <2> QED
    BY OperationTypes, FileStepTypes, SavePrefTypes, ProcessTypes DEF SP!Next
<1> QED
  BY <1>1, <1>2, ProxyInvariant, PTL DEF Spec
=============================================================================
