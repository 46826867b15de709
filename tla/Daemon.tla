-------------------------------- MODULE Daemon --------------------------------
(***************************************************************************)
(* Daemons, the names of their sockets, and the TUIs of one user that find *)
(* a daemon or start one of their own (daemon.go, socket_path.go,          *)
(* ipc_auth.go, ipc_client.go, ui/app.go, cmd/cmd.go).                     *)
(*                                                                         *)
(* A daemon unlinks the name of its socket before it binds, and unlinks it *)
(* again when it is shut down: whatever that name leads to by then. A      *)
(* daemon that has lost its name still serves the connections it has, and  *)
(* a client keeps connections open between requests.                       *)
(***************************************************************************)
EXTENDS Naturals, FiniteSets

CONSTANTS Tuis,
          Child,     \* the embedded daemon of a TUI started with --standalone
          ByHand,    \* daemons started with `mihomo-tui server`
          Service,   \* the root daemon, started by systemd
          None,
          MaxStarts, \* bound: starts by hand and of the service
          MaxFaults  \* bound: daemons that die, TUIs killed or out of time

Daemons == ByHand \cup {Service} \cup {Child[t] : t \in Tuis}

Assumptions ==
  /\ \A t, u \in Tuis : Child[t] = Child[u] => t = u
  /\ \A t \in Tuis : Child[t] \notin ByHand \cup {Service}
  /\ None \notin Daemons
  /\ {MaxStarts, MaxFaults} \subseteq Nat

VARIABLES
  user,    \* who the user is: root, or a member of which groups
  phase,   \* of each daemon
  socket,  \* per name: the daemon that bound it, perhaps long dead
  tui,     \* per TUI: where it is, embeddedDaemonStarted, its client
  starts, faults,
  calm,    \* history: no start crossed another, no daemon was killed
  wronged  \* history: daemons shut down by a TUI that had not started them

vars == <<user, phase, socket, tui, starts, faults, calm, wronged>>

Alive(d) == phase[d] # "off"
Listening(d) == phase[d] \in {"bound", "serving", "asked"}
Answering(d) == phase[d] \in {"serving", "asked"}

(* daemonSocketPath: by the effective user.                                 *)
Path(d) == IF d = Service \/ user = "root" THEN "root" ELSE "user"

Init ==
  /\ user \in {"root", "operator", "reader", "stranger"}
  /\ phase = [d \in Daemons |-> "off"]
  /\ socket = [p \in {"root", "user"} |-> None]
  /\ tui = [t \in Tuis |-> [at |-> "off", mine |-> FALSE, sock |-> "user",
                            pool |-> {}, saw |-> {}]]
  /\ starts = 0
  /\ faults = 0
  /\ calm = TRUE
  /\ wronged = {}

Fault == faults < MaxFaults /\ faults' = faults + 1
-----------------------------------------------------------------------------
(* ipc_auth.go. Everybody is the owner of a daemon of his own.              *)
Role(d) ==
  IF d # Service \/ user = "root" THEN "admin"
  ELSE CASE user = "operator" -> "operator"
         [] user = "reader"   -> "readonly"
         [] OTHER             -> "denied"

(* middleware: the seven status queries, what isIPCRootOnlyRequest lists,   *)
(* and the rest.                                                            *)
Allowed(role, request) ==
  \/ role = "admin"
  \/ role = "operator" /\ request # "root only"
  \/ role = "readonly" /\ request = "status"

(* What a client meets at a name. The socket directory of the service is    *)
(* root's until it is configured, and its socket until its mode is set.     *)
Dial(path) ==
  LET d == socket[path] IN
  IF path = "root" /\ user # "root" /\ Alive(Service)
     /\ (user = "stranger" \/ phase[Service] \in {"starting", "bound"})
  THEN "denied"
  ELSE IF d # None /\ Listening(d) THEN "open" ELSE "refused"

(* clientSocketPathWithError                                                *)
ClientPath == IF Dial("root") = "refused" THEN "user" ELSE "root"

(* IPCProbeDaemon: an answer, or why there is none. A daemon that is bound  *)
(* and not yet serving keeps the client waiting.                            *)
Probe(result) ==
  IF Dial(ClientPath) = "open"
  THEN Answering(socket[ClientPath]) /\ result = "ok"
  ELSE result = Dial(ClientPath)
-----------------------------------------------------------------------------
(* A start, by hand or by systemd, asks nobody. It leaves the others alone  *)
(* unless it meets a daemon of its name, or a TUI on its way to one.        *)
RunServer(d) ==
  /\ d \in ByHand \cup {Service}
  /\ phase[d] = "off"
  /\ starts < MaxStarts
  /\ starts' = starts + 1
  /\ phase' = [phase EXCEPT ![d] = "starting"]
  /\ calm' = (calm /\ (\A e \in Daemons \ {d} : Alive(e) => Path(e) # Path(d))
                   /\ \A t \in Tuis : tui[t].at \in {"off", "running", "left", "gone"})
  /\ UNCHANGED <<user, socket, tui, faults, wronged>>

(* The old name is removed. A start that cannot do that ends (Die), whoever *)
(* answers there (daemon.go:138-146).                                       *)
RemoveSocket(d) ==
  /\ phase[d] = "starting"
  /\ phase' = [phase EXCEPT ![d] = "clear"]
  /\ socket' = [socket EXCEPT ![Path(d)] = None]
  /\ UNCHANGED <<user, tui, starts, faults, calm, wronged>>

Listen(d) ==
  /\ phase[d] = "clear"
  /\ IF socket[Path(d)] = None
     THEN /\ socket' = [socket EXCEPT ![Path(d)] = d]
          /\ phase' = [phase EXCEPT ![d] = "bound"]
     ELSE /\ phase' = [phase EXCEPT ![d] = "off"]
          /\ UNCHANGED socket
  /\ UNCHANGED <<user, tui, starts, faults, calm, wronged>>

Serve(d) ==
  /\ phase[d] = "bound"
  /\ phase' = [phase EXCEPT ![d] = "serving"]
  /\ UNCHANGED <<user, socket, tui, starts, faults, calm, wronged>>

(* 100 ms after the answer to a shutdown, Stop: closing the listener        *)
(* unlinks the name.                                                        *)
Stop(d) ==
  /\ phase[d] = "asked"
  /\ phase' = [phase EXCEPT ![d] = "off"]
  /\ socket' = [socket EXCEPT ![Path(d)] = None]
  /\ UNCHANGED <<user, tui, starts, faults, calm, wronged>>

(* A signal, a crash, or a start that fails. The name stays, except that of *)
(* the service, whose directory systemd removes.                            *)
Die(d) ==
  /\ Alive(d)
  /\ Fault
  /\ phase' = [phase EXCEPT ![d] = "off"]
  /\ socket' = IF d = Service THEN [socket EXCEPT !["root"] = None] ELSE socket
  /\ calm' = FALSE
  /\ UNCHANGED <<user, tui, starts, wronged>>
-----------------------------------------------------------------------------
Move(t, place) == tui' = [tui EXCEPT ![t].at = place]

Reachable(p) == {d \in Daemons : socket[p] = d /\ Answering(d)}

(* ensureDaemon: somebody answers, or may not be asked, or there is nobody. *)
EnsureDaemon_AsksNobody(t, standalone) ==
  /\ tui[t].at = "off"
  /\ \E result \in {"ok", "denied", "refused"} :
       /\ Probe(result)
       /\ tui' = [tui EXCEPT
            ![t].at = CASE result = "ok" /\ ~standalone -> "sync"
                        [] result # "denied" /\ standalone -> "launch"
                        [] OTHER -> "gone",
            ![t].saw = Reachable(ClientPath)]
  /\ UNCHANGED <<user, phase, socket, starts, faults, calm, wronged>>

EnsureDaemon(t, standalone) ==
  /\ tui[t].at = "off"
  /\ \E result \in {"ok", "denied", "refused"} :
       /\ Probe(result)
       /\ tui' = [tui EXCEPT
            ![t].at = CASE result = "ok" -> "sync"
                        [] result = "refused" /\ standalone -> "launch"
                        [] OTHER -> "gone",
            ![t].saw = Reachable(ClientPath)]
  /\ UNCHANGED <<user, phase, socket, starts, faults, calm, wronged>>

(* cmd.Start. It crosses a daemon of the same name, or of the name that     *)
(* clients try first, that did not answer when the TUI asked.               *)
Launch(t) ==
  /\ tui[t].at = "launch"
  /\ Move(t, "wait")
  /\ phase' = [phase EXCEPT ![Child[t]] = "starting"]
  /\ calm' = (calm /\ \A e \in Daemons \ tui[t].saw :
                        Alive(e) => Path(e) \notin {"root", Path(Child[t])})
  /\ UNCHANGED <<user, socket, starts, faults, wronged>>

(* IPCWaitForDaemon: whoever answers is taken for the child.                *)
Ready_NotMine(t) ==
  /\ tui[t].at = "wait"
  /\ Probe("ok")
  /\ Move(t, "sync")
  /\ UNCHANGED <<user, phase, socket, starts, faults, calm, wronged>>

Ready(t) ==
  /\ tui[t].at = "wait"
  /\ Probe("ok")
  /\ tui' = [tui EXCEPT ![t].at = "sync", ![t].mine = TRUE]
  /\ UNCHANGED <<user, phase, socket, starts, faults, calm, wronged>>

(* After five seconds the TUI gives up; the child goes on.                  *)
OutOfTime(t) ==
  /\ tui[t].at = "wait"
  /\ Fault
  /\ Move(t, "gone")
  /\ UNCHANGED <<user, phase, socket, starts, calm, wronged>>

(* syncConfig makes the client, whose name is chosen once, and asks for the *)
(* configuration, which a reader may not have.                              *)
Sync(t) ==
  /\ tui[t].at = "sync"
  /\ \E result \in {"ok", "denied", "refused"} :
       /\ Probe(result)
       /\ LET d == socket[ClientPath] IN
          IF result = "ok" /\ Allowed(Role(d), "config")
          THEN tui' = [tui EXCEPT ![t].at = "running", ![t].sock = ClientPath,
                                  ![t].pool = {d}]
          ELSE Move(t, "gone")
  /\ UNCHANGED <<user, phase, socket, starts, faults, calm, wronged>>

(* Two requests at once: the second opens a connection of its own, to the   *)
(* daemon that has the name now.                                            *)
Connect(t) ==
  /\ tui[t].at = "running"
  /\ \E d \in Reachable(tui[t].sock) :
       tui' = [tui EXCEPT ![t].pool = {c \in @ : Answering(c)} \cup {d}]
  /\ UNCHANGED <<user, phase, socket, starts, faults, calm, wronged>>

(* The end of Run: the daemon that the client reaches, on a connection it   *)
(* keeps or on a new one, is shut down, if this TUI has started one.        *)
Quit(t) ==
  /\ tui[t].at = "running"
  /\ Move(t, "left")
  /\ LET open == {d \in tui[t].pool : Answering(d)}
         targets == {d \in IF open = {} THEN Reachable(tui[t].sock) ELSE open :
                       Allowed(Role(d), "root only")}
     IN IF tui[t].mine /\ targets # {}
        THEN \E d \in targets :
               /\ phase' = [phase EXCEPT ![d] = "asked"]
               /\ wronged' = IF d = Child[t] THEN wronged ELSE wronged \cup {d}
        ELSE UNCHANGED <<phase, wronged>>
  /\ UNCHANGED <<user, socket, starts, faults, calm>>

(* Killed, or the two seconds that a signal leaves it are over.             *)
Killed(t) ==
  /\ tui[t].at \in {"launch", "wait", "sync", "running"}
  /\ Fault
  /\ Move(t, "gone")
  /\ UNCHANGED <<user, phase, socket, starts, calm, wronged>>

Next ==
  \/ \E d \in Daemons : RunServer(d) \/ RemoveSocket(d) \/ Listen(d) \/ Serve(d) \/ Stop(d) \/ Die(d)
  \/ \E t \in Tuis, standalone \in BOOLEAN : EnsureDaemon(t, standalone)
  \/ \E t \in Tuis : Launch(t) \/ Ready(t) \/ OutOfTime(t) \/ Sync(t) \/ Connect(t) \/ Quit(t) \/ Killed(t)

Spec == Init /\ [][Next]_vars
-----------------------------------------------------------------------------
TypeOK ==
  /\ user \in {"root", "operator", "reader", "stranger"}
  /\ phase \in [Daemons -> {"off", "starting", "clear", "bound", "serving", "asked"}]
  /\ socket \in [{"root", "user"} -> Daemons \cup {None}]
  /\ \A t \in Tuis : tui[t].at \in {"off", "launch", "wait", "sync", "running",
                                    "left", "gone"}
  /\ calm \in BOOLEAN /\ wronged \subseteq Daemons

(* A TUI that ends shuts down no daemon but the one it has started, as long *)
(* as no start crossed another: none by hand or by systemd beside a daemon  *)
(* of the same name or a TUI that was starting, none of a TUI beside a      *)
(* daemon that did not answer yet when the TUI asked, and none was killed.  *)
QuitSparesOthers == calm => wronged = {}

(* Then, too, a TUI that ends in order takes the daemon that it has started *)
(* with it: that is gone, or has been asked to go. Only one that ends in    *)
(* order: a TUI that waited for its daemon in vain, could not synchronise,  *)
(* or was killed (OutOfTime, Sync, Killed: at = "gone") leaves it running.  *)
QuitEndsItsDaemon ==
  \A t \in Tuis : calm /\ tui[t].at = "left" => phase[Child[t]] \in {"off", "asked"}
=============================================================================
