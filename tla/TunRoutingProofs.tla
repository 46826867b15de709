--------------------------- MODULE TunRoutingProofs ---------------------------
(***************************************************************************)
(* Proofs about TunRouting, for any number of processes and gateways, any  *)
(* firewall commands at first, and every bound.                            *)
(***************************************************************************)
EXTENDS TunRouting, TLAPS

(* The steps of a setup that build, and those of the cleanup, which a setup *)
(* passes through as well.                                                  *)
BuildSteps == {"slots", "prepare", "route", "rules", "protect", "verify", "activate"}

CleanSteps == {"policy", "firewall", "forget"}

(* The bounded counters count. *)
BoundsType == bounds \in [faults : Nat, crashes : Nat, changes : Nat, installs : Nat]

(* What procs may hold for a process. *)
Calls == [op : {"idle", "setup", "restore"},
          at : {"idle", "detect", "policy", "firewall", "forget", "slots",
                "prepare", "route", "rules", "protect", "verify", "activate",
                "ok", "error"},
          backend : Tools \cup {None}, gw : Gateways \cup {None},
          failed : BOOLEAN, after : {"idle", "ok", "error", "slots"}]

(* Whoever is at work holds the lock. *)
LockHeld == \A p \in Procs : procs[p] # Idle => lock = p

(* What a call at some step is: which operation it belongs to, where its    *)
(* cleanup continues, and what it has found out at its beginning.           *)
CallShape(p) ==
  LET c == procs[p] IN
  /\ c.at = "idle" => c = Idle
  /\ c.at # "idle" => c.op \in {"setup", "restore"}
  /\ c.at \in BuildSteps => c.op = "setup"
  /\ c.at \in CleanSteps =>
       c.after \in IF c.op = "setup" THEN {"slots", "error"} ELSE {"ok"}
  /\ c.at \in BuildSteps \cup CleanSteps => c.backend \in Tools
  /\ c.at \in BuildSteps \/ (c.at \in CleanSteps /\ c.after = "slots") =>
       c.gw \in Gateways

(* A setup that has not used its install marker yet finds one left, and one *)
(* that builds has used it.                                                 *)
MarkerLeft(p) ==
  LET c == procs[p] IN
  /\ c.op = "setup" /\ (\/ c.at \in {"detect", "slots", "prepare"}
                        \/ c.at \in CleanSteps /\ c.after = "slots")
       => setups < MaxSetups
  /\ c.at \in {"route", "rules", "protect", "verify", "activate"} => setups \in Ids

(* The state file during a setup, and after a cleanup. *)
FileFollows(p) ==
  LET c == procs[p] IN
  /\ c.at \in {"slots", "prepare"} => file = None
  /\ c.at \in {"route", "rules", "protect", "verify", "activate"} =>
       file = [phase |-> "preparing", id |-> setups, gw |-> c.gw, backend |-> c.backend]
  /\ c.op = "restore" /\ c.at = "ok" => file = None

(* The objects that a setup has put in place so far are there. *)
InPlace(p) ==
  LET c == procs[p] IN
  c.op = "setup" =>
    /\ c.at \in {"rules", "protect", "verify", "activate", "ok"} => Route(c.gw) \in sys
    /\ c.at \in {"protect", "verify", "activate", "ok"} => Rules \in sys
    /\ c.at \in {"verify", "activate", "ok"} => Firewall(c.backend, setups) \in sys

CallInv(p) == CallShape(p) /\ MarkerLeft(p) /\ FileFollows(p) /\ InPlace(p)

(* The inductive invariant behind the types and the success of a setup. *)
IInv == TypeOK /\ BoundsType /\ LockHeld /\ \A p \in Procs : CallInv(p)

(* As long as the firewall commands stay the same, everybody uses the same. *)
SameCommand ==
  SameTools =>
    /\ file # None => file.backend = Backend
    /\ \A p \in Procs : procs[p].backend # None => procs[p].backend = Backend

(* What a cleanup in which nothing has failed has removed so far. *)
CleanedSoFar(p) ==
  SameTools /\ ~procs[p].failed =>
    /\ procs[p].at = "firewall" => \A o \in Ours : o.kind \notin {"route", "rules"}
    /\ procs[p].at = "forget" => Ours = {}

(* The inductive invariant behind the state file. *)
LInv ==
  IInv /\ LeftoversAreKnown /\ SameCommand /\ \A p \in Procs : CleanedSoFar(p)
-----------------------------------------------------------------------------
(* While p is at work nobody else is. *)
LEMMA Exclusive ==
  ASSUME LockHeld, NEW p \in Procs, NEW q \in Procs, q # p, procs[p] # Idle
  PROVE  procs[q] = Idle
  BY DEF LockHeld

(* Nothing is claimed of a process that is not at work. *)
LEMMA IdleCall ==
  ASSUME NEW p \in Procs, procs[p] = Idle
  PROVE  CallInv(p)
  BY DEF CallInv, CallShape, MarkerLeft, FileFollows, InPlace, Idle, BuildSteps, CleanSteps

(* A process that has begun or goes on is at work. *)
LEMMA AtWork ==
  ASSUME NEW p \in Procs, Work(p)
  PROVE  procs[p] # Idle
<1> USE DEF Idle
<1>1. CASE Setup(p)
  BY <1>1 DEF Setup, Preflight, CheckSlots, Prepare, AddRoute, AddRules, AddFirewall,
              Verify, Activate, Step, Refused, RolledBack
<1>2. CASE Cleanup(p)
  BY <1>2 DEF Cleanup, BeginRestore, DeletePolicy, DeleteFirewall, Forget, Step
<1>3. CASE Return(p)
  BY <1>3 DEF Return
<1> QED
  BY <1>1, <1>2, <1>3 DEF Work

(* What a step of the process that holds the lock leaves to be shown. *)
LEMMA HolderStep ==
  ASSUME LockHeld, NEW p \in Procs, procs[p] # Idle, NEW c,
         procs \in [Procs -> {procs[q] : q \in Procs}],
         procs' = [procs EXCEPT ![p] = c], lock' = lock, CallInv(p)'
  PROVE  LockHeld' /\ \A q \in Procs : CallInv(q)'
<1>1. \A q \in Procs : q # p => procs'[q] = Idle
  BY Exclusive
<1>2. LockHeld'
  BY <1>1 DEF LockHeld
<1>3. ASSUME NEW q \in Procs PROVE CallInv(q)'
  <2>1. CASE q # p
    BY <1>1, <2>1 DEF CallInv, CallShape, MarkerLeft, FileFollows, InPlace, Idle,
                      BuildSteps, CleanSteps
  <2> QED
    BY <2>1
<1> QED
  BY <1>2, <1>3

(* The steps of a cleanup. *)
LEMMA CleanupStep ==
  ASSUME IInv, NEW p \in Procs, Cleanup(p)
  PROVE  IInv'
<1> USE TunAssumption DEF IInv, TypeOK, BoundsType, twins, Prune
<1>0. procs[p] # Idle
  BY AtWork DEF Work
<1>a. CallInv(p)
  OBVIOUS
<1>1. CASE BeginRestore(p)
  <2>0. Backend \in Tools \cup {None}
    BY DEF Backend, Tools
  <2>1. TypeOK' /\ BoundsType'
    <3>1. CASE procs' = [procs EXCEPT ![p].at = "error"]
      <4>1. procs' \in [Procs -> Calls]
        BY <3>1 DEF Calls
      <4> QED
        BY <1>1, <4>1 DEF BeginRestore, Env, Calls
    <3>2. CASE procs' = [procs EXCEPT ![p].at = "policy", ![p].backend = Backend,
                                      ![p].after = "ok"]
      <4>0. procs[p] \in Calls
        BY DEF Calls
      <4>1. [procs[p] EXCEPT !.at = "policy", !.backend = Backend, !.after = "ok"] \in Calls
        BY <2>0, <4>0 DEF Calls
      <4>2. procs' \in [Procs -> Calls]
        BY <3>2, <4>1 DEF Calls
      <4> QED
        BY <1>1, <4>2 DEF BeginRestore, Env, Calls
    <3> QED
      BY <1>1, <3>1, <3>2 DEF BeginRestore
  <2>2. CallInv(p)'
    BY <1>1, <1>a DEF BeginRestore, Env, Backend, Tools, CallInv, CallShape, MarkerLeft, FileFollows,
       InPlace, BuildSteps, CleanSteps
  <2> QED
    BY <1>0, <1>1, <2>1, <2>2, HolderStep DEF BeginRestore, Env
<1>2. CASE DeletePolicy(p)
  <2>1. TypeOK' /\ BoundsType'
    BY <1>2 DEF DeletePolicy, Env, Step, Fault, Counts
  <2>2. CallInv(p)'
    BY <1>2, <1>a DEF DeletePolicy, Env, Step, Fault, Counts, CallInv, CallShape, MarkerLeft, FileFollows,
       InPlace, BuildSteps, CleanSteps
  <2> QED
    BY <1>0, <1>2, <2>1, <2>2, HolderStep DEF DeletePolicy, Env, Step
<1>3. CASE DeleteFirewall(p)
  <2>1. TypeOK' /\ BoundsType'
    BY <1>3 DEF DeleteFirewall, Env, Step, Fault, Counts
  <2>2. CallInv(p)'
    BY <1>3, <1>a DEF DeleteFirewall, Env, Step, Fault, Counts, CallInv, CallShape, MarkerLeft, FileFollows,
       InPlace, BuildSteps, CleanSteps
  <2> QED
    BY <1>0, <1>3, <2>1, <2>2, HolderStep DEF DeleteFirewall, Env, Step
<1>4. CASE Forget(p)
  <2>0. procs[p] \in Calls
    BY DEF Calls
  <2>a. procs' \in [Procs -> Calls]
    BY <1>4, <2>0 DEF Forget, Calls
  <2>b. bounds' = bounds \/ bounds' = [bounds EXCEPT !["faults"] = @ + 1]
    BY <1>4 DEF Forget, Fault, Counts
  <2>c. BoundsType'
    BY <2>b
  <2>d. UNCHANGED <<sys, twins, gateway, tools, lock, setups>> /\ (file' = None \/ file' = file)
    BY <1>4 DEF Forget, Env
  <2>1. TypeOK' /\ BoundsType'
    BY <2>a, <2>c, <2>d DEF Calls
  <2>2. CallInv(p)'
    BY <1>4, <1>a DEF Forget, Env, Step, Fault, Counts, CallInv, CallShape, MarkerLeft, FileFollows,
       InPlace, BuildSteps, CleanSteps
  <2> QED
    BY <1>0, <1>4, <2>1, <2>2, HolderStep DEF Forget, Env, Step
<1> QED
  BY <1>1, <1>2, <1>3, <1>4 DEF Cleanup

(* The steps of a setup. *)
LEMMA SetupStep ==
  ASSUME IInv, NEW p \in Procs, Setup(p)
  PROVE  IInv'
<1> USE TunAssumption DEF IInv, TypeOK, BoundsType, Files, twins, Prune
<1>0. procs[p] # Idle
  BY AtWork DEF Work
<1>a. CallInv(p)
  OBVIOUS
<1>1. CASE Preflight(p)
  <2>0. Backend \in Tools \cup {None}
    BY DEF Backend, Tools
  <2>1. TypeOK' /\ BoundsType'
    <3>1. CASE procs' = [procs EXCEPT ![p].at = "error"]
      BY <1>1, <3>1 DEF Preflight, Env
    <3>2. CASE procs' = [procs EXCEPT ![p].at = "policy", ![p].backend = Backend,
                                      ![p].gw = gateway, ![p].after = "slots"]
      BY <1>1, <2>0, <3>2 DEF Preflight, Env
    <3> QED
      BY <1>1, <3>1, <3>2 DEF Preflight
  <2>2. CallInv(p)'
    BY <1>1, <2>0, <1>a DEF Preflight, Env, HasGateway, CallInv, CallShape, MarkerLeft, FileFollows,
       InPlace, BuildSteps, CleanSteps
  <2> QED
    BY <1>0, <1>1, <2>1, <2>2, HolderStep DEF Preflight, Env, Step, Refused, RolledBack
<1>2. CASE CheckSlots(p)
  <2>1. TypeOK' /\ BoundsType'
    BY <1>2, <1>a DEF CheckSlots, Env, Step, Refused
  <2>2. CallInv(p)'
    BY <1>2, <1>a DEF CheckSlots, Env, Step, Refused, CallInv, CallShape, MarkerLeft, FileFollows,
       InPlace, BuildSteps, CleanSteps
  <2> QED
    BY <1>0, <1>2, <2>1, <2>2, HolderStep DEF CheckSlots, Env, Step, Refused, RolledBack
<1>3. CASE Prepare(p)
  <2>a. setups' \in Ids
    BY <1>3, <1>a DEF Prepare, Step, Refused, Ids, CallInv, CallShape, MarkerLeft, BuildSteps
  <2>b. procs[p].gw \in Gateways /\ procs[p].backend \in Tools
    BY <1>3, <1>a DEF Prepare, Step, Refused, CallInv, CallShape, BuildSteps
  <2>c. file' \in {None} \cup Files
    BY <1>3, <2>a, <2>b DEF Prepare, State
  <2>d. /\ UNCHANGED <<sys, twins, gateway, tools, lock>> /\ BoundsType'
        /\ \E at \in {"route", "error"} : procs' = [procs EXCEPT ![p].at = at]
    BY <1>3 DEF Prepare, Step, Refused, Fault, Counts
  <2>1. TypeOK' /\ BoundsType'
    BY <2>a, <2>c, <2>d DEF Ids
  <2>2. CallInv(p)'
    BY <1>3, <1>a DEF Prepare, Env, Step, Refused, Fault, Counts, State, Ids, CallInv, CallShape, MarkerLeft, FileFollows,
       InPlace, BuildSteps, CleanSteps
  <2> QED
    BY <1>0, <1>3, <2>1, <2>2, HolderStep DEF Prepare, Env, Step, Refused, RolledBack
<1>4. CASE AddRoute(p)
  <2>1. TypeOK' /\ BoundsType'
    BY <1>4, <1>a DEF AddRoute, Env, Step, RolledBack, Fault, Counts, CallInv, CallShape, BuildSteps, Route
  <2>2. CallInv(p)'
    BY <1>4, <1>a DEF AddRoute, Env, Step, RolledBack, Fault, Counts, CallInv, CallShape, MarkerLeft, FileFollows,
       InPlace, BuildSteps, CleanSteps
  <2> QED
    BY <1>0, <1>4, <2>1, <2>2, HolderStep DEF AddRoute, Env, Step, Refused, RolledBack
<1>5. CASE AddRules(p)
  <2>1. TypeOK' /\ BoundsType'
    BY <1>5, <1>a DEF AddRules, Env, Step, RolledBack, Fault, Counts
  <2>2. CallInv(p)'
    BY <1>5, <1>a DEF AddRules, Env, Step, RolledBack, Fault, Counts, CallInv, CallShape, MarkerLeft, FileFollows,
       InPlace, BuildSteps, CleanSteps
  <2> QED
    BY <1>0, <1>5, <2>1, <2>2, HolderStep DEF AddRules, Env, Step, Refused, RolledBack
<1>6. CASE AddFirewall(p)
  <2>a. Firewall(procs[p].backend, setups) \in {Table(i) : i \in Ids} \cup {Chains}
    <3>1. setups \in Ids
      BY <1>6, <1>a DEF AddFirewall, Step, RolledBack, CallInv, MarkerLeft
    <3> QED
      BY <3>1 DEF Firewall
  <2>b. sys' \subseteq {Route(g) : g \in Gateways \cup {Foreign}}
                      \cup {Table(i) : i \in Ids \cup {Foreign}}
                      \cup {Rules, Object("rules", Foreign), Chains}
    BY <1>6, <2>a DEF AddFirewall
  <2>1. TypeOK' /\ BoundsType'
    BY <1>6, <2>b DEF AddFirewall, Env, Step, RolledBack, Fault, Counts
  <2>2. CallInv(p)'
    BY <1>6, <1>a DEF AddFirewall, Env, Step, RolledBack, Fault, Counts, CallInv, CallShape, MarkerLeft, FileFollows,
       InPlace, BuildSteps, CleanSteps
  <2> QED
    BY <1>0, <1>6, <2>1, <2>2, HolderStep DEF AddFirewall, Env, Step, Refused, RolledBack
<1>7. CASE Verify(p)
  <2>1. TypeOK' /\ BoundsType'
    BY <1>7, <1>a DEF Verify, Env, Step, RolledBack, Fault, Counts
  <2>2. CallInv(p)'
    BY <1>7, <1>a DEF Verify, Env, Step, RolledBack, Fault, Counts, CallInv, CallShape, MarkerLeft, FileFollows,
       InPlace, BuildSteps, CleanSteps
  <2> QED
    BY <1>0, <1>7, <2>1, <2>2, HolderStep DEF Verify, Env, Step, Refused, RolledBack
<1>8. CASE Activate(p)
  <2>a. file' \in {None} \cup Files
    <3>2. setups \in Ids /\ procs[p].gw \in Gateways /\ procs[p].backend \in Tools
      BY <1>8, <1>a DEF Activate, Step, RolledBack, CallInv, MarkerLeft, CallShape, BuildSteps
    <3>3. file' = file \/ file' = [phase |-> "active", id |-> setups, gw |-> procs[p].gw,
                                   backend |-> procs[p].backend]
      BY <1>8 DEF Activate
    <3> QED
      BY <3>2, <3>3
  <2>1. TypeOK' /\ BoundsType'
    BY <1>8, <2>a DEF Activate, Env, Step, RolledBack, Fault, Counts
  <2>2. CallInv(p)'
    BY <1>8, <1>a DEF Activate, Env, Step, RolledBack, Fault, Counts, CallInv, CallShape, MarkerLeft, FileFollows,
       InPlace, BuildSteps, CleanSteps
  <2> QED
    BY <1>0, <1>8, <2>1, <2>2, HolderStep DEF Activate, Env, Step, Refused, RolledBack
<1> QED
  BY <1>1, <1>2, <1>3, <1>4, <1>5, <1>6, <1>7, <1>8 DEF Setup

(* The beginning and the end of a call, and the death of a process. *)
LEMMA CallStep ==
  ASSUME IInv, NEW p \in Procs,
         Call(p, "setup") \/ Call(p, "restore") \/ Return(p) \/ Crash(p)
  PROVE  IInv'
<1> USE TunAssumption DEF IInv, TypeOK, BoundsType, twins, Prune
<1>1. CASE Call(p, "setup") \/ Call(p, "restore")
  <2>1. PICK op \in {"setup", "restore"} : Call(p, op)
    BY <1>1
  <2>2. TypeOK' /\ BoundsType'
    BY <2>1 DEF Call, Idle
  <2>3. /\ procs'[p] = [Idle EXCEPT !.op = op, !.at = "detect"]
        /\ \A q \in Procs : q # p => procs'[q] = Idle
        /\ lock' = p
    BY <2>1 DEF Call, LockHeld
  <2>4. LockHeld'
    BY <2>3 DEF LockHeld
  <2>5. CallInv(p)'
    BY <2>1, <2>3 DEF Call, Idle, CallInv, CallShape, MarkerLeft, FileFollows, InPlace,
                      BuildSteps, CleanSteps
  <2>6. ASSUME NEW q \in Procs, q # p PROVE CallInv(q)'
    <3>1. procs'[q] = Idle
      BY <2>3, <2>6
    <3> QED
      BY <3>1 DEF Idle, CallInv, CallShape, MarkerLeft, FileFollows, InPlace,
                  BuildSteps, CleanSteps
  <2> QED
    BY <2>2, <2>4, <2>5, <2>6
<1>2. CASE Return(p) \/ Crash(p)
  <2>0. /\ procs' = [procs EXCEPT ![p] = Idle]
        /\ lock' \in {lock, None}
        /\ lock = p => lock' = None
        /\ UNCHANGED <<file, sys, twins, gateway, tools, setups>>
    <3>1. CASE Return(p)
      BY <3>1 DEF Return
    <3>2. CASE Crash(p)
      BY <3>2 DEF Crash
    <3> QED
      BY <1>2, <3>1, <3>2
  <2>1. TypeOK' /\ BoundsType'
    <3>1. BoundsType'
      BY <1>2 DEF Return, Crash, Counts
    <3>2. procs' \in [Procs -> Calls]
      BY <2>0 DEF Calls, Idle
    <3> QED
      BY <2>0, <3>1, <3>2 DEF Calls
  <2>2. procs'[p] = Idle /\ \A q \in Procs : q # p => procs'[q] = procs[q]
    BY <2>0
  <2>3. LockHeld'
    <3>1. procs[p] # Idle
      BY <1>2 DEF Return, Crash, Idle
    <3>2. \A q \in Procs : procs'[q] = Idle
      BY <2>2, <3>1, Exclusive
    <3> QED
      BY <3>2 DEF LockHeld
  <2>4. ASSUME NEW q \in Procs PROVE CallInv(q)'
    BY <2>0, <2>2 DEF Idle, CallInv, CallShape, MarkerLeft, FileFollows,
                      InPlace, BuildSteps, CleanSteps
  <2> QED
    BY <2>1, <2>3, <2>4
<1> QED
  BY <1>1, <1>2

(* What happens outside the program. *)
LEMMA OutsideStep ==
  ASSUME IInv, Reboot \/ ChangeGateway \/ AddForeign \/ AddAlike \/ ChangeTools
  PROVE  IInv'
<1> USE TunAssumption DEF IInv, TypeOK, BoundsType, twins, Prune
<1>1. CASE Reboot
  <2>1. TypeOK' /\ BoundsType'
    BY <1>1 DEF Reboot, Counts, Idle
  <2>2. \A p \in Procs : procs'[p] = Idle
    BY <1>1 DEF Reboot
  <2> QED
    BY <2>1, <2>2 DEF LockHeld, Idle, CallInv, CallShape, MarkerLeft, FileFollows,
                      InPlace, BuildSteps, CleanSteps
<1>2. CASE ChangeGateway
  <2>1. TypeOK' /\ BoundsType'
    BY <1>2 DEF ChangeGateway, Counts
  <2> QED
    BY <1>2, <2>1 DEF ChangeGateway, LockHeld, CallInv, CallShape, MarkerLeft, FileFollows, InPlace
<1>3. CASE AddForeign
  <2>1. sys' \subseteq {Route(g) : g \in Gateways \cup {Foreign}}
                      \cup {Table(i) : i \in Ids \cup {Foreign}}
                      \cup {Rules, Object("rules", Foreign), Chains}
    BY <1>3 DEF AddForeign, Kinds, Route, Table
  <2>a. BoundsType'
    BY <1>3 DEF AddForeign, Counts
  <2>2. TypeOK' /\ BoundsType'
    BY <1>3, <2>1, <2>a DEF AddForeign, Env
  <2>3. sys \subseteq sys'
    BY <1>3 DEF AddForeign
  <2> QED
    BY <1>3, <2>2, <2>3 DEF AddForeign, Env, LockHeld, CallInv, CallShape, MarkerLeft,
                            FileFollows, InPlace
<1>5. CASE AddAlike
  <2>a. BoundsType'
    BY <1>5 DEF AddAlike, Counts
  <2>b. sys \subseteq sys' /\ sys' \subseteq sys \cup Alike
        /\ theirs' \subseteq theirs \cup Alike /\ taken' \subseteq taken \cup Alike
    BY <1>5 DEF AddAlike
  <2>2. TypeOK' /\ BoundsType'
    BY <1>5, <2>a, <2>b DEF AddAlike, Env, Alike
  <2> QED
    BY <1>5, <2>2, <2>b DEF AddAlike, Env, LockHeld, CallInv, CallShape, MarkerLeft,
                            FileFollows, InPlace
<1>4. CASE ChangeTools
  <2>1. TypeOK' /\ BoundsType'
    BY <1>4 DEF ChangeTools, Counts
  <2> QED
    BY <1>4, <2>1 DEF ChangeTools, LockHeld, CallInv, CallShape, MarkerLeft, FileFollows, InPlace
<1> QED
  BY <1>1, <1>2, <1>3, <1>4, <1>5

LEMMA InvInit ==
  ASSUME Init
  PROVE  IInv
<1> USE TunAssumption DEF Init
<1>1. TypeOK
  BY DEF TypeOK, Idle
<1>2. BoundsType
  BY DEF BoundsType
<1>3. LockHeld
  BY DEF LockHeld
<1>4. ASSUME NEW p \in Procs PROVE CallInv(p)
  BY IdleCall
<1> QED
  BY <1>1, <1>2, <1>3, <1>4 DEF IInv

LEMMA InvStep ==
  ASSUME IInv, [Next]_vars
  PROVE  IInv'
<1>1. CASE UNCHANGED vars
  BY <1>1 DEF vars, twins, IInv, TypeOK, BoundsType, LockHeld, CallInv, CallShape, MarkerLeft,
              FileFollows, InPlace
<1>2. ASSUME NEW p \in Procs,
             Call(p, "setup") \/ Call(p, "restore") \/ Work(p) \/ Crash(p)
      PROVE  IInv'
  BY <1>2, CallStep, SetupStep, CleanupStep DEF Work
<1>3. CASE Reboot \/ ChangeGateway \/ AddForeign \/ AddAlike \/ ChangeTools
  BY <1>3, OutsideStep
<1> QED
  BY <1>1, <1>2, <1>3 DEF Next

LEMMA Invariant == Spec => []IInv
<1>1. Init => IInv
  BY InvInit
<1>2. IInv /\ [Next]_vars => IInv'
  BY InvStep
<1> QED
  BY <1>1, <1>2, PTL DEF Spec

(* State file, system objects, lock and calls keep their types, the index   *)
(* of the install marker included (TunRouting!TypeOK).                      *)
THEOREM TypeCorrect == Spec => []TypeOK
  BY Invariant, PTL DEF IInv
-----------------------------------------------------------------------------
(* The rest of the inductive invariant: what the state file describes. The  *)
(* steps that neither remove nor add an object, nor write the file, keep it *)
(* if they neither reach a point of a cleanup nor change its command.       *)
LEMMA KeepsKnown ==
  ASSUME LInv, UNCHANGED <<file, tools>>, bounds'.installs = bounds.installs,
         \A o \in Ours' : o \in Ours,
         \A q \in Procs :
           /\ procs'[q].backend \in {procs[q].backend, None, Backend}
           /\ procs'[q].at \in {"firewall", "forget"} => procs'[q] = procs[q]
  PROVE  LeftoversAreKnown' /\ SameCommand' /\ \A q \in Procs : CleanedSoFar(q)'
<1> USE DEF LInv, SameTools
<1>1. LeftoversAreKnown'
  BY DEF LeftoversAreKnown, Described
<1>2. SameCommand'
  BY DEF SameCommand, Backend
<1>3. ASSUME NEW q \in Procs PROVE CleanedSoFar(q)'
  <2>1. procs'[q].at \in {"firewall", "forget"} => procs'[q] = procs[q]
    OBVIOUS
  <2>2. CleanedSoFar(q)
    OBVIOUS
  <2> QED
    BY <2>1, <2>2 DEF CleanedSoFar
<1> QED
  BY <1>1, <1>2, <1>3

(* Every object of the program is one of these. *)
LEMMA OurObjects ==
  ASSUME TypeOK, NEW o \in Ours
  PROVE  \/ o.kind = "route" /\ o.of \in Gateways /\ o = Route(o.of)
         \/ o.kind = "rules" /\ o = Rules
         \/ o.kind = "table" /\ o.of \in Ids /\ o = Table(o.of)
         \/ o.kind = "chains" /\ o = Chains
  BY DEF TypeOK, Ours, Route, Rules, Table, Chains, Object

(* While p is at work, nothing is claimed of another process' cleanup. *)
LEMMA OthersAreIdle ==
  ASSUME LockHeld, NEW p \in Procs, procs[p] # Idle, NEW c,
         procs' = [procs EXCEPT ![p] = c], NEW q \in Procs, q # p
  PROVE  procs'[q] = Idle /\ CleanedSoFar(q)'
<1>1. procs'[q] = Idle
  BY Exclusive
<1> QED
  BY <1>1 DEF CleanedSoFar, Idle

LEMMA KnownInCleanup ==
  ASSUME LInv, NEW p \in Procs, Cleanup(p)
  PROVE  LeftoversAreKnown' /\ SameCommand' /\ \A q \in Procs : CleanedSoFar(q)'
<1> USE TunAssumption DEF LInv, twins, Prune
<1>0. IInv /\ TypeOK /\ LockHeld /\ procs[p] # Idle /\ CallInv(p)
  BY AtWork DEF Work, IInv
<1>1. CASE BeginRestore(p)
  <2>1. \A q \in Procs :
          /\ procs'[q].backend \in {procs[q].backend, None, Backend}
          /\ procs'[q].at \in {"firewall", "forget"} => procs'[q] = procs[q]
    BY <1>0, <1>1 DEF BeginRestore, TypeOK
  <2> QED
    BY <1>1, <2>1, KeepsKnown DEF BeginRestore, Env, Ours
<1>2. CASE DeletePolicy(p)
  <2>1. /\ UNCHANGED <<file, tools>> /\ bounds'.installs = bounds.installs
        /\ Ours' \subseteq Ours
        /\ \A q \in Procs : procs'[q].backend = procs[q].backend
    BY <1>0, <1>2 DEF DeletePolicy, Env, Step, Fault, Counts, Ours, IInv, TypeOK, BoundsType
  <2>2. LeftoversAreKnown' /\ SameCommand'
    BY <2>1 DEF LeftoversAreKnown, Described, SameCommand, SameTools, Backend
  <2>3. CleanedSoFar(p)'
    <3> SUFFICES ASSUME SameTools', ~procs'[p].failed, NEW o \in Ours',
                        o.kind \in {"route", "rules"}
                 PROVE  FALSE
      BY <1>0, <1>2 DEF CleanedSoFar, DeletePolicy, Step, TypeOK
    <3>1. sys' = sys \ OwnPolicy
      BY <1>0, <1>2 DEF DeletePolicy, TypeOK
    <3>2. o \in Ours /\ Described(o)
      BY <2>1 DEF SameTools, LeftoversAreKnown
    <3>3. o \in OwnPolicy
      BY <1>0, <3>2, OurObjects DEF Described, OwnPolicy
    <3> QED
      BY <3>1, <3>3 DEF Ours
  <2> QED
    BY <1>0, <1>2, <2>2, <2>3, OthersAreIdle DEF DeletePolicy, Step
<1>3. CASE DeleteFirewall(p)
  <2>1. /\ UNCHANGED <<file, tools>> /\ bounds'.installs = bounds.installs
        /\ Ours' \subseteq Ours
        /\ \A q \in Procs : procs'[q].backend = procs[q].backend
    BY <1>0, <1>3 DEF DeleteFirewall, Env, Step, Fault, Counts, Ours, IInv, TypeOK, BoundsType
  <2>2. LeftoversAreKnown' /\ SameCommand'
    BY <2>1 DEF LeftoversAreKnown, Described, SameCommand, SameTools, Backend
  <2>3. CleanedSoFar(p)'
    <3> SUFFICES ASSUME SameTools', ~procs'[p].failed, NEW o \in Ours'
                 PROVE  FALSE
      BY <1>0, <1>3 DEF CleanedSoFar, DeleteFirewall, Step, TypeOK
    <3>1. /\ sys' = sys \ Removable(p) /\ ~RefusesTable(p)
          /\ ~procs[p].failed /\ procs[p].at = "firewall"
      BY <1>0, <1>3 DEF DeleteFirewall, Step, TypeOK
    <3>2. o \in Ours /\ Described(o) /\ SameTools /\ o.kind \notin {"route", "rules"}
      BY <2>1, <3>1 DEF SameTools, LeftoversAreKnown, CleanedSoFar
    <3>3. procs[p].backend = Backend /\ file # None /\ file.backend = Backend
      BY <1>0, <3>1, <3>2 DEF SameCommand, Described, CallInv, CallShape, CleanSteps
    <3>4. o \in Removable(p)
      BY <1>0, <3>2, <3>3, OurObjects DEF Described, Removable, OwnsTable, Of, Ours
    <3> QED
      BY <3>1, <3>4 DEF Ours
  <2> QED
    BY <1>0, <1>3, <2>2, <2>3, OthersAreIdle DEF DeleteFirewall, Step
<1>4. CASE Forget(p)
  <2>1. /\ UNCHANGED <<sys, twins, tools>> /\ bounds'.installs = bounds.installs
        /\ \A q \in Procs : procs'[q].backend = procs[q].backend
    BY <1>0, <1>4 DEF Forget, Env, Fault, Counts, IInv, TypeOK, BoundsType
  <2>4. LeftoversAreKnown' /\ SameCommand'
    <3>1. CASE file' = file
      BY <2>1, <3>1 DEF LeftoversAreKnown, Described, SameCommand, SameTools, Backend, Ours
    <3>2. CASE Forgets(p) /\ file' = None
      <4>1. SameTools' => Ours' = {}
        BY <1>4, <2>1, <3>2 DEF Forget, Forgets, CleanedSoFar, SameTools, Ours
      <4> QED
        BY <2>1, <3>2, <4>1 DEF LeftoversAreKnown, SameCommand, SameTools, Backend
    <3> QED
      BY <1>4, <3>1, <3>2 DEF Forget
  <2>5. CleanedSoFar(p)'
    BY <1>0, <1>4 DEF Forget, CleanedSoFar, TypeOK, CallInv, CallShape, CleanSteps
  <2> QED
    BY <1>0, <1>4, <2>4, <2>5, OthersAreIdle DEF Forget
<1> QED
  BY <1>1, <1>2, <1>3, <1>4 DEF Cleanup

LEMMA KnownInSetup ==
  ASSUME LInv, NEW p \in Procs, Setup(p)
  PROVE  LeftoversAreKnown' /\ SameCommand' /\ \A q \in Procs : CleanedSoFar(q)'
<1> USE TunAssumption DEF LInv, twins, Prune
<1>0. IInv /\ TypeOK /\ LockHeld /\ procs[p] # Idle /\ CallInv(p)
  BY AtWork DEF Work, IInv
<1>1. CASE Preflight(p) \/ CheckSlots(p) \/ Verify(p)
  <2>1. \A q \in Procs :
          /\ procs'[q].backend \in {procs[q].backend, None, Backend}
          /\ procs'[q].at \in {"firewall", "forget"} => procs'[q] = procs[q]
    BY <1>0, <1>1 DEF Preflight, CheckSlots, Verify, Step, Refused, RolledBack, TypeOK
  <2>2. /\ UNCHANGED <<file, sys, twins, tools>> /\ bounds'.installs = bounds.installs
    BY <1>0, <1>1 DEF Preflight, CheckSlots, Verify, Env, Fault, Counts, IInv, BoundsType
  <2> QED
    BY <2>1, <2>2, KeepsKnown DEF Ours
<1>2. CASE Prepare(p) \/ AddRoute(p) \/ AddRules(p) \/ AddFirewall(p) \/ Activate(p)
  <2>1. /\ UNCHANGED tools /\ bounds'.installs = bounds.installs
        /\ \A q \in Procs : procs'[q].backend = procs[q].backend
        /\ procs'[p].at \notin {"firewall", "forget"}
    <3> USE DEF Env, Step, Refused, RolledBack, Fault, Counts, IInv, TypeOK, BoundsType
    <3>1. CASE Prepare(p)
      BY <1>0, <3>1 DEF Prepare
    <3>2. CASE AddRoute(p)
      BY <1>0, <3>2 DEF AddRoute
    <3>3. CASE AddRules(p)
      BY <1>0, <3>3 DEF AddRules
    <3>4. CASE AddFirewall(p)
      BY <1>0, <3>4 DEF AddFirewall
    <3>5. CASE Activate(p)
      BY <1>0, <3>5 DEF Activate
    <3> QED
      BY <1>2, <3>1, <3>2, <3>3, <3>4, <3>5
  <2>2. \A q \in Procs : CleanedSoFar(q)'
    <3>1. \E c : procs' = [procs EXCEPT ![p] = c]
      BY <1>2 DEF Prepare, AddRoute, AddRules, AddFirewall, Activate, Step, Refused, RolledBack
    <3>2. CleanedSoFar(p)'
      BY <2>1 DEF CleanedSoFar
    <3> QED
      BY <1>0, <3>1, <3>2, OthersAreIdle
  <2>3. LeftoversAreKnown' /\ SameCommand'
    <3> SUFFICES ASSUME SameTools'
                 PROVE  /\ \A o \in Ours' : Described(o)'
                        /\ file' # None => file'.backend = Backend
      BY <2>1 DEF LeftoversAreKnown, SameCommand, Backend, SameTools
    <3>1. SameTools /\ \A o \in Ours : Described(o)
      BY <2>1 DEF SameTools, LeftoversAreKnown
    <3>2. procs[p].at \in BuildSteps /\ procs[p].backend = Backend
      BY <1>0, <1>2, <3>1 DEF Prepare, AddRoute, AddRules, AddFirewall, Activate, Step, Refused,
         RolledBack, SameCommand, CallInv, CallShape, BuildSteps
    <3>3. file # None => file.backend = Backend
      BY <3>1 DEF SameCommand
    <3>4. CASE Prepare(p)
      <4>1. file = None
        BY <1>0, <3>4 DEF Prepare, CallInv, FileFollows
      <4>2. Ours' = {}
        BY <3>1, <3>4, <4>1 DEF Prepare, Described, Ours
      <4> QED
        BY <3>2, <3>4, <4>1, <4>2 DEF Prepare, State
    <3>5. CASE AddRoute(p) \/ AddRules(p) \/ AddFirewall(p)
      <4>1. file = [phase |-> "preparing", id |-> setups, gw |-> procs[p].gw,
                    backend |-> procs[p].backend]
        BY <1>0, <3>5 DEF AddRoute, AddRules, AddFirewall, Step, RolledBack, CallInv, FileFollows
      <4>2. file \in Files
        BY <1>0, <3>2, <3>5, <4>1 DEF AddRoute, AddRules, AddFirewall, Step, RolledBack,
           CallInv, CallShape, MarkerLeft, BuildSteps, Files
      <4>3. sys' \subseteq sys \cup {Route(procs[p].gw), Rules, Firewall(procs[p].backend, setups)}
        BY <3>5 DEF AddRoute, AddRules, AddFirewall
      <4>4. \A o \in {Route(procs[p].gw), Rules, Firewall(procs[p].backend, setups)} : Described(o)
        BY <1>0, <3>2, <4>1, <4>2 DEF Described, Route, Rules, Firewall, Table, Chains, Object,
           CallInv, CallShape, Tools
      <4>5. UNCHANGED <<file, twins>>
        BY <3>5 DEF AddRoute, AddRules, AddFirewall
      <4> QED
        BY <3>1, <3>3, <4>3, <4>4, <4>5 DEF Ours, Described
    <3>6. CASE Activate(p)
      <4>1. file = [phase |-> "preparing", id |-> setups, gw |-> procs[p].gw,
                    backend |-> procs[p].backend]
        BY <1>0, <3>6 DEF Activate, Step, RolledBack, CallInv, FileFollows
      <4>2. CASE file' = file
        BY <3>1, <3>3, <3>6, <4>2 DEF Activate, Ours, Described
      <4>3. CASE file' = [phase |-> "active", id |-> setups, gw |-> procs[p].gw,
                          backend |-> procs[p].backend]
        <5>1. file' # None
          BY <1>0, <3>6, <4>3 DEF Activate, Step, RolledBack, CallInv, CallShape, MarkerLeft,
             BuildSteps, Files
        <5> QED
          BY <3>1, <3>2, <3>6, <4>1, <4>3, <5>1 DEF Activate, Ours, Described
      <4> QED
        BY <3>6, <4>2, <4>3 DEF Activate
    <3> QED
      BY <1>2, <3>4, <3>5, <3>6
  <2> QED
    BY <2>2, <2>3
<1> QED
  BY <1>1, <1>2 DEF Setup

LEMMA KnownInCall ==
  ASSUME LInv, NEW p \in Procs,
         Call(p, "setup") \/ Call(p, "restore") \/ Return(p) \/ Crash(p)
  PROVE  LeftoversAreKnown' /\ SameCommand' /\ \A q \in Procs : CleanedSoFar(q)'
<1> USE DEF LInv, IInv, TypeOK, BoundsType, twins, Prune
<1>1. CASE Call(p, "setup") \/ Call(p, "restore")
  <2>1. PICK op \in {"setup", "restore"} : Call(p, op)
    BY <1>1
  <2>2. procs'[p] = [Idle EXCEPT !.op = op, !.at = "detect"]
    BY <2>1 DEF Call
  <2>3. \A q \in Procs : q # p => procs'[q] = procs[q]
    BY <2>1 DEF Call
  <2>4. UNCHANGED <<file, sys, twins, tools, bounds>>
    BY <2>1 DEF Call
  <2>5. procs'[p].backend = None /\ procs'[p].at = "detect"
    BY <2>2 DEF Idle
  <2> QED
    BY <2>3, <2>4, <2>5, KeepsKnown DEF Ours
<1>2. CASE Return(p)
  BY <1>2, KeepsKnown DEF Return, Idle, Ours
<1>3. CASE Crash(p)
  BY <1>3, KeepsKnown DEF Crash, Idle, Ours, Counts
<1> QED
  BY <1>1, <1>2, <1>3

LEMMA KnownOutside ==
  ASSUME LInv, Reboot \/ ChangeGateway \/ AddForeign \/ AddAlike \/ ChangeTools
  PROVE  LeftoversAreKnown' /\ SameCommand' /\ \A q \in Procs : CleanedSoFar(q)'
<1> USE DEF LInv, IInv, TypeOK, BoundsType, twins, Prune
<1>1. CASE Reboot
  BY <1>1, KeepsKnown DEF Reboot, Idle, Ours, Counts
<1>2. CASE ChangeGateway
  BY <1>2, KeepsKnown DEF ChangeGateway, Ours, Counts
<1>3. CASE AddForeign
  BY <1>3, KeepsKnown DEF AddForeign, Env, Ours, Counts, Object
<1>4. CASE ChangeTools
  BY <1>4 DEF ChangeTools, Counts, LeftoversAreKnown, SameCommand, CleanedSoFar, SameTools
<1>5. CASE AddAlike
  BY <1>5, KeepsKnown DEF AddAlike, Env, Ours, Counts
<1> QED
  BY <1>1, <1>2, <1>3, <1>4, <1>5

LEMMA KnownInvariant == Spec => []LInv
<1>1. Init => LInv
  <2> SUFFICES ASSUME Init PROVE LInv
    OBVIOUS
  <2>1. IInv
    BY InvInit
  <2>2. LeftoversAreKnown /\ SameCommand /\ \A p \in Procs : CleanedSoFar(p)
    BY DEF Init, LeftoversAreKnown, Ours, SameCommand, CleanedSoFar, Idle
  <2> QED
    BY <2>1, <2>2 DEF LInv
<1>2. LInv /\ [Next]_vars => LInv'
  <2> SUFFICES ASSUME LInv, [Next]_vars PROVE LInv'
    OBVIOUS
  <2>1. IInv'
    BY InvStep DEF LInv
  <2>2. LeftoversAreKnown' /\ SameCommand' /\ \A q \in Procs : CleanedSoFar(q)'
    <3>1. CASE UNCHANGED vars
      BY <3>1 DEF vars, twins, LInv, LeftoversAreKnown, Described, SameCommand, CleanedSoFar,
                  SameTools, Backend, Ours
    <3>2. CASE Reboot \/ ChangeGateway \/ AddForeign \/ AddAlike \/ ChangeTools
      BY <3>2, KnownOutside
    <3>3. ASSUME NEW p \in Procs,
                 Call(p, "setup") \/ Call(p, "restore") \/ Work(p) \/ Crash(p)
          PROVE  LeftoversAreKnown' /\ SameCommand' /\ \A q \in Procs : CleanedSoFar(q)'
      BY <3>3, KnownInSetup, KnownInCleanup, KnownInCall DEF Work
    <3> QED
      BY <3>1, <3>2, <3>3 DEF Next
  <2> QED
    BY <2>1, <2>2 DEF LInv
<1> QED
  BY <1>1, <1>2, PTL DEF Spec

(* Whatever fails, dies or restarts, the state file describes every object  *)
(* that the program has put into the system (TunRouting!LeftoversAreKnown): *)
(* setupTUNRoutingLocked saves it first, and a cleanup removes it last and  *)
(* only when everything else is gone.                                       *)
THEOREM Leftovers == Spec => []LeftoversAreKnown
  BY KnownInvariant, PTL DEF LInv

(* A setup that reports success has everything in place, and a cleanup that *)
(* reports success has left nothing (TunRouting!SuccessIsReal), whatever    *)
(* failed in it and whoever was interrupted before it.                      *)
THEOREM Success == Spec => []SuccessIsReal
<1>1. LInv => SuccessIsReal
  <2> SUFFICES ASSUME LInv PROVE SuccessIsReal
    OBVIOUS
  <2>1. SuccessProtects
    BY DEF LInv, IInv, CallInv, InPlace, SuccessProtects
  <2>2. SuccessCleans
    BY DEF LInv, IInv, CallInv, FileFollows, SuccessCleans, LeftoversAreKnown, Described
  <2> QED
    BY <2>1, <2>2 DEF SuccessIsReal
<1> QED
  BY <1>1, KnownInvariant, PTL

(* What others have put in place where the program claimed nothing is there *)
(* still, and it is claimed by nobody: no state file describes it and no    *)
(* setup goes on past its check.                                            *)
Apart == theirs \subseteq sys /\ \A o \in theirs : ~Claimed(o)

AInv == IInv /\ Apart

(* Steps that remove nothing from sys and claim nothing new. *)
LEMMA KeepsApart ==
  ASSUME Apart, theirs' = theirs, sys \subseteq sys', UNCHANGED file,
         \A q \in Procs : procs'[q].at = "prepare" => procs'[q] = procs[q]
  PROVE  Apart'
  BY DEF Apart, Claimed, OwnPolicy

(* The steps of a process keep them apart: a setup goes past its check only *)
(* when the places are free, and the state file it then writes describes    *)
(* what it was about to claim.                                              *)
LEMMA ApartInWork ==
  ASSUME AInv, NEW p \in Procs, Work(p)
  PROVE  Apart'
<1> USE TunAssumption DEF AInv, twins, Prune
<1>0. IInv /\ TypeOK /\ procs[p] # Idle /\ CallInv(p) /\ LockHeld
  BY AtWork DEF IInv
<1>1. ASSUME NEW q \in Procs, q # p PROVE procs[q].at # "prepare"
  <2>1. procs[q] = Idle
    BY <1>0, <1>1, Exclusive
  <2> QED
    BY <2>1 DEF Idle
<1>2. CASE CheckSlots(p)
  <2>1. CASE Of("route") \cup Of("rules") = {}
    <3>1. theirs = {}
      <4> SUFFICES ASSUME NEW o \in theirs PROVE FALSE
        OBVIOUS
      <4>1. o \in sys /\ o \in Alike
        BY <1>0 DEF Apart, TypeOK
      <4>2. o.kind \in {"route", "rules"}
        BY <4>1 DEF Alike, Route, Rules, Object
      <4> QED
        BY <2>1, <4>1, <4>2 DEF Of
    <3> QED
      BY <1>2, <3>1 DEF CheckSlots, Apart
  <2>2. CASE Of("route") \cup Of("rules") # {}
    BY <1>0, <1>2, <2>2, KeepsApart DEF CheckSlots, Refused, TypeOK
  <2> QED
    BY <2>1, <2>2
<1>3. CASE Prepare(p)
  <2>1. /\ UNCHANGED <<sys, theirs>> /\ procs[p].at = "prepare"
        /\ \/ file' = State(p, "preparing")
           \/ file' = file
        /\ \A q \in Procs : procs'[q].at # "prepare"
    BY <1>0, <1>1, <1>3 DEF Prepare, Step, Refused, TypeOK
  <2>2. CASE file' = file
    BY <2>1, <2>2 DEF Apart, Claimed, OwnPolicy
  <2>3. CASE file' = State(p, "preparing")
    <3>1. OwnPolicy' \subseteq {Rules, Route(procs[p].gw)}
      BY <2>3 DEF OwnPolicy, State
    <3> QED
      BY <2>1, <3>1 DEF Apart, Claimed
  <2> QED
    BY <2>1, <2>2, <2>3
<1>4. CASE Activate(p)
  <2>1. /\ UNCHANGED <<sys, theirs>> /\ \A q \in Procs : procs'[q].at # "prepare"
    BY <1>0, <1>1, <1>4 DEF Activate, Step, RolledBack, TypeOK
  <2>2. file = [phase |-> "preparing", id |-> setups, gw |-> procs[p].gw,
                backend |-> procs[p].backend] /\ file \in Files
    BY <1>0, <1>4 DEF Activate, Step, RolledBack, CallInv, FileFollows, CallShape, MarkerLeft,
       BuildSteps, Files
  <2>3. file' = file \/ file'.gw = file.gw
    BY <1>4, <2>2 DEF Activate
  <2>4. OwnPolicy' \subseteq OwnPolicy
    BY <2>2, <2>3 DEF OwnPolicy
  <2> QED
    BY <2>1, <2>4 DEF Apart, Claimed
<1>5. CASE DeletePolicy(p) \/ DeleteFirewall(p)
  <2>1. /\ theirs' \subseteq theirs /\ UNCHANGED file
        /\ \A q \in Procs : procs'[q].at # "prepare"
    BY <1>0, <1>1, <1>5 DEF DeletePolicy, DeleteFirewall, Step, TypeOK
  <2>2. theirs' \subseteq sys'
    <3>1. CASE DeletePolicy(p)
      BY <3>1 DEF DeletePolicy
    <3>2. CASE DeleteFirewall(p)
      <4>1. Removable(p) \cap Alike = {}
        BY DEF Removable, Of, Alike, Route, Rules, Chains, Object
      <4> QED
        BY <1>0, <3>2, <4>1 DEF DeleteFirewall, Apart, TypeOK
    <3> QED
      BY <1>5, <3>1, <3>2
  <2> QED
    BY <2>1, <2>2 DEF Apart, Claimed, OwnPolicy
<1>6. CASE Forget(p)
  <2>1. /\ UNCHANGED <<sys, theirs>> /\ file' \in {None, file}
        /\ \A q \in Procs : procs'[q].at # "prepare"
    BY <1>0, <1>1, <1>6 DEF Forget, TypeOK, CallInv, CallShape, CleanSteps
  <2> QED
    BY <2>1 DEF Apart, Claimed, OwnPolicy
<1>7. CASE Preflight(p) \/ AddRoute(p) \/ AddRules(p) \/ AddFirewall(p) \/ Verify(p)
           \/ BeginRestore(p) \/ Return(p)
  <2>1. /\ theirs' = theirs /\ UNCHANGED file /\ sys \subseteq sys'
    BY <1>7 DEF Preflight, AddRoute, AddRules, AddFirewall, Verify, BeginRestore, Return
  <2>2. \A q \in Procs : procs'[q].at = "prepare" => procs'[q] = procs[q]
    BY <1>0, <1>7 DEF Preflight, AddRoute, AddRules, AddFirewall, Verify, BeginRestore, Return,
                      Step, RolledBack, TypeOK, Idle
  <2> QED
    BY <2>1, <2>2, KeepsApart
<1> QED
  BY <1>2, <1>3, <1>4, <1>5, <1>6, <1>7 DEF Work, Setup, Cleanup

LEMMA ApartInvariant == Spec => []AInv
<1>1. Init => AInv
  BY InvInit DEF AInv, Apart, Init
<1>2. AInv /\ [Next]_vars => AInv'
  <2> SUFFICES ASSUME AInv, [Next]_vars PROVE Apart'
    BY InvStep DEF AInv
  <2> USE TunAssumption DEF AInv, twins
  <2>0. TypeOK
    BY DEF IInv
  <2>1. CASE UNCHANGED vars
    BY <2>1 DEF vars, Apart, Claimed, OwnPolicy
  <2>2. ASSUME NEW p \in Procs, Work(p) PROVE Apart'
    BY <2>2, ApartInWork
  <2>3. ASSUME NEW p \in Procs, Call(p, "setup") \/ Call(p, "restore") \/ Crash(p)
        PROVE  Apart'
    <3>1. PICK c : procs' = [procs EXCEPT ![p] = c] /\ c.at # "prepare"
      <4>1. CASE Crash(p)
        <5>1. Idle.at # "prepare"
          BY DEF Idle
        <5> QED
          BY <4>1, <5>1 DEF Crash
      <4>2. ASSUME NEW op, Call(p, op)
            PROVE  \E c : procs' = [procs EXCEPT ![p] = c] /\ c.at # "prepare"
        <5> DEFINE c == [Idle EXCEPT !.op = op, !.at = "detect"]
        <5>1. procs' = [procs EXCEPT ![p] = c]
          BY <4>2 DEF Call
        <5>2. c.at # "prepare"
          BY DEF Idle
        <5> HIDE DEF c
        <5> QED
          BY <5>1, <5>2
      <4> QED
        BY <2>3, <4>1, <4>2
    <3>2. \A q \in Procs : procs'[q].at = "prepare" => procs'[q] = procs[q]
      BY <2>0, <3>1 DEF TypeOK
    <3>3. UNCHANGED <<file, sys, theirs>>
      BY <2>3 DEF Call, Crash
    <3> QED
      BY <3>2, <3>3, KeepsApart
  <2>4. CASE Reboot
    BY <2>4 DEF Reboot, Prune, Apart
  <2>5. CASE ChangeGateway \/ AddForeign \/ ChangeTools
    BY <2>5, KeepsApart DEF ChangeGateway, AddForeign, ChangeTools
  <2>6. CASE AddAlike
    BY <2>6 DEF AddAlike, Apart, Claimed, OwnPolicy
  <2> QED
    BY <2>1, <2>2, <2>3, <2>4, <2>5, <2>6 DEF Next
<1> QED
  BY <1>1, <1>2, PTL DEF Spec

(* Neither a cleanup nor the rollback of a setup removes a route or a rule  *)
(* of another program (TunRouting!ForeignIsKept), be it identical to the    *)
(* program's own, unless it arrived where the program already had a claim.  *)
THEOREM ForeignKept == Spec => ForeignIsKept
<1> DEFINE Kept == \A o \in sys \ (Ours \cup taken) :
       \/ o \in sys' \/ o.kind = "table"
       \/ bounds'.crashes > bounds.crashes
<1>1. AInv /\ [Next]_vars => [Kept]_vars
  <2> SUFFICES ASSUME AInv, Next, NEW o \in sys, o \notin Ours \cup taken, o \notin sys',
                      o.kind # "table"
               PROVE  bounds'.crashes > bounds.crashes
    OBVIOUS
  <2> USE TunAssumption DEF AInv, IInv, TypeOK, BoundsType
  <2>0. o.of = Foreign \/ o \in theirs
    BY DEF Ours
  <2>1. ASSUME NEW p \in Procs, Cleanup(p) PROVE FALSE
    <3>1. o.of = Foreign => o # Rules /\ o # Chains
      BY DEF Rules, Chains, Object
    <3>2. o.of = Foreign => \A g \in Gateways : o # Route(g)
      BY DEF Route, Object
    <3>3. file # None => file.gw \in Gateways
      BY DEF Files
    <3>4. o \notin OwnPolicy
      <4>1. CASE o.of = Foreign
        BY <3>1, <3>2, <3>3, <4>1 DEF OwnPolicy
      <4>2. CASE o \in theirs
        BY <4>2 DEF Apart, Claimed
      <4> QED
        BY <2>0, <4>1, <4>2
    <3>5. o # Chains
      <4>1. CASE o \in theirs
        BY <4>1 DEF Alike, Route, Rules, Chains, Object
      <4> QED
        BY <2>0, <3>1, <4>1
    <3>6. o \notin Removable(p)
      BY <3>5 DEF Removable, Of
    <3>7. o \notin sys' => sys' # sys
      OBVIOUS
    <3> QED
      BY <2>1, <3>4, <3>6, <3>7 DEF Cleanup, BeginRestore, DeletePolicy, DeleteFirewall, Forget
  <2>2. ASSUME NEW p \in Procs, Setup(p) PROVE FALSE
    BY <2>2 DEF Setup, Preflight, CheckSlots, Prepare, AddRoute, AddRules, AddFirewall,
                Verify, Activate
  <2>3. ASSUME NEW p \in Procs,
               Call(p, "setup") \/ Call(p, "restore") \/ Return(p) \/ Crash(p)
        PROVE  FALSE
    BY <2>3 DEF Call, Return, Crash
  <2>4. CASE Reboot
    BY <2>4 DEF Reboot, Counts
  <2>5. CASE ChangeGateway \/ AddForeign \/ AddAlike \/ ChangeTools
    BY <2>5 DEF ChangeGateway, AddForeign, AddAlike, ChangeTools
  <2> QED
    BY <2>1, <2>2, <2>3, <2>4, <2>5 DEF Next, Work
<1>2. ForeignIsKept <=> [][Kept]_vars
  BY DEF ForeignIsKept
<1> QED
  BY <1>1, <1>2, ApartInvariant, PTL DEF Spec
=============================================================================
