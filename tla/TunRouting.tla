------------------------------ MODULE TunRouting ------------------------------
(***************************************************************************)
(* The return-path protection that surrounds a kernel with TUN: a route,   *)
(* policy rules and firewall objects, and the state file that says which   *)
(* of them are the program's own (tun_routing_linux.go).                   *)
(*                                                                         *)
(* Setups by the daemon and cleanups by the daemon, by the command line    *)
(* and by systemd's ExecStop are processes that exclude each other with a  *)
(* lock file. Every command may fail, a process may die between any two of *)
(* them, and the machine may restart, which keeps only the state file.     *)
(* Other programs put objects of their own into the same places, some of   *)
(* them identical to the program's.                                        *)
(***************************************************************************)
EXTENDS Naturals

CONSTANTS Procs,         \* processes and goroutines that set up or clean up
          Gateways,      \* gateways of the default route
          None,
          Foreign,       \* the owner of everything that is not the program's
          ForeignKinds,  \* the kinds of objects that others put in place
          InitialTools,  \* the firewall commands that may be installed
          MaxSetups,     \* bound: setups that get as far as the state file
          MaxFaults,     \* bound: commands and file operations that fail
          MaxCrashes,    \* bound: deaths of a process and restarts
          MaxChanges,    \* bound: changes of gateway and foreign objects
          MaxInstalls    \* bound: changes of the installed commands

Kinds == {"route", "rules", "table", "chains"}

Tools == {"nft", "iptables-legacy"}

(* The install markers, newTUNRoutingState's InstanceID. *)
Ids == 1..MaxSetups

(* What the state file may hold. *)
Files == [phase : {"preparing", "active"}, id : Ids, gw : Gateways, backend : Tools]

ASSUME TunAssumption ==
  /\ None \notin Procs \cup Gateways \cup Tools \cup Nat \cup Files
  /\ Foreign \notin Gateways \cup Nat \cup {None}
  /\ ForeignKinds \subseteq Kinds \ {"chains"}
  /\ InitialTools \subseteq SUBSET Tools
  /\ {MaxSetups, MaxFaults, MaxCrashes, MaxChanges, MaxInstalls} \subseteq Nat

VARIABLES
  file,     \* tun-routing-state.json
  sys,      \* the objects in the kernel's routing and firewall
  theirs,   \* identical ones that others put where nothing was claimed
  taken,    \* identical ones that others put where the program has a claim
  gateway,  \* the default gateway, None without a default route
  tools,    \* the installed firewall commands
  lock,     \* the process that holds tun-routing.lock
  procs,    \* what each process does
  setups,   \* the install markers used
  bounds    \* the bounded counters

twins == <<theirs, taken>>

vars == <<file, sys, theirs, taken, gateway, tools, lock, procs, setups, bounds>>

(* An object and whose it is: a route leads to a gateway and a table        *)
(* carries the marker of its install, or either is someone else's. The     *)
(* policy rules and the chains have fixed names and no owner.               *)
Object(kind, of) == [kind |-> kind, of |-> of]

Route(g) == Object("route", g)
Rules == Object("rules", None)
Table(i) == Object("table", i)
Chains == Object("chains", None)

(* The objects that another program may have put in place just as well.     *)
Alike == {Route(g) : g \in Gateways} \cup {Rules}

Ours == {o \in sys \ (theirs \cup taken) : o.of # Foreign}

Of(kind) == {o \in sys : o.kind = kind}

Firewall(backend, i) == IF backend = "nft" THEN Table(i) ELSE Chains

Idle == [op |-> "idle", at |-> "idle", backend |-> None, gw |-> None,
         failed |-> FALSE, after |-> "idle"]

Init ==
  /\ file = None
  /\ sys = {}
  /\ theirs = {}
  /\ taken = {}
  /\ gateway \in Gateways \cup {None}
  /\ tools \in InitialTools
  /\ lock = None
  /\ procs = [p \in Procs |-> Idle]
  /\ setups = 0
  /\ bounds = [faults |-> 0, crashes |-> 0, changes |-> 0, installs |-> 0]
-----------------------------------------------------------------------------
Env == <<gateway, tools, lock, setups>>

(* What is gone is nobody's. *)
Prune ==
  /\ theirs' = theirs \cap sys'
  /\ taken' = taken \cap sys'

(* selectTUNFirewallBackend; an iptables that is nft's counts as none.      *)
Backend == CASE "nft" \in tools -> "nft"
             [] "nft" \notin tools /\ "iptables-legacy" \in tools
                  -> "iptables-legacy"
             [] OTHER -> None

Counts(what, max) ==
  /\ bounds[what] < max
  /\ bounds' = [bounds EXCEPT ![what] = @ + 1]

Fault == Counts("faults", MaxFaults)

Step(p, from, to) ==
  /\ procs[p].at = from
  /\ procs' = [procs EXCEPT ![p].at = to]

(* A step of a setup fails before anything is in place, or is rolled back   *)
(* with cleanupTUNRoutingWithBackend (rollbackTUNSetup).                    *)
Refused(p, from) ==
  /\ procs[p].at = from
  /\ procs' = [procs EXCEPT ![p].at = "error"]

RolledBack(p, from) ==
  /\ procs[p].at = from
  /\ procs' = [procs EXCEPT ![p].at = "policy", ![p].failed = FALSE,
                            ![p].after = "error"]

(* SetupTUNRouting and RestoreTUNRouting; withTUNRoutingLock *)
Call(p, op) ==
  /\ procs[p] = Idle
  /\ lock = None
  /\ op = "setup" => setups < MaxSetups
  /\ lock' = p
  /\ procs' = [procs EXCEPT ![p] = [Idle EXCEPT !.op = op, !.at = "detect"]]
  /\ UNCHANGED <<file, sys, twins, gateway, tools, setups, bounds>>

Return(p) ==
  /\ procs[p].at \in {"ok", "error"}
  /\ lock' = None
  /\ procs' = [procs EXCEPT ![p] = Idle]
  /\ UNCHANGED <<file, sys, twins, gateway, tools, setups, bounds>>

(* cleanupTUNRoutingLocked up to the cleanup itself. *)
BeginRestore(p) ==
  /\ procs[p].op = "restore"
  /\ procs[p].at = "detect"
  /\ IF Backend = None \/ (file # None /\ file.backend = "nft"
                           /\ Backend # "nft")
     THEN procs' = [procs EXCEPT ![p].at = "error"]
     ELSE procs' = [procs EXCEPT ![p].at = "policy", ![p].backend = Backend,
                                 ![p].after = "ok"]
  /\ UNCHANGED <<file, sys, twins, Env, bounds>>

(* Mutant: a machine without a default route is not refused. *)
HasGateway_Unchecked == TRUE

(* getDefaultGateway *)
HasGateway == gateway # None

(* The read-only half of setupTUNRoutingLocked: it refuses without a        *)
(* backend or a default route, and for another program's TUN.               *)
Preflight(p) ==
  /\ procs[p].op = "setup"
  /\ procs[p].at = "detect"
  /\ \/ procs' = [procs EXCEPT ![p].at = "error"]
     \/ /\ Backend # None
        /\ HasGateway
        /\ procs' = [procs EXCEPT ![p].at = "policy", ![p].backend = Backend,
                       ![p].gw = gateway, ![p].after = "slots"]
  /\ UNCHANGED <<file, sys, twins, Env, bounds>>
-----------------------------------------------------------------------------
(* cleanupTUNRoutingWithBackend: rules and route, firewall, state file. All *)
(* three are tried, and the file is removed only if the others went well.   *)

(* Mutant: the table is flushed instead of removing the route of the file. *)
OwnPolicy_Flush == IF file = None THEN {} ELSE {Rules} \cup Of("route")

OwnPolicy == IF file = None THEN {} ELSE {Rules, Route(file.gw)}

DeletePolicy(p) ==
  /\ \/ /\ Step(p, "policy", "firewall")
        /\ sys' = sys \ OwnPolicy
        /\ UNCHANGED bounds
     \/ /\ procs[p].at = "policy"
        /\ OwnPolicy # {}
        /\ Fault
        /\ \E some \in SUBSET (OwnPolicy \cap sys) : sys' = sys \ some
        /\ procs' = [procs EXCEPT ![p].at = "firewall", ![p].failed = TRUE]
  /\ Prune
  /\ UNCHANGED <<file, Env>>

(* cleanupTUNNFTFirewall deletes the whole table if it finds the marker of  *)
(* the state file in it, and refuses a table without the marker.            *)
OwnsTable == file # None /\ file.backend = "nft"

Removable(p) ==
  CASE procs[p].backend = "iptables-legacy" -> {Chains}
    [] procs[p].backend = "nft" /\ OwnsTable /\ Table(file.id) \in sys
         -> Of("table")
    [] OTHER -> {}

RefusesTable(p) ==
  /\ procs[p].backend = "nft"
  /\ OwnsTable
  /\ Of("table") # {}
  /\ Table(file.id) \notin sys

DeleteFirewall(p) ==
  /\ procs[p].at = "firewall"
  /\ \/ /\ ~RefusesTable(p)
        /\ Step(p, "firewall", "forget")
        /\ sys' = sys \ Removable(p)
        /\ UNCHANGED bounds
     \/ /\ IF RefusesTable(p) THEN UNCHANGED bounds ELSE Fault
        /\ procs' = [procs EXCEPT ![p].at = "forget", ![p].failed = TRUE]
        /\ UNCHANGED sys
  /\ UNCHANGED <<file, twins, Env>>

(* Mutant: the file is removed although some object could not be.           *)
Forgets_Always(p) == TRUE

Forgets(p) == ~procs[p].failed

Forget(p) ==
  /\ procs[p].at = "forget"
  /\ \/ /\ Forgets(p)
        /\ file' = None
        /\ procs' = [procs EXCEPT ![p].at = procs[p].after]
        /\ UNCHANGED bounds
     \/ /\ IF Forgets(p) THEN Fault ELSE UNCHANGED bounds
        /\ procs' = [procs EXCEPT ![p].at = "error"]
        /\ UNCHANGED file
  /\ UNCHANGED <<sys, twins, Env>>
-----------------------------------------------------------------------------
(* The other half of setupTUNRoutingLocked. *)
CheckSlots(p) ==
  /\ IF Of("route") \cup Of("rules") = {} THEN Step(p, "slots", "prepare")
                                          ELSE Refused(p, "slots")
  /\ UNCHANGED <<file, sys, twins, Env, bounds>>

State(p, phase) ==
  [phase |-> phase, id |-> setups', gw |-> procs[p].gw,
   backend |-> procs[p].backend]

(* Mutant: the state is written only when everything is in place. *)
Prepare_Later(p) ==
  /\ Step(p, "prepare", "route")
  /\ setups' = setups + 1
  /\ UNCHANGED <<file, sys, twins, gateway, tools, lock, bounds>>

Prepare(p) ==
  /\ procs[p].at = "prepare"
  /\ setups' = setups + 1
  /\ \/ /\ Step(p, "prepare", "route")
        /\ file' = State(p, "preparing")
        /\ UNCHANGED bounds
     \/ /\ Refused(p, "prepare")
        /\ Fault
        /\ UNCHANGED file
  /\ UNCHANGED <<sys, twins, gateway, tools, lock>>

(* ensureTUNDefaultRoute: the same default route that is already there is   *)
(* as good as its own, and any other is an error; the first listed decides. *)
AddRoute(p) ==
  LET own == Route(procs[p].gw) IN
  /\ \/ /\ Of("route") = {} \/ own \in sys
        /\ Step(p, "route", "rules")
        /\ sys' = sys \cup {own}
        /\ UNCHANGED bounds
     \/ /\ RolledBack(p, "route")
        /\ IF Of("route") \ {own} = {} THEN Fault ELSE UNCHANGED bounds
        /\ UNCHANGED sys
  /\ UNCHANGED <<file, twins, Env>>

(* runTUNRuleAddIgnoringExists: a rule that is already there is as good.    *)
AddRules(p) ==
  /\ \/ /\ Step(p, "rules", "protect")
        /\ sys' = sys \cup {Rules}
        /\ UNCHANGED bounds
     \/ /\ RolledBack(p, "rules")
        /\ Fault
        /\ sys' \in {sys, sys \cup {Rules}}
  /\ UNCHANGED <<file, twins, Env>>

(* Mutant: the protection goes on without its firewall part. *)
AddFirewall_Optional(p) ==
  /\ Step(p, "protect", "verify")
  /\ \/ /\ sys' = sys \cup {Firewall(procs[p].backend, setups)}
        /\ UNCHANGED bounds
     \/ /\ Fault
        /\ UNCHANGED sys
  /\ UNCHANGED <<file, twins, Env>>

(* setupTUNFirewall: one transaction of nft, or several iptables commands,  *)
(* which may leave some of the chains when one of them fails.               *)
AddFirewall(p) ==
  LET own == Firewall(procs[p].backend, setups) IN
  /\ \/ /\ Step(p, "protect", "verify")
        /\ sys' = sys \cup {own}
        /\ UNCHANGED bounds
     \/ /\ RolledBack(p, "protect")
        /\ Fault
        /\ sys' \in {sys} \cup (IF own = Chains THEN {sys \cup {own}} ELSE {})
  /\ UNCHANGED <<file, twins, Env>>

Verify(p) ==
  /\ \/ /\ Step(p, "verify", "activate")
        /\ UNCHANGED bounds
     \/ /\ RolledBack(p, "verify")
        /\ Fault
  /\ UNCHANGED <<file, sys, twins, Env>>

Activate(p) ==
  /\ \/ /\ Step(p, "activate", "ok")
        /\ file' = [phase |-> "active", id |-> setups, gw |-> procs[p].gw,
                    backend |-> procs[p].backend]
        /\ UNCHANGED bounds
     \/ /\ RolledBack(p, "activate")
        /\ Fault
        /\ UNCHANGED file
  /\ UNCHANGED <<sys, twins, Env>>
-----------------------------------------------------------------------------
(* A process dies, and its lock is free; or the machine restarts. *)
Crash(p) ==
  /\ procs[p] # Idle
  /\ Counts("crashes", MaxCrashes)
  /\ procs' = [procs EXCEPT ![p] = Idle]
  /\ lock' = IF lock = p THEN None ELSE lock
  /\ UNCHANGED <<file, sys, twins, gateway, tools, setups>>

Reboot ==
  /\ Counts("crashes", MaxCrashes)
  /\ sys' = {}
  /\ Prune
  /\ procs' = [p \in Procs |-> Idle]
  /\ lock' = None
  /\ UNCHANGED <<file, gateway, tools, setups>>

ChangeGateway ==
  /\ Counts("changes", MaxChanges)
  /\ gateway' \in (Gateways \cup {None}) \ {gateway}
  /\ UNCHANGED <<file, sys, twins, tools, lock, procs, setups>>

AddForeign ==
  /\ Counts("changes", MaxChanges)
  /\ \E kind \in ForeignKinds : sys' = sys \cup {Object(kind, Foreign)}
  /\ UNCHANGED <<file, twins, Env, procs>>

(* What a cleanup would remove, or a setup that has found the places free   *)
(* is about to put there.                                                   *)
Claimed(o) ==
  \/ o \in OwnPolicy
  \/ \E p \in Procs :
       procs[p].at = "prepare" /\ o \in {Rules, Route(procs[p].gw)}

(* Another program puts in place just what the program would. *)
AddAlike ==
  /\ Counts("changes", MaxChanges)
  /\ \E o \in Alike \ sys :
       /\ o.kind \in ForeignKinds
       /\ sys' = sys \cup {o}
       /\ IF Claimed(o) THEN taken' = taken \cup {o} /\ UNCHANGED theirs
                        ELSE theirs' = theirs \cup {o} /\ UNCHANGED taken
  /\ UNCHANGED <<file, Env, procs>>

ChangeTools ==
  /\ Counts("installs", MaxInstalls)
  /\ tools' \in SUBSET Tools \ {tools}
  /\ UNCHANGED <<file, sys, twins, gateway, lock, procs, setups>>

Setup(p) ==
  \/ Preflight(p) \/ CheckSlots(p) \/ Prepare(p) \/ AddRoute(p)
  \/ AddRules(p) \/ AddFirewall(p) \/ Verify(p) \/ Activate(p)

Cleanup(p) ==
  \/ BeginRestore(p) \/ DeletePolicy(p) \/ DeleteFirewall(p) \/ Forget(p)

Work(p) == Setup(p) \/ Cleanup(p) \/ Return(p)

Next ==
  \/ \E p \in Procs :
       Call(p, "setup") \/ Call(p, "restore") \/ Work(p) \/ Crash(p)
  \/ Reboot \/ ChangeGateway \/ AddForeign \/ AddAlike \/ ChangeTools

Spec == Init /\ [][Next]_vars

(* A call that has the lock goes on, and a cleanup is asked for again: by    *)
(* every stop of the kernel, by ExecStop, by the user.                       *)
Fairness ==
  \A p \in Procs : WF_vars(Work(p)) /\ SF_vars(Call(p, "restore"))

FairSpec == Spec /\ Fairness
-----------------------------------------------------------------------------
TypeOK ==
  /\ file \in {None} \cup Files
  /\ sys \subseteq {Route(g) : g \in Gateways \cup {Foreign}}
                   \cup {Table(i) : i \in Ids \cup {Foreign}}
                   \cup {Rules, Object("rules", Foreign), Chains}
  /\ theirs \subseteq Alike
  /\ taken \subseteq Alike
  /\ gateway \in Gateways \cup {None}
  /\ tools \subseteq Tools
  /\ lock \in Procs \cup {None}
  /\ procs \in [Procs ->
       [op : {"idle", "setup", "restore"},
        at : {"idle", "detect", "policy", "firewall", "forget", "slots",
              "prepare", "route", "rules", "protect", "verify", "activate",
              "ok", "error"},
        backend : Tools \cup {None}, gw : Gateways \cup {None},
        failed : BOOLEAN, after : {"idle", "ok", "error", "slots"}]]
  /\ setups \in 0..MaxSetups

SameTools == bounds.installs = 0

(* Every object that the program has put in place, and that is still there, *)
(* is described by the state file, whatever fails, dies or restarts: the    *)
(* next start or stop can remove it (the comment before saveTUNRoutingState *)
(* in setupTUNRoutingLocked).  Not so once the firewall commands change: a  *)
(* cleanup uses the command of the day and forgets what the other one made. *)
Described(o) ==
  /\ file # None
  /\ o.kind = "route" => file.gw = o.of
  /\ o.kind = "table" => file.backend = "nft" /\ file.id = o.of
  /\ o.kind = "chains" => file.backend = "iptables-legacy"

LeftoversAreKnown == SameTools => \A o \in Ours : Described(o)

(* A setup reports success only with the whole protection in place: the     *)
(* kernel must not enter TUN mode without it (SetupTUNRouting).             *)
SuccessProtects ==
  \A p \in Procs : (procs[p].op = "setup" /\ procs[p].at = "ok") =>
    {Rules, Route(procs[p].gw), Firewall(procs[p].backend, setups)} \subseteq sys

(* A cleanup reports success only when nothing of the program is left, so   *)
(* the machine's own routing is what it was (RestoreTUNRouting).            *)
SuccessCleans ==
  \A p \in Procs : (procs[p].op = "restore" /\ procs[p].at = "ok") =>
    file = None /\ (SameTools => Ours = {})

(* What a setup or a cleanup reports as done is done, whatever failed in it *)
(* and whoever worked before it.                                            *)
SuccessIsReal == SuccessProtects /\ SuccessCleans

(* Routes and rules of other programs in the table and at the priorities    *)
(* that the program uses stay until the machine restarts, the ones included *)
(* that are identical to the program's own: a setup that finds them refuses *)
(* (validateTUNRouteSlotsAreFree), and a cleanup removes the route of the   *)
(* state file only (tunPolicyCleanupCommands).  Two things are not kept. An *)
(* identical route or rule that arrives after a setup's check, or while the *)
(* state file describes the like of it, is taken for the program's and is   *)
(* removed with it (ensureTUNDefaultRoute, runTUNRuleAddIgnoringExists).    *)
(* And a table of its name: nothing looks for one before the setup adds.    *)
ForeignIsKept ==
  [][\A o \in sys \ (Ours \cup taken) :
       \/ o \in sys' \/ o.kind = "table"
       \/ bounds'.crashes > bounds.crashes]_vars

(* After any interruption, cleanups that are tried again end with nothing   *)
(* left behind, unless a table of another program stands in the way         *)
(* (cleanupTUNNFTFirewall refuses it).                                      *)
Recovers ==
  <>[](SameTools => \/ Ours = {} /\ file = None
                    \/ Object("table", Foreign) \in sys)
=============================================================================
