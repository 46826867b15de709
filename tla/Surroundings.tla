----------------------------- MODULE Surroundings -----------------------------
(***************************************************************************)
(* The modules that share no state with the kernel process, side by side:  *)
(* the system proxy, daemons, installation, rules, the proxy page.  Each   *)
(* has its own initial states and steps, those of one `part`; the parts    *)
(* use the same variables, in the order in which their modules declare     *)
(* them, and leave the rest alone.                                         *)
(***************************************************************************)
EXTENDS Integers, Sequences

CONSTANTS None,
          Candidates, Profile, LoginOnly, Missing, Processes, Tasks, Owner, Ports,
          Homes, MaxRequests, MaxProxyFaults,                     \* SystemProxy
          Tuis, Child, ByHand, Service, MaxStarts, MaxDaemonFaults, \* Daemon
          MaxJobs, MaxJobFaults, MaxUser,                         \* Installation
          Defaults, Legacy, Customs, Contents, Names, Urls, Policies,
          MaxEdits,                                               \* KernelRules
          Answers, Direct, Delays, Screens, MaxRefreshes, MaxTests,
          MaxMoves                                                \* ProxyPage

VARIABLES part, s1, s2, s3, s4, s5, s6, s7, s8, s9, s10, s11, s12, s13, s14, s15

state == <<part, s1, s2, s3, s4, s5, s6, s7, s8, s9, s10, s11, s12, s13, s14, s15>>
-----------------------------------------------------------------------------
SP == INSTANCE SystemProxy WITH
  MaxFaults <- MaxProxyFaults,
  rc <- s1, pref <- s2, port <- s3, kernel <- s4, session <- s5, procs <- s6,
  tasks <- s7, requests <- s8, faults <- s9, typed <- s10, hurt <- s11,
  wish <- s12, late <- s13

DA == INSTANCE Daemon WITH
  MaxFaults <- MaxDaemonFaults,
  user <- s1, phase <- s2, socket <- s3, tui <- s4, starts <- s5, faults <- s6,
  calm <- s7, wronged <- s8

SI == INSTANCE Installation WITH
  MaxFaults <- MaxJobFaults,
  binary <- s1, unit <- s2, loaded <- s3, enabled <- s4, groups <- s5,
  service <- s6, ready <- s7, runs <- s8, kernel <- s9, env <- s10, job <- s11,
  jobs <- s12, faults <- s13, users <- s14, past <- s15

KR == INSTANCE KernelRules WITH
  cfg <- s1, usable <- s2, file <- s3, page <- s4, request <- s5, pending <- s6,
  edits <- s7, behind <- s8

PP == INSTANCE ProxyPage WITH
  view <- s1, screen <- s2, label <- s3, visible <- s4, loading <- s5,
  isTesting <- s6, batches <- s7, singles <- s8, lost <- s9, bounds <- s10

ASSUME SurroundingsAssumption ==
  SP!Assumptions /\ DA!Assumptions /\ SI!Assumptions /\ KR!Assumptions /\ PP!Assumptions
-----------------------------------------------------------------------------
Init ==
  \/ /\ part = "proxy" /\ SP!Init
     /\ s14 = None /\ s15 = None
  \/ /\ part = "daemon" /\ DA!Init
     /\ s9 = None /\ s10 = None /\ s11 = None /\ s12 = None
     /\ s13 = None /\ s14 = None /\ s15 = None
  \/ /\ part = "install" /\ SI!Init
  \/ /\ part = "rules" /\ KR!Init
     /\ s9 = None /\ s10 = None /\ s11 = None /\ s12 = None
     /\ s13 = None /\ s14 = None /\ s15 = None
  \/ /\ part = "page" /\ PP!Init
     /\ s11 = None /\ s12 = None /\ s13 = None /\ s14 = None
     /\ s15 = None

Next ==
  /\ UNCHANGED part
  /\ \/ part = "proxy" /\ SP!Next /\ UNCHANGED <<s14, s15>>
     \/ part = "daemon" /\ DA!Next /\ UNCHANGED <<s9, s10, s11, s12, s13, s14, s15>>
     \/ part = "install" /\ SI!Next
     \/ part = "rules" /\ KR!Next /\ UNCHANGED <<s9, s10, s11, s12, s13, s14, s15>>
     \/ part = "page" /\ PP!Next /\ UNCHANGED <<s11, s12, s13, s14, s15>>

Spec == Init /\ [][Next]_state
-----------------------------------------------------------------------------
(* The variables of the part have their types.                              *)
TypesOK ==
  CASE part = "proxy"   -> SP!TypeOK
    [] part = "daemon"  -> DA!TypeOK
    [] part = "install" -> SI!TypeOK
    [] part = "rules"   -> KR!TypeOK
    [] part = "page"    -> PP!TypeOK

(* The switch, the reconciliations and the cleanups of the system proxy     *)
(* keep the user's own lines of the shell files (SystemProxy).              *)
UserTextKept == part = "proxy" => SP!UserTextKept

(* A switch of the system proxy that ends without an error has done all it  *)
(* says (SystemProxy).                                                      *)
SwitchTakesEffect == part = "proxy" => SP!SwitchTakesEffect

(* After a stop no later process writes the block back (SystemProxy).       *)
StopIsRemembered == part = "proxy" => SP!StopIsRemembered

(* A TUI that ends shuts down only the daemon it has started (Daemon).      *)
QuitSparesOthers == part = "daemon" => DA!QuitSparesOthers

(* A TUI that ends in order takes the daemon it has started with it         *)
(* (Daemon).                                                                *)
QuitEndsItsDaemon == part = "daemon" => DA!QuitEndsItsDaemon

(* An installation leaves the kernel and the proxy as they were, and what   *)
(* it has installed runs (Installation).                                    *)
UpgradeIsTransparent == part = "install" => SI!UpgradeIsTransparent

(* An uninstallation, also one repeated, leaves nothing behind of which it  *)
(* has not warned (Installation).                                           *)
UninstallIsComplete == part = "install" => SI!UninstallIsComplete

(* An edit changes the rule that its user saw, and no other (KernelRules).  *)
EditIsOfItsRule == [][part = "rules" => KR!EditStep]_state

(* The kernel has the rules of the configuration once nothing waits to be   *)
(* applied (KernelRules).                                                   *)
KernelFollowsRules == part = "rules" => KR!KernelFollowsRules

(* No mark of a test stays on the page for ever (ProxyPage).                *)
MarksEnd == part = "page" => PP!MarksEnd

(* A refresh moves no card, no cursor and no page (ProxyPage).              *)
RefreshMovesNothing == [][part = "page" => PP!RefreshStep]_state
=============================================================================
