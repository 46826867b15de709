----------------------------- MODULE Installation -----------------------------
(***************************************************************************)
(* Installing, upgrading and removing the systemd service: install.sh,     *)
(* `install_service` and `uninstall` (cmd/service_linux.go), the snapshot  *)
(* of the kernel before and its start after (kernel_restore.go), and a     *)
(* service that systemd restarts on its own (cmd/service_unit.go). The     *)
(* kernel runs in the control group of the service and ends with it.       *)
(*                                                                         *)
(* A job is a list of steps; it ends at the first that fails, and may be   *)
(* killed after any. Only one job runs at a time.                          *)
(***************************************************************************)
EXTENDS Naturals, Sequences, FiniteSets

CONSTANTS MaxJobs,   \* bound: jobs
          MaxFaults, \* bound: steps that fail, jobs killed, daemons that die
          MaxUser    \* bound: starts and stops of the kernel by somebody else

Assumptions == {MaxJobs, MaxFaults, MaxUser} \subseteq Nat

VARIABLES
  binary,  \* /usr/local/bin/mihomo-tui: "none", "old" or "new"
  unit,    \* mihomo-tui.service: "none", "whole" or "torn"
  loaded,  \* the unit as systemd last read it
  enabled, \* whether it is started at boot
  groups,  \* whether the groups of the IPC exist
  service, \* "inactive", "active", or "waiting" to be restarted
  ready,   \* whether its daemon answers
  runs,    \* the binary it was started from
  kernel,  \* whether the kernel runs
  env,     \* what is left outside: rules of the TUN, blocks in shell files
  job,     \* what is being done, and what it knows
  jobs, faults, users,
  past     \* history: of the job: the state before it, what befell it

system == <<binary, unit, loaded, enabled, groups, service, ready, runs, kernel, env>>
vars == <<system, job, jobs, faults, users, past>>

NoJob == [kind |-> "none", todo |-> <<>>, was |-> FALSE, hinted |-> FALSE]

Init ==
  /\ \E installed \in BOOLEAN :
       /\ binary = IF installed THEN "old" ELSE "none"
       /\ unit = IF installed THEN "whole" ELSE "none"
       /\ service = IF installed THEN "active" ELSE "inactive"
       /\ loaded = unit /\ runs = binary
       /\ enabled = installed /\ groups = installed /\ ready = installed
  /\ kernel = FALSE
  /\ env \in {{}, {"shell"}}
  /\ job = NoJob
  /\ jobs = 0
  /\ faults = 0
  /\ users = 0
  /\ past = [kernel |-> FALSE, shell |-> FALSE, quiet |-> TRUE, dodged |-> FALSE,
             warned |-> FALSE, result |-> "none"]

Fault == faults < MaxFaults /\ faults' = faults + 1
-----------------------------------------------------------------------------
(* systemd. A daemon without its groups ends with an error; one that ends   *)
(* with an error is started again after five seconds, whatever the reason;  *)
(* the kernel goes with it.                                                 *)
Gone == ready' = FALSE /\ kernel' = FALSE /\ runs' = "none"

BecomeReady ==
  /\ service = "active" /\ ~ready
  /\ IF groups THEN ready' = TRUE /\ UNCHANGED <<service, runs, kernel>>
               ELSE service' = "waiting" /\ Gone
  /\ UNCHANGED <<binary, unit, loaded, enabled, groups, env, job, jobs, faults, users, past>>

DaemonDies ==
  /\ service = "active"
  /\ Fault
  /\ service' = "waiting" /\ Gone
  /\ past' = [past EXCEPT !.quiet = FALSE]
  /\ UNCHANGED <<binary, unit, loaded, enabled, groups, env, job, jobs, users>>

Started == IF binary # "none" /\ loaded = "whole" THEN "active" ELSE "inactive"

Restart ==
  /\ service = "waiting"
  /\ service' = Started
  /\ runs' = IF Started = "active" THEN binary ELSE "none"
  /\ UNCHANGED <<binary, unit, loaded, enabled, groups, ready, kernel, env, job, jobs,
                 faults, users, past>>

(* Somebody else starts or stops the kernel; a start may leave TUN rules.   *)
UseKernel ==
  /\ ready
  /\ users < MaxUser
  /\ users' = users + 1
  /\ kernel' = ~kernel
  /\ env' = IF kernel THEN env \ {"tun"} ELSE env \cup {"tun"}
  /\ past' = [past EXCEPT !.quiet = FALSE]
  /\ UNCHANGED <<binary, unit, loaded, enabled, groups, service, ready, runs, job, jobs,
                 faults>>
-----------------------------------------------------------------------------
(* The steps, in their order.  The script has put the binary in place when  *)
(* it calls install_service, which then copies none.                        *)
Script ==
  <<"look", "check", "binary",
    "snapshot", "check", "groups", "truncate", "write", "reload", "enable", "start", "restore">>

Install ==
  <<"snapshot", "check", "groups", "binary",
    "truncate", "write", "reload", "enable", "start", "restore">>

Uninstall == <<"check", "clean", "disable", "unlink", "erase", "reload">>

Plan(kind) ==
  CASE kind = "script" -> Script
    [] kind = "install" -> Install
    [] OTHER -> Uninstall

(* Whether the kernel runs, as its daemon says: one that does not answer    *)
(* counts as a kernel that does not run. (ProbeKernelRunning, and the curl  *)
(* of the script.)                                                          *)
Probe == ready /\ kernel

Begin(kind) ==
  /\ job = NoJob
  /\ jobs < MaxJobs
  /\ jobs' = jobs + 1
  /\ job' = [NoJob EXCEPT !.kind = kind, !.todo = Plan(kind)]
  /\ past' = [kernel |-> kernel, shell |-> "shell" \in env, quiet |-> TRUE,
              dodged |-> FALSE, warned |-> FALSE, result |-> "none"]
  /\ UNCHANGED <<system, faults, users>>

Now(step) == job.todo # <<>> /\ Head(job.todo) = step
Done == job' = [job EXCEPT !.todo = Tail(@)]

(* The script: of an active service only; a probe that fails counts as no.  *)
Look ==
  /\ Now("look")
  /\ \E answer \in {Probe, FALSE} :
       /\ IF answer = Probe THEN UNCHANGED <<faults, past>>
          ELSE Fault /\ past' = [past EXCEPT !.quiet = FALSE]
       /\ job' = [job EXCEPT !.todo = Tail(@), !.hinted = TRUE,
                             !.was = service = "active" /\ answer]
  /\ UNCHANGED <<system, jobs, users>>

(* ResolveKernelWasRunning: the hint of the script before a probe.          *)
Snapshot_IgnoresHint ==
  /\ Now("snapshot")
  /\ job' = [job EXCEPT !.todo = Tail(@), !.was = Probe]
  /\ UNCHANGED <<system, jobs, faults, users, past>>

Snapshot ==
  /\ Now("snapshot")
  /\ job' = [job EXCEPT !.todo = Tail(@), !.was = IF job.hinted THEN @ ELSE Probe]
  /\ UNCHANGED <<system, jobs, faults, users, past>>

(* systemctl is-active, then stop, whose ExecStop removes the TUN rules;    *)
(* when it cannot, that is a warning. A service that waits for its restart  *)
(* is not active.                                                           *)
Check ==
  /\ Now("check")
  /\ Done
  /\ IF service = "active"
     THEN /\ service' = "inactive" /\ Gone
          /\ \/ env' = env \ {"tun"} /\ UNCHANGED faults
             \/ "tun" \in env /\ Fault /\ UNCHANGED env
     ELSE UNCHANGED <<service, ready, runs, kernel, env, faults>>
  /\ past' = [past EXCEPT !.dodged = @ \/ service = "waiting"]
  /\ UNCHANGED <<binary, unit, loaded, enabled, groups, jobs, users>>

(* ensureIPCAuthorizationGroups                                             *)
Groups ==
  /\ Now("groups")
  /\ Done
  /\ groups' = TRUE
  /\ UNCHANGED <<binary, unit, loaded, enabled, service, ready, runs, kernel, env, jobs,
                 faults, users, past>>

(* installBinaryAtomically, and the cp and mv of the script.                *)
Replace ==
  /\ Now("binary")
  /\ Done
  /\ binary' = "new"
  /\ UNCHANGED <<unit, loaded, enabled, groups, service, ready, runs, kernel, env, jobs,
                 faults, users, past>>

(* os.Create and Execute: the unit is written in place.                     *)
WriteUnit ==
  /\ Now("truncate") \/ Now("write")
  /\ Done
  /\ unit' = IF Now("truncate") THEN "torn" ELSE "whole"
  /\ UNCHANGED <<binary, loaded, enabled, groups, service, ready, runs, kernel, env, jobs,
                 faults, users, past>>

Reload ==
  /\ Now("reload")
  /\ Done
  /\ loaded' = unit
  /\ UNCHANGED <<binary, unit, enabled, groups, service, ready, runs, kernel, env, jobs,
                 faults, users, past>>

(* systemctl enable; disable, if there is a unit.                           *)
Enable ==
  /\ Now("enable") \/ Now("disable")
  /\ Done
  /\ enabled' = IF Now("enable") THEN TRUE ELSE enabled /\ unit = "none"
  /\ UNCHANGED <<binary, unit, loaded, groups, service, ready, runs, kernel, env, jobs,
                 faults, users, past>>

(* systemctl start: nothing to do for a service that runs.                  *)
Start ==
  /\ Now("start")
  /\ Done
  /\ service' = IF service = "active" THEN service ELSE Started
  /\ runs' = IF service = "active" THEN runs ELSE binary
  /\ UNCHANGED <<binary, unit, loaded, enabled, groups, ready, kernel, env, jobs, faults,
                 users, past>>

(* RestoreKernelIfNeeded: once the daemon answers, unless the kernel runs.  *)
(* A failure is a warning.                                                  *)
Restore(works) ==
  /\ Now("restore")
  /\ Done
  /\ IF works
     THEN /\ job.was => ready
          /\ kernel' = (kernel \/ job.was)
          /\ env' = IF kernel' /\ ~kernel THEN env \cup {"tun"} ELSE env
          /\ UNCHANGED <<faults, past>>
     ELSE /\ job.was /\ Fault
          /\ past' = [past EXCEPT !.quiet = FALSE]
          /\ UNCHANGED <<kernel, env>>
  /\ UNCHANGED <<binary, unit, loaded, enabled, groups, service, ready, runs, jobs, users>>

CleanEnvironment_TunOnly ==
  /\ Now("clean")
  /\ Done
  /\ env' = env \ {"tun"}
  /\ UNCHANGED <<binary, unit, loaded, enabled, groups, service, ready, runs, kernel, jobs,
                 faults, users, past>>

(* CleanupEnvironment: the blocks in the users' shell files, and the rules. *)
(* What cannot be removed stays, and is a warning.                          *)
CleanEnvironment ==
  /\ Now("clean")
  /\ Done
  /\ \/ env' = {} /\ UNCHANGED <<faults, past>>
     \/ /\ env' \in SUBSET env \ {{}}
        /\ Fault
        /\ past' = [past EXCEPT !.warned = TRUE]
  /\ UNCHANGED <<binary, unit, loaded, enabled, groups, service, ready, runs, kernel, jobs,
                 users>>

(* Each file is removed if it is there.                                     *)
Remove ==
  /\ Now("unlink") \/ Now("erase")
  /\ Done
  /\ unit' = IF Now("unlink") THEN "none" ELSE unit
  /\ binary' = IF Now("erase") THEN "none" ELSE binary
  /\ UNCHANGED <<loaded, enabled, groups, service, ready, runs, kernel, env, jobs, faults,
                 users, past>>

End ==
  /\ job # NoJob /\ job.todo = <<>>
  /\ job' = NoJob
  /\ past' = [past EXCEPT !.result = job.kind]
  /\ UNCHANGED <<system, jobs, faults, users>>

(* A step fails before it does anything, or the job is killed.              *)
Abort ==
  /\ job # NoJob
  /\ Fault
  /\ job' = NoJob
  /\ UNCHANGED <<system, jobs, users, past>>

Next ==
  \/ BecomeReady \/ DaemonDies \/ Restart \/ UseKernel
  \/ \E kind \in {"script", "install", "uninstall"} : Begin(kind)
  \/ Look \/ Snapshot \/ Check \/ Groups \/ Replace \/ WriteUnit \/ Reload \/ Enable
  \/ Start \/ CleanEnvironment \/ Remove \/ End \/ Abort
  \/ \E works \in BOOLEAN : Restore(works)

Spec == Init /\ [][Next]_vars
-----------------------------------------------------------------------------
TypeOK ==
  /\ binary \in {"none", "old", "new"}
  /\ unit \in {"none", "torn", "whole"} /\ loaded \in {"none", "torn", "whole"}
  /\ service \in {"inactive", "active", "waiting"}
  /\ kernel => ready
  /\ ready => service = "active"
  /\ (runs # "none") = (service = "active")
  /\ env \subseteq {"tun", "shell"}

(* An installation that ends without an error leaves the kernel running if  *)
(* and only if it ran before, and the block in the shell files where it     *)
(* was; and if the service was not waiting for a restart when it looked,    *)
(* what runs is what has been installed. Provided that meanwhile the daemon *)
(* did not die, nobody used the kernel, the probe of the script was right,  *)
(* and the kernel's restore did not fail: that is a warning (quiet).        *)
UpgradeIsTransparent ==
  past.result \in {"script", "install"} /\ past.quiet
    => /\ kernel = past.kernel
       /\ ("shell" \in env) = past.shell
       /\ ~past.dodged => service = "active" /\ runs = "new"

(* An uninstallation that ends without an error, also one repeated after it *)
(* had failed halfway, leaves no file and no service, and no rule and no    *)
(* block either unless removing one of them failed, which CleanupEnviron-   *)
(* ment only warns of. Not so for a service that was waiting for a restart  *)
(* when it looked.                                                          *)
UninstallIsComplete ==
  past.result = "uninstall" /\ ~past.dodged
    => /\ binary = "none" /\ unit = "none" /\ loaded = "none" /\ ~enabled
       /\ service = "inactive" /\ ~kernel
       /\ past.warned \/ env = {}
=============================================================================
