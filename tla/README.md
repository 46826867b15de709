# mihomo-tui verification

TLA+ models, model-checking runs and machine-checked proofs for mihomo-tui, a
terminal manager for the mihomo proxy kernel (Go, under `src/`). A daemon owns the
configuration, the subscriptions, the kernel binaries and the kernel process; the
text interface (TUI) and the command line talk to it over a Unix socket. The parts
that are hard to get right are the daemon's: several request handlers, a scheduler,
a worker and one goroutine per kernel share the configuration, files, a process and
the host's routes, and any of their steps may fail.

Contents: [inventory](#1-inventory), [plan](#2-plan), [modules and the
code](#3-modules-and-the-code), [runs](#4-runs), [bounds](#5-bounds),
[fairness](#6-fairness), [proofs](#7-proofs), [findings](#8-findings), [what is only
model-checked or not modelled](#9-limits). File names without a directory are in
`src/mihomotui/`.

## 1. Inventory

### How the parts interact

```
TUI sessions, CLI ---- Unix socket, HTTP ----> request handlers      scheduler
      |                (ipc_auth)                 |  commit             |  refresh
      |                                           v                     v
      |                         configuration store (configMu, config.yaml)
      |                                           |
      |                          reconcileCh (queue of 16), one worker
      |                                           |  generate, reload, restart
      |                                           v
      |     kernel's config.yaml          kernel process manager (p.mu) --- kernel
      |                                           |                          ^
      |                                  TUN return-path routing          binary
      |                                  (lock file, state file)             |
      +-- system proxy, preferences                                 kernel versions
          (files of the user)                                       (bin/versions)
```

### Components

| Component | State | Operations | What is hard | What makes it correct |
|---|---|---|---|---|
| Configuration store (`config_store.go`, `config.go`, `ipc_client.go`) | snapshot in memory, `config.yaml`, its temporary file, `configMu`, a version | load, commit (write, rename, chmod, replace), read, submit with a version, retry | sessions submit whole configurations they read earlier; commits fail half way; the daemon dies | no edit is undone, nothing committed is lost, only valid configurations are in force |
| Kernel process manager (`mihomo_process.go`) | `running`, `cmd`, the `exited` channel, `p.mu`, one waiting goroutine per kernel | Start, Stop, Restart, exit | the lock is released in the settle window and while waiting for an exit; one value for several receivers | one kernel at a time, routes have an owner, every call ends |
| Reconciler (`reconcile.go`, `daemon_handlers_config.go`, `mihomo_config.go`) | queue, worker, the kernel's configuration file, what the kernel has loaded | commit and queue, generate, reload or restart, install or remove routes, report | the order of requests differs from that of commits; the start handler generates beside the worker; handlers give up | the file ends at the newest commit and is whole; success means loaded; TUN never runs without routes |
| Subscriptions and pools (`daemon_handlers_subscription.go`, `daemon_handlers_pool.go`, `subscription_pool.go`, `subscription_scheduler.go`) | subscription records, pools with members, active member and mode, cache files, failure counts | import, refresh, failover, disable, delete, pool edits, scheduler ticks | fetches take long and run beside edits of the same records; failover is a second commit | the kernel uses what the pools say; a failing source is left; pools keep an active member |
| TUN return-path routing (`tun_routing_linux.go`) | a route, policy rules, a firewall table or chains, the state file, a lock file | setup with verification and rollback, cleanup, from daemon, command line and `ExecStop` | every command may fail, the process may die between two, others use the same names | all that is left is described by the state file; success means done; foreign objects stay |
| Kernel versions (`mihomo_versions.go`, `daemon_handlers_mihomo.go`) | binaries, the drop folder, the catalog, the active version, the download progress | download, upgrade, activate with restart and rollback, delete, import, refresh | downloads report into one record; an activation may be taken back later | the active version is installed; progress ends; the kernel runs the active version |
| Daemon lifecycle (`daemon.go`, `socket_path.go`, `ui/app.go`) | sockets and their names, server, the daemon a TUI has started | start, serve, find or start a daemon, shut down | a start removes the name of a live daemon's socket; whoever answers is taken for the child | a TUI shuts down its own daemon and no other |
| IPC authorisation (`ipc_auth.go`, `socket_path.go`) | owner, groups, roles | decide the role of a caller and what it may ask; choose a socket | group membership changes; two sockets | each request needs the role it is given |
| Rule providers and built-in rules (`daemon_handlers_ruleprovider.go`, `builtin_rules.go`, `ui/rules.go`) | rule subscriptions, built-in and custom rules, the copies on the pages | import, refresh, delete, seed once, edit, move, reset | edits name places of an old page; fetches run beside edits; deletion does not reconcile | an edit is of the rule its user saw; the kernel's rules follow the records |
| Kernel configuration content (`mihomo_config.go`, `config_validate.go`) | none (pure) | assemble rules and groups; validate | order and references | MATCH is last, groups exist |
| Service installation and kernel restore (`kernel_restore.go`, `cmd/`, `scripts/`) | systemd unit, binary, groups, a remembered flag | install, upgrade, uninstall, restore the kernel | probes before a stop are used after a start; jobs are killed half way; systemd restarts on its own | the kernel runs after an upgrade as it did before; a removal is complete, also the second time |
| System proxy and preferences (`system_proxy*.go`, `preferences.go`) | preference file, blocks in shell files, session environment | switch, reconcile, stop, clean | several processes with cached preferences; files rewritten in place; partly failing writes | the user's lines stay; a switch does all it says; off stays off |
| Proxy page (`ui/proxy_state.go`, `ui/proxy.go`) | groups, cursor, page, delays, running tests | merge, test, stop, sort, page | refreshes and tests finish in any order, for a hidden page too | refreshing moves nothing; no mark of a test stays |
| External resources (`external_resources.go`) | two Geo files, last errors | download, scan, set URL | a download replaces before it validates | a valid file is never lost |
| Kernel API client, IPC transport, subscription content, other pages, display, languages, logging | copies, caches, text | requests, parsing, formatting | little | see [limits](#9-limits) |

All but the last two rows are modelled, each with the parts named in its `note` left
out. `PROJECT.json` lists them with their sources, and under `hazards` the places that
are hard to test, with the properties that cover them.

## 2. Plan

The order puts what every user depends on first: no setting is lost, there is one
kernel, and the kernel follows the settings.

Written:

1. `AtomicConfig` (abstract) and `ConfigStore`, which implements it.
2. `MihomoProcess`.
3. `Reconcile`, which EXTENDS `MihomoProcess`: its worker is one of the callers.
4. `SubscriptionPools`, where a commit and a reconciliation are one step each.
5. `TunRouting`, what `MihomoProcess` and `Reconcile` see as one flag, in full.
6. `KernelVersions`, with Start and Stop as single steps.

7. `ShellFiles` and `SystemProxy`.
8. `ProxyPage`.
9. `Daemon`.
10. `Installation`.
11. `KernelRules`, with the assembly of the rules as an operator.

The last five share no state with the kernel process and are put side by side in
`Surroundings`.

Next, in this order:

12. A theorem: that one `TunRouting` implements the flag `rules` of `MihomoProcess`.
13. `GeoResources`: the downloads of the two Geo files, which share one temporary
    file with each other and are validated after the rename.
14. `Daemon` composed with `MihomoProcess`: kernels that outlive their daemon, and a
    second daemon with a process manager of its own.

## 3. Modules and the code

`PROJECT.json` maps each definition to its lines. Modules named `MC...` hold the
values of constants for TLC; modules named `...Proofs` hold proofs.

### ConfigStore, AtomicConfig

`mem` is `globalConfig`, `disk` is `config.yaml`, `tmp` its temporary file,
`configMu` the holder of the write lock. `Start`, `StartFresh` and `StartUnreadable`
are the three outcomes of `LoadConfig`. A session's `sess` is the client side of
`MutateServerConfig`: `ReadConfig` and `ReadCredentials` are two requests, between
which a commit may fall (`BaseVersion` keeps the older version), `Receive` takes the
answer and retries once after a conflict, `GiveUp` is the client's timeout, after
which the daemon may still commit. `Replace` is the handler of PUT `/config`:
version check, `Merge` of what a root daemon never takes from a client, validation.
`Update` is `UpdateGlobalConfig`. `WriteTmp`, `RenameTmp`, `Publish` and the actions
that end in `Fails` are the steps of `Flush` and `commitConfigLocked`; `Crash` may
fall between any two. A configuration is a function from a few fields to values;
the rules of `Validate` are the constant `Valid`; `Empty` is the empty secret, which a
submission does not set (`Keeps`).

`AtomicConfig` is the promise: one versioned configuration, replaced by valid ones,
one edit at a time. `InForce` is the refinement mapping: the snapshot in memory
while the daemon lives, the file while it does not.

### MihomoProcess

One caller is a goroutine in Start, Stop or Restart (`op`). `LockStart` to `Spawn`
hold `p.mu` (`mu`); the settle window (`SettleExited`, `SettleOver`) and the waits of
Stop (`Receive`, `TermTimesOut`, `KillTimesOut`) do not. A kernel goes through
`unborn, alive, dead, waited, marked, cleaned, done`: it dies, `cmd.Wait` returns
(`Reap`), `running` becomes false under the lock (`Mark`), the routes that this Start
installed are released (`Cleanup`), and one value is posted (`Notify`). `exited` is
the set of kernels whose channel holds its value. Of the routes `rules` says whether they
are there and who installed them. `Toggle` is a commit that turns TUN on or off; the steps
that the reconcile worker takes for it (`WorkerChecks`, `WorkerInstalls`, `WorkerRemoves`,
`WorkerGivesUp`, with `sync` between them) change the routes while kernels run, start and
exit.

### Reconcile

A commit (`Commit`) is one step with a version and `system.tun`; then the handler
queues (`Enqueue`, a separate step, as in the code) and waits, or gives up
(`PostTimesOut`). The worker takes a request, takes a snapshot, generates through
`Open`, `Write` and `Rename` of the shared temporary file, installs routes, reloads
or restarts, removes routes, and reports; `gen` holds each run of
`GenerateMihomoConfig`, also that of the start handler. Each of its steps may fail in a
way of its own: `GenFails` before anything is written, `WriteFails` after the temporary
file was cut, `RenameRefused` (which removes the temporary file), `RenameFails` when the
other generation has taken it away, `ChmodFails` after the file has been replaced. A file
is missing, empty, whole, or torn, when a write was cut short or two writers wrote
different contents to one file.

### SubscriptionPools

Each handler and the scheduler is a process with a list of subscriptions to refresh:
`Fetch` (no lock), `CommitContent`, `CommitFailure` or `CommitNothing`, `Failover`
(a second commit), `Apply` (the reconciliation, generating from the newest commit).
`Imported`, `Saved`, `Removed`, `FailedOver` are the functions given to
`UpdateGlobalConfig`, `Valid` the part of `Validate` about pools, `Providers` the
caches that `GenerateMihomoConfig` hands to the kernel. A content is a number, 0 for
none; a digest is the number of the content it was computed of.

### TunRouting

Processes exclude each other with the lock file and run `setupTUNRoutingLocked` or
`cleanupTUNRoutingLocked` command by command; `sys` holds the objects on the host,
each with its owner, `file` the state file. `Crash` ends a process and frees its lock,
`Reboot` empties `sys` and keeps `file`; `AddForeign` is another program that uses the
same table, priorities or name, `AddAlike` one whose route or rule is the same as the
program's, `ChangeGateway` and `ChangeTools` the host's changes. An add that finds the like
of its object in place takes it for its own, as in the code: `theirs` and `taken` are
history, the identical objects of others that the program has no claim to, and those that
came where it had one.
A setup calls the cleanup first and again to roll back, so both share their actions,
and `after` says where it continues.

### KernelVersions

A task is a request handler or the goroutine of a download. `opMu` is
`mihomoVersionOpMu`, `progress` the record behind the progress request: `Lookup`,
`Transfer`, `Extract`, `Install` report through the callback, `Report` is the
goroutine's own last write. `Activate` commits under `opMu`; `RestartStop` and
`RestartStart` follow without it if the kernel ran when the request began, and
`Undo` commits the old version again. `store` tells a directory without a binary
from a full one, because the two are listed and deleted differently; a removal that fails
may leave either.

### ShellFiles, SystemProxy

A shell file is a sequence of lines: the markers, one line for the eight exports of a
port, one for the guard of interactive shells, and lines of the user. `Strip` and
`Upsert` are `stripSystemProxyBlock` and `upsertBlockInFile`, line by line. `procs`
holds what each process has cached of the preference and the port, `tasks` the
goroutine that works through the steps of an operation (`Plan`). A file is read, cut and
filled in three steps; the preference is replaced by a rename, one step. A preference that
cannot be read when a process first needs it is cached as off and not read again (`Reads`),
which `stale` remembers. `Toggle`,
`StopFromDashboard`, `ChangePort`, `SetLanguage` are a TUI's, `RunMihomoStart`,
`RunMihomoStop`, `Cleanup` the command line's. That blank lines around a block are
swallowed is layout and left out.

### Daemon

`socket` maps each name to the daemon that bound it last, dead or alive. A daemon goes
through `RemoveSocket`, `Listen`, `Serve`, `Stop`; a TUI through `EnsureDaemon`, `Launch`,
`Ready`, `Sync`, `Connect`, `Quit`. `Dial` is what a client meets at a name, `Role` and
`Allowed` what `ipc_auth.go` decides. A TUI ends in order (`Quit`, at "left"), or it runs out of
time, fails to fetch the configuration or is killed (`OutOfTime`, `Sync`, `Killed`, at
"gone"); only the first shuts its daemon down. `pool` holds the daemons to which the client keeps
connections open, since a daemon that has lost its name still serves those.

### Installation

A job is the list of steps of the script, of `install_service` or of `uninstall`
(`Plan`), and may end after any of them. systemd is modelled as far as the code relies
on it: what it has loaded, whether it restarts the service, and that the kernel ends with
the service. What an `ExecStop` or an uninstallation cannot remove of rules and shell
blocks is only warned of (`Check`, `CleanEnvironment`). `was` is the remembered state of the kernel, `hinted` says that the script
has passed its own.

### KernelRules

`cfg` is the part of the configuration about rules, `page` the copy each TUI shows and
the edit it is about to commit. `Change` applies an edit to the newest configuration,
`Valid` is the part of `Validate` about rules, `Build` is `buildRuleConfig`. A commit with
its retry and a run of the reconciler are one step each.

### ProxyPage

`view` is `proxyViewState` and its operators are that file's methods. `batches` and
`singles` are the goroutines of the two kinds of tests, which hand their results to the
page when they like; `BatchAnswers` and `BatchCloses` are the two calls of
`QueueUpdateDraw` at the end of a group's test. What the kernel answers is any of
`Answers` and `Delays`.

### Surroundings

It holds the instances of the last five, one per value of `part`. They share the
variables `s1` to `s15`, and a behaviour stays in the part it began in, so that the one
run is five independent checks. `MCSurroundings` gives its constants their values.

### Where the models meet

`Reconcile` contains `MihomoProcess` entirely. `ConfigStore` shows that a commit is
atomic and versioned, which is what the one-step commits of `Reconcile`,
`SubscriptionPools` and `KernelVersions` assume; the exception is a commit that fails
after its rename (the file is new, memory is old until the next start), which
`DiskNeverBehind` allows and `AtomicSpec` counts as committed when the daemon dies. `Reconcile` shows that the newest
commit is generated whatever handlers do, which is what `Apply` of
`SubscriptionPools` assumes. `TunRouting` shows what a success or a failure of setup
and cleanup means, which `MihomoProcess` and `Reconcile` see as `rules`.

## 4. Runs

Runs that pass:

| run | module | properties | what it shows |
|---|---|---|---|
| config_store | MCConfigStore | `StoreIsSound`, `ValidInForce`, `DiskNeverBehind`, `NoLostUpdate`, `AtomicSpec`, `MutationEnds` | Two sessions and one daemon writer edit a three-field configuration with a failing write or rename, a failing chmod, a crash and a start that cannot read its file: nothing committed is lost, and as long as the file is readable no update is undone and the store implements the atomic store; every edit comes to an end. |
| process | MCMihomoProcess | `OneKernel`, `RulesAreOwned` | Two callers start, stop and restart concurrently, without a bound on their calls, while a commit turns TUN on or off and the reconcile worker installs or removes the routes for it, kernels crash, ignore SIGTERM and are reaped late: there is never a second kernel, and routes that a Start installed always have an owner. |
| process_live | MCMihomoProcess | `CallsEnd`, `DeathIsNoticed` | Every Start, Stop and Restart of two competing callers ends, also when the exit notification went to the other caller, and a dead kernel does not stay marked as running. |
| reconcile | MCReconcile | `FilesAreSound`, `SettledIsRight`, `FileGoesForward`, `CommitsAreGenerated` | Two handlers that may give up waiting commit twice through a queue of one, with one generation that fails at any of its steps (nothing to generate, the write cut short, the rename or the chmod refused), one refused reload and one failed installation of routes: the kernel's file is always whole, never goes back, ends at the commit made last if no generation failed, and every commit reaches the file; a kernel that has loaded TUN ends with its return routes if the requests were queued in commit order and nothing failed but the reload. |
| reconcile_users | MCReconcile | `WorkIsCurrent` | While a user starts, stops and restarts the kernel beside the worker and a reload may be refused, the worker generates from a configuration at least as new as its request, and, until the start handler has written the file itself, a report of success means that the running kernel has loaded the commit. |
| pools | MCSubscriptionPools | `RecordsAreTrue`, `RuntimeFollowsPools`, `PoolsStayUsable` | A handler and the scheduler refresh, import, delete and edit one or two pools concurrently, while a provider changes or a commit fails: whenever nothing is left to reconcile the kernel uses exactly the newest caches that the pools ask for, every right edit is accepted, and every pool with members keeps an active one. |
| pools_live | MCSubscriptionPools | `FailoverHappens` | Providers go down and come back, a commit fails and a member is turned off: a failing active source is left for a member that is served. |
| tun | MCTunRouting | `TypeOK`, `LeftoversAreKnown`, `SuccessIsReal`, `ForeignIsKept`, `Recovers` | Two processes set up and clean up while commands fail, processes die, the machine restarts, and the gateway, the firewall commands and objects of other programs change, some of which are identical to the program's own: everything in place is described by the state file, success means done, routes and rules of others stay unless their like was already claimed, and cleanups that are tried again end with nothing left. |
| versions | MCKernelVersions | `ActiveIsInstalled`, `ProgressIsTrue`, `ActivationTakesEffect`, `TasksEnd` | Two tasks download, upgrade, activate, delete, import and refresh while users start and stop the kernel, and a step fails, a removal included that leaves half of a version: the selected version keeps its binary, the progress never claims a download that nobody does, an activation leaves the selected version running, and every request and download ends. |
| surroundings | MCSurroundings | `TypesOK`, `UserTextKept`, `SwitchTakesEffect`, `StopIsRemembered`, `QuitSparesOthers`, `QuitEndsItsDaemon`, `UpgradeIsTransparent`, `UninstallIsComplete`, `KernelFollowsRules`, `MarksEnd`, `EditIsOfItsRule`, `RefreshMovesNothing` | Five parts that share no state, each from its own initial states: two processes switch, stop, move the port of and clean up the system proxy while writes fail and processes are killed; TUIs of four kinds of users meet or start daemons beside one by hand and the service; installations, upgrades and removals are killed or fail at any step while the daemon dies and the kernel is used; two TUIs edit the rules from old pages while rule subscriptions are imported, refreshed and deleted; and the proxy page refreshes, tests, stops, hides and moves while answers arrive in any order. |

Runs in which TLC finds the property violated:

| run | module | property | what it shows |
|---|---|---|---|
| process_race | MCMihomoProcess | `RulesProtectKernel` | With two callers the failure path of one Start, which releases the routes after p.mu is unlocked, removes the routes of the kernel that the other Start has just launched. |
| reconcile_stale | MCReconcile | `FileGoesForward` | The start handler generates from a snapshot outside the queue and overwrites a newer file. |

Several properties hold only as long as something does not happen: they then name a
counter of faults or a history variable in their premise, and one run covers the
behaviours with and without it. The premises, and what happens without them, are in
[section 8](#8-findings). The runs that expect a violation are findings as well.

`CHECK_DEADLOCK FALSE` stands where the environment's requests are bounded by a
counter and the system rightly rests when they are used up: ConfigStore (edits),
SubscriptionPools (edits and outages, and no more due refreshes once nothing changes),
KernelVersions (requests), Reconcile (commits)
and all parts of Surroundings (requests, starts, jobs, edits, refreshes and tests). In MihomoProcess and TunRouting calls
are not bounded, and deadlock is checked.

## 5. Bounds

Every bound is a constant that starts with `Max` or is named as one where it is
declared, and appears only in the guard of the action it limits.

- Two sessions and one daemon writer, two edits, one fault of each kind and one crash:
  a lost update takes two edits, one of them behind a retry. Three fields, one each of
  those that are edited, delivered apart (the secret) and kept by the daemon (the
  path), with a validation that two valid edits violate together.
- Two callers of the process manager and two kernels: every pair of operations
  interleaves, and a second kernel is what a missing exclusion would show. The
  liveness run has one kernel, since a call's end depends on one exit. One commit flips TUN,
  in either direction, for the worker to follow. Removals of routes may fail in the liveness
  run only: `RulesAreOwned` is stated for those that succeed.
- Two handlers, two commits and a queue of one: one request is in the worker and one
  queued, so that the order of requests can differ from that of commits. A longer queue
  delays more but orders no more. In the run with users one commit meets a user's
  start, stop and restart. One fault of each kind: a generation that fails at any step, an
  installation of routes, a reload.
- Two subscriptions and two pools of at most two members: stealing a member from
  another pool, losing the active member and an empty pool all occur. Contents 1 and
  2 tell old from new. The threshold of three failures is 1, or 2 in the liveness run.
  `Cases` gives each initial configuration what may happen to it: two edits; an import
  and an outage; a member turned off; outages; an edit, an outage and a failed commit.
- Two routing processes, two gateways, two setups that write a state file, two failing
  commands and one death or restart: a failure, one in its rollback, and a crash
  between them or in the next attempt. One change of the surroundings: another gateway, or a
  route, rule or table of another program, identical to the program's or not.
- Two versions and two tasks, three requests, at most one of them begun while the other
  task is at work (`MaxOverlaps`), and one failing step. One fault is what it takes to
  enter the rollback, and a failed rollback needs the interference of the other task,
  not a second fault; kernels may also exit.

- Two processes with one goroutine each, two shell files and three operations on the
  system proxy with one fault: a stop, a start and a change of the port in between, or
  two switches that overlap. The homes hold a block of an older port above and below
  lines of the user, a block that has lost its end, and no file at all.
- Two TUIs, their two daemons, one daemon by hand and the service, one start from
  outside and one fault, for each of the four kinds of users: every two starts cross,
  and names lead to dead daemons.
- Three jobs, two faults and two uses of the kernel: a job that fails half way, its
  repetition, and one that finds what both have left.
- Two TUIs, two edits or requests and three built-in rules: an edit from a page older
  than the other's edit is what a place without an identity breaks.
- Two refreshes, two tests, two moves, groups of up to three nodes that come, go and
  change their order, one or two cards to a page: a test that is stopped, begun again
  and answered late, and a page hidden in between.

Symmetry is used only over the callers of MihomoProcess in the runs without liveness.

## 6. Fairness

Fairness is given only to what the Go runtime, the kernel of the system or the clock
guarantees:

- goroutines that can run do run (weak fairness), and a goroutine that waits for a
  mutex gets it although others compete (strong fairness; Go's mutexes hand over
  to waiters that starve);
- a blocked send or receive on a channel is served in turn when the channel has room
  or a value again and again (strong fairness);
- timers fire: the timeouts of Stop, of the handler and of the client;
- a process that got SIGKILL dies. About SIGTERM nothing is assumed in MihomoProcess;
  in Reconcile (`Slow = FALSE`) kernels obey it, as Stop's timeouts are left to
  MihomoProcess. Nothing is assumed about crashes, about users or about providers, and
  a command that may fail need not succeed;
- in `SubscriptionPools`, time passes, so that a subscription that can become due is
  in some tick again and again;
- in `TunRouting`, a cleanup is asked for again and again. This is an assumption
  about the surroundings, not the code: `ExecStop`, the exit of a kernel, the next
  setup and `mihomo-tui cleanup` all ask for one, and the property says what they
  achieve if something asks.

The parts of Surroundings are checked for safety only and assume no fairness.

## 7. Proofs

TLAPS checks every proof to its leaves (SMT, Zenon, and PTL for temporal steps). The
theorems hold for every value of the constants under the named assumptions of the modules,
which TLC evaluates on every run. Most of these only say what sets the constants come
from. The ones that say more, and why:

- `ReconcileAssumption`: there is room for one kernel (`MaxKernels # 0`), since one may run
  at first; the queue has room for a request (`reconcileCh` is made with 16);
- `TunAssumption`: `None` and `Foreign` are told apart from what they stand beside, and
  the chains of `iptables` carry the program's own names;
- `PoolAssumption`: there are finitely many subscriptions, and the initial pools have an
  active member if they have members, as the migration in `LoadConfig` leaves them;
- `SurroundingsAssumption`: each TUI has a daemon process of its own, none of them one that
  was started by hand or as the service; the ids of the built-in rules differ,
  and the defaults are what `Validate` accepts, as `defaultBuiltInRules` makes them: numbered,
  none empty, MATCH last; the form of the custom rules offers no MATCH (`customRuleTypes`), and
  those of an older version are rules of the form; there is a port, no line with the exports of a port is a marker, and a missing file is no text; no task
  of a process has one of the two names that stand for none; the groups of an
  answer come from a map, so their names differ, and so do the names of the nodes of one group
  (the kernel's own rule for a configuration it accepts).

Where a property of a run says more than can be proved, or the run has fewer actors than
the module, the theorem says so in its statement: `Starters = {}` (nobody uses the start
handler), `Alone` (nobody but the worker starts and stops kernels, and these obey SIGTERM,
as in the run `reconcile`), `~aside` (the start handler has not generated yet), `genFaults = 0`
and `deaths = 0` (no generation has failed, no kernel died unasked).

| module | theorem | property | what it establishes |
|---|---|---|---|
| ConfigStoreProofs | `TypeCorrect` |  | Every variable of the store keeps its type, for every number of sessions, writers, fields and faults. |
| ConfigStoreProofs | `Validity` | `ValidInForce` | Memory and disk only ever hold configurations the validation accepts, whatever fails. |
| ConfigStoreProofs | `Soundness` | `StoreIsSound` | Types and the inductive invariant together, for every number of sessions, writers, fields and faults. |
| ConfigStoreProofs | `Invariance` |  | The inductive invariant: the lock, the prepared commit, and, as long as starts read the file, what memory, file and every session's snapshot have to do with each other. |
| ConfigStoreProofs | `Durability` | `DiskNeverBehind` | No crash or failed commit loses a committed configuration: the file is never behind the snapshot in memory, whatever fails. |
| ConfigStoreProofs | `NoUpdateIsLost` | `NoLostUpdate` | The version check makes the commit of an old snapshot an edit of the newest configuration. |
| ConfigStoreProofs | `Refinement` | `AtomicSpec` | The store with its lock, files, crashes and sessions implements the atomic versioned store, and after an unreadable file one that is still valid. |
| MihomoProcessProofs | `TypeCorrect` |  | Every variable of the process manager keeps its type, for any number of callers and kernels. |
| MihomoProcessProofs | `Inductive` |  | The inductive invariant of the process manager. |
| MihomoProcessProofs | `OneKernelAtATime` | `OneKernel` | No interleaving of Start, Stop, Restart and exits lets two kernels live. |
| MihomoProcessProofs | `RoutesAreOwned` | `RulesAreOwned` | As long as no removal fails, routes that a Start has installed belong to that Start on its way or to a kernel whose goroutine will remove them, also while the reconcile worker installs and removes routes as TUN is turned on and off. Nothing is said of the routes the worker installed for a kernel started without TUN, which may have no owner. |
| ReconcileProofs | `ReconcileInductive` |  | The inductive invariant of the daemon with its queue, worker, handlers and kernel process, for any number of each. |
| ReconcileProofs | `ReconcileTypes` |  | Every variable keeps its type. |
| ReconcileProofs | `OneReconciledKernel` | `OneKernel` | The handlers and the worker beside them never run two kernels. |
| ReconcileProofs | `SoundUntilAside` | `FilesAreSound` | Until the start handler has written the file beside the queue, the kernel's file is missing or whole, and everything keeps its type. |
| ReconcileProofs | `Sound` | `FilesAreSound` | Without users who start the kernel, the files are always sound. |
| ReconcileProofs | `WorkStaysCurrent` | `WorkIsCurrent` | The worker never generates from less than its request, and what it reports as applied the running kernel has loaded, also with users who start, stop and restart the kernel. |
| ReconcileProofs | `LatestUntilAside` |  | When nothing is left to do, the file is that of the newest commit, unless a generation has failed or the start handler has written beside the queue. |
| ReconcileProofs | `ForwardUntilAside` |  | The file never goes back to an older configuration as long as the start handler has not written it. |
| ReconcileProofs | `Forward` | `FileGoesForward` | Without users who start the kernel, the file never goes back. |
| ReconcileProofs | `SettledRight` | `SettledIsRight` | For a worker that is alone with the kernel and a kernel that does not die unasked, with any number of handlers, commits and failures: once everything queued is done and no generation has failed, the file is that of the newest commit; and if, besides, the requests were queued in commit order and every installation of routes succeeded, a kernel that runs with TUN has its return routes. |
| SubscriptionPoolsProofs | `Inductive` |  | The inductive invariant of subscriptions, pools, caches and handlers, for any number of subscriptions, pools and handlers. |
| SubscriptionPoolsProofs | `TrueRecords` | `RecordsAreTrue` | Records of caches agree with the files, whatever refreshes, imports and deletions overlap, as long as no commit fails. |
| SubscriptionPoolsProofs | `RuntimeFollows` | `RuntimeFollowsPools` | Whenever nothing is left to reconcile, the kernel uses exactly what the pools ask for, under the property's conditions. |
| SubscriptionPoolsProofs | `UsablePools` | `PoolsStayUsable` | Every edit of the pools is accepted by the validation, and a pool with members keeps an active one. |
| TunRoutingProofs | `TypeCorrect` | `TypeOK` | Every variable keeps its type, for any number of processes, gateways and restarts. |
| TunRoutingProofs | `Leftovers` | `LeftoversAreKnown` | Whatever fails, dies or restarts, a route, rule, table or chain of the program is described by the state file, as long as the firewall commands stay the same. |
| TunRoutingProofs | `Success` | `SuccessIsReal` | A setup that reports success has everything in place that no other program has touched, and a cleanup that does has left nothing. |
| TunRoutingProofs | `ForeignKept` | `ForeignIsKept` | No step but a restart of the machine removes a route or rule of another program, also one that is identical to the program's own, unless it arrived where the program already had a claim: after the check of a setup that is under way, or while the state file describes the like of it. |
| KernelVersionsProofs | `Progress` | `ProgressIsTrue` | The progress says downloading only while a task is at it, so that no download is refused for ever, for any number of tasks and versions. |
| KernelVersionsProofs | `Selection` | `ActiveIsInstalled` | The selected version keeps its binary through downloads, imports, deletions and activations, as long as no activation is both overlapped and taken back. |
| KernelVersionsProofs | `Effect` | `ActivationTakesEffect` | An activation that nothing overlaps leaves the kernel on the selected binary or stopped, and one that is taken back ends at the old selection. |
| PagesProofs | `RulesFollowed` | `KernelFollowsRules` | When nothing waits to be applied, the kernel has the rules of the configuration, whatever imports, refreshes and edits overlap, unless a rule subscription was deleted or the last application failed. |
| ServiceProofs | `QuitIsOfMine` | `QuitSparesOthers` | A TUI that ends shuts down no daemon but its own, for any number of TUIs and of daemons by hand, as long as no start crosses another. |
| ServiceProofs | `QuitsEndTheirDaemons` | `QuitEndsItsDaemon` | A TUI that ends in order (its screen was left) has shut down the daemon it started, under the same condition. A TUI that ran out of time, could not fetch the configuration or was killed is not meant: it leaves its daemon running. |
| ServiceProofs | `UpgradesAreTransparent` | `UpgradeIsTransparent` | An installation during which the daemon did not die, nobody used the kernel, the probe was right and the restore of the kernel did not fail leaves the kernel and the shell files as they were, and runs the new binary unless the service was waiting for a restart, whatever jobs failed, died or were killed before it. |
| ServiceProofs | `UninstallsAreComplete` | `UninstallIsComplete` | An uninstallation that ends without an error, of a service that was not waiting for a restart, leaves no unit, no binary, no service and no kernel, however many had failed half way before; and no rule and no shell block, unless removing one of them failed, which the code only warns of. |
| ServiceProofs | `StopsAreRemembered` | `StopIsRemembered` | No process that starts after the system proxy was stopped writes its block into a shell file again, whatever writes failed and whoever was killed in between. |
| ServiceProofs | `UserTextStays` | `UserTextKept` | Whatever switches, reconciliations and cleanups overlap, fail and are killed, the user's own lines of a shell file stay in their order, for any texts; left out are files of which a write was cut short or overlapped, and those whose block had lost its end. |
| ServiceProofs | `SwitchesTakeEffect` | `SwitchTakesEffect` | A switch beside which nothing else ran and of which nothing failed has reached every shell file, and the preference too unless what the process had cached differed from the file (its first read failed, another process saved, or a save failed since), from any texts and after any faults, for any number of processes and tasks. |
| PagesProofs | `EditsAreOfTheirRules` | `EditIsOfItsRule` | An edit made on an old page changes the rule its user saw and no other, and no edit loses or doubles a rule, for any built-in rules with distinct ids and any number of pages. |
| PagesProofs | `MarksDoEnd` | `MarksEnd` | A node shown as being tested is being tested, in whatever order tests, stops, results, refreshes and group changes come and whatever the kernel answers; a group is left out once a result of it came while the page was hidden. |
| PagesProofs | `TypesHold` | `TypesOK` | Every variable of every part keeps its type; in particular the configuration stays one that Validate accepts, whatever edits from old pages, imports and deletions of rule subscriptions come, and a process that is not there has nothing under way. |
| PagesProofs | `NothingMoves` | `RefreshMovesNothing` | A refresh keeps the order of the cards, their marks, the group, the cursor and the page, whatever groups and nodes the kernel answers with. |

**ConfigStore.** `Validity` follows from a small invariant, `BaseInv`: who is in the
middle of a commit holds `configMu`, and what it is about to write has been
validated. `Durability` adds that version 0 on disk is always the default configuration
(`DurableInv`). Both hold with unreadable files too. `Soundness` states `StoreIsSound`, the
invariant that the run checks: `TypeOK` and the inductive invariant `IInv`, which the
other theorems need:

- `LockHeld`: at most one committer writes, and it holds the lock;
- `CommitPrepared`: what it writes has the version after that of memory and is valid;
- `CommitIsEdit`: and it is one edit away from memory;
- `DiskKnown`: the file is the configuration in memory or, after the rename, the one
  about to be published, so no crash can uncover anything else;
- `SnapshotsFresh`: a snapshot of a session with the version in force has the value
  in force. This is why a check of the version alone is enough to replace the whole
  configuration, and it is what a start from defaults breaks.

The last three conjuncts, and the properties that rest on them, are stated for
behaviours in which no start has found an unreadable file (`Intact`): such a start
begins again at version 0, and the abstract store then is no longer `intact` either.
Once lost, `Intact` never returns (`IntactBefore`), so each step of the proof may assume
it before and after. `Refinement` maps `Publish` (or
`RenameTmp` followed by a crash) to the abstract commit and all other steps to
stuttering; the crash case is where the mapping to the file matters.

**MihomoProcess.** `IInv` joins `TypeOK` with: a Start between its check and its spawn
holds `p.mu` and no kernel is unpublished (`StarterHoldsLock`); a kernel whose exit is
not yet published is `p.cmd` and `running` says so (`LiveIsTracked`); kernels are
spawned in order (`UnbornAfterCmd`); only a Start on its way holds routes
(`HeldOnTheWay`); a posted exit belongs to a goroutine that is done (`PostedWhenDone`);
and routes that a Start has installed belong, while no removal has failed, to that Start or to
a kernel whose goroutine will release them (`RulesAreOwned`); what the worker does to the
routes cannot take an owner away. Routes that the worker installed for a kernel started
without TUN have no owner, and the theorem does not speak of them. `OneKernel` follows: two live
kernels would both be `p.cmd`. The lemmas split the callers' steps into those that
neither touch a kernel nor `running` and the spawn, because the invariant is
disturbed by the latter and by the waiting goroutine alone.

**Reconcile.** `RInv` extends the invariant of MihomoProcess, whose lemmas it reuses: the
worker does one thing at a time (`OneThingAtATime`); no request and no content is ahead of
the configuration (`NothingIsAhead`), and a snapshot of the version in force is that
configuration (`SnapshotsAreTrue`); a snapshot is no older than the request it is taken for.
Until the start handler has generated, the worker finds in the temporary file what it has
written (`WritesAlone`) and in the kernel's file at least its request (`AppliedInv`), and the
newest commit is in a handler, in the queue, in a generation or in the file (`Pending`): that
is why taking the snapshot late makes the order of requests harmless. `FilesAreSound`,
`WorkIsCurrent`, `OneKernel` and `FileGoesForward` follow.

The last part of `ReconcileProofs` adds the routes, which depend on the order. `SInv` says of the kernel that
only the worker's own restart takes it down (`OnlyRestartStops`), of the requests that as
long as TUN is wanted one that turns it off is followed by one that turns it on
(`OffIsFollowed`), and of both that a kernel which is up without routes has them coming
(`RoutesAreComing`), and one with an older configuration is going to be loaded
(`LatestIsLoaded`). With users who stop and start kernels beside the worker the routes may be
removed under a new kernel, which is the finding of `process_race`; hence `Alone`.

**SubscriptionPools.** `PInv` joins the types with `Right` (what `Validate` accepts, with an
active member in every pool that has members), the caches of the records and the property
`RuntimeFollowsPools` itself, which is inductive with them. The bulk are lemmas that an edit
which the handlers do not reconcile leaves what the kernel is given unchanged (`Providers`),
and that `Imported`, `Saved`, `Removed` and `FailedOver` keep the pools right. What `Sublist`
computes is proved by induction over the length of the list, through the least length for
which it fails.

**TunRouting.** `IInv` says what a call knows at each step: who is not idle holds the lock
(`LockHeld`), whence steps of others disturb nothing; what the state file holds at each step
(`FileFollows`) and what has been put in place (`InPlace`), which gives the success of a setup.
`LInv` adds `LeftoversAreKnown`, that while the commands stay the same everybody uses the
same one (`SameCommand`), and what a cleanup without a failure has removed so far
(`CleanedSoFar`), which gives the success of a cleanup. `ForeignKept` rests on one more fact:
an identical route or rule of another program that came where the program had no claim
(`theirs`) is in the way of every setup and is never what the state file describes.

**KernelVersions.** `VInv`: who is between the first and the last step of a download,
a deletion or an import holds `opMu` (`LockHeld`), and a progress that says `downloading`
has a task that is going to end it. `UndoBudget` counts the activations that may still be
taken back. `SInv` adds that the selected version is installed and that what a deletion or an
import is about to remove is not selected (`Selected`); without overlaps a task is alone and
what its activation would go back to stays installed (`Alone`, `OnItsWay`).

**Surroundings.** The parts share variables, so each invariant is stated under its `part`.

- KernelRules: `KernelFollowsRules` is inductive; the assembly of rules stays folded, for
  only which configuration it is of matters. For the edits, `RInv` says of the configuration,
  and of what every page shows, that each built-in rule has one place (`Kept`), and of a
  pending edit that it names a place and a rule there are (`EditOK`); that the rule is still at
  that place does not hold. What saves an old edit is `Validate`: put at the place of another
  rule it would double an id (`EditRule`, `ResetRule`). Moves are swaps, so a custom rule
  is there as often as before by a bijection of its places (`SwapFacts`). That the
  configuration always is one that `Validate` accepts (`TypedRules`) has two reasons: an edit
  that it refuses is not committed, and what imports and deletions commit it never refuses, as
  they keep the names of the rule subscriptions apart (`ImportNames`, `DeleteNames`); this is
  why `Import` and `Delete` have no such guard.
- Daemon: `DInv` says that a name leads to a daemon of that name (`NamesLeadHome`) and, as long
  as no start crosses another, that live daemons have names of their own (`NamesAreOwn`), that
  the daemon of a TUI that waits is the only one alive (`ChildIsAlone`), and that one that runs
  reaches no other (`ClientHasChild`), so that one that ends in order shuts down its own. The second is why whoever answers may be taken for the
  child, and what a start beside it breaks.
- Installation: `IInv` says how far a job has got by the number of steps left (`OnPlan`), and
  for each number what is in place (`InPlaceSoFar`), that the service is stopped (`Stopped`),
  how the kernel relates to what it was (`KernelIsKept`) and what is removed (`RemovedSoFar`).
  A step moves a job from one number to the next (`Where`, `OneLess`); steps beside the job
  change only what these formulas leave open, or clear `quiet`. Nothing is assumed of the
  state a job begins in, so repetitions after a failure are covered.
- SystemProxy: `PInv` follows the stop that was asked for last: its first step saves the
  preference and is not passed over (`StopSavesFirst`), so that the preference is off when
  the stop is done (`StoppedIsOff`), and whoever starts later reads that and caches it
  (`LateIsOff`). A process that is down has no task under way (`DownIsIdle`), which is
  why a stop cannot be finished for one that was killed.
- ShellFiles: what a scan of a text finds is proved by induction over its lines, through the
  first line for which it fails. Without a marker it finds the text itself (`ScanPlain`); its
  output never holds a marker (`ScanOut`); and with a block put anywhere into such a text
  it finds the text again (`ScanInserted`), which is also the block that a shell runs
  (`InsertedHasBlock`). So `Strip` and `Upsert` keep the user's lines of a text that is not
  broken (`GoodTexts`), and give a text the effect of the switch even if it is
  (`SwitchTexts`).
- The files of SystemProxy: `TInv` says that each has the user's lines it had at first, or is
  missing, cut and about to be filled, or hurt, and that what a task is about to write has
  these lines as well (`TextsKept`). A task that reads a file while another has it cut would write an empty
  text, which is why such files are hurt. Where there is no file at all, `.profile` is written
  without being read: as long as it may be, it held nothing of the user's
  (`ProfilesOK`). `WInv` says of a switch with nothing beside it (`AloneIsAlone`) that every
  file is missing, still ahead of it or in the state it wants (`FilesSwitched`), and of a TUI
  that what it has cached is what the next process will read, unless another process has
  saved a preference since, or its own save failed (`CacheIsRight`).
- The types: those of each part are in its invariant, except that a process of SystemProxy that
  is not there has nothing cached and nothing under way (`DownIsDown`): a kill clears both, and
  a step of a task is one of a process that is there.
- ProxyPage: `VInv` joins the types with the names on the page, which differ (`ViewOK`), and
  the property about marks in a form that asks for some node of a name rather than for a
  place (`MarksExcused`). The names are what ties a mark to its node: a refresh takes each
  card by its name into the old order and appends those that are new (`MergeFacts`,
  `AnswerFacts`), a result reaches one node (`SetDelaysFacts`), and sorting moves marks with
  their nodes (`SortedFacts`). `NoNewMarks` says of each of these that it marks nobody, so that
  only the starts of tests have to account for marks and only their ends to remove them. That
  a refresh moves nothing follows from the same facts of the merge.

## 8. Findings

Two are shown by a run that checks one statement of a comment of the repository against
what the code does. `PROJECT.json` quotes the statement.

| run | at | what the code does |
|---|---|---|
| process_race | `mihomo_process.go:152` | Start unlocks p.mu before it rolls the routes back (and its waiting goroutine publishes running=false before it releases them, lines 170-182), so a Start of another caller can install the routes and launch a kernel in between, whose routes are then removed |
| reconcile_stale | `daemon_handlers_mihomo.go:63` | handleMihomoStart takes its snapshot and generates the kernel's file outside the queue, and may write it after the worker has written a newer one |

Others are the premises of properties that hold otherwise; TLC finds a counterexample
to each property as soon as its premise is dropped (to `NoLostUpdate` with three edits;
the premise about the start handler is the empty set `Starters` of the run `reconcile`
and the variable `aside` in `reconcile_users`):

| Property | Premise | Without it |
|---|---|---|
| `NoLostUpdate`, `AtomicSpec` | no start has found an unreadable file | the daemon begins again at version 0 (`config.go`, `LoadConfig`), and a session that kept an old version number can match the new one |
| `SettledIsRight` (`TunIsProtected`) | requests are queued in the order of their commits | each request carries the TUN intent of its commit; applied in the other order the routes are removed last, from a configuration with TUN on |
| `RulesAreOwned` | no removal of routes failed; routes that a Start has installed | routes that could not be removed stay, and routes that the worker installed for a kernel started without TUN are removed by nobody when it goes, though the comment at `mihomo_process.go:179` says that a stop and a crash clean up this way |
| `SettledIsRight` | no generation has failed | the commit is reported as not applied and the file keeps an older one until something else is applied; the routes its request was to install are not tried again |
| `SettledIsRight` (`TunIsProtected`) | no installation of routes has failed | the file already has TUN on, and any later request reloads the kernel with it without trying the routes again |
| `WorkIsCurrent` (`AppliedMeansLoaded`), `FilesAreSound` (`FileIsWhole`), `FileGoesForward` | the start handler has not generated beside the worker | both use one temporary file and snapshots of different age: one can rename what the other has just cut (the file is then empty), or put an older file in place (`reconcile_stale`) |
| `RuntimeFollowsPools` | nobody turned a subscription off or on | the handler of PATCH commits and reconciles nothing, so the kernel goes on using a subscription that is off |
| `RuntimeFollowsPools` | the pools have sources | one enabled pool without a source fails the generation for all, and the kernel keeps a deleted subscription |
| `RecordsAreTrue` (`DigestMatchesCache`), `RuntimeFollowsPools` | every commit could be written | the cache file is replaced before the commit, and stays replaced when that fails |
| `LeftoversAreKnown`, `SuccessIsReal` (`SuccessCleans`) | the firewall commands are the same as at first (`SameTools`) | objects made with a command that is gone cannot be found |
| `ForeignIsKept` | not for an identical route or rule that came after a setup's check or while the state file described its like (`taken`), nor for tables | it is taken for the program's own and removed with it; a table of the program's name is adopted |
| `UserTextKept` | no write of the file was cut short or overlapped, and its block had its end (`hurt`) | files are rewritten in place; of a block without its end, all below the first marker is cut when the proxy is switched on |
| `SwitchTakesEffect` | no other operation ran beside the switch (`alone`); of the preference, what is cached does not differ from the file because its first read failed, another process saved or a save failed (`stale`) | another process puts the block back; a switch to the cached value saves nothing, though the file says otherwise |
| `StopIsRemembered` | for processes started after the stop (`late`) | a TUI that still runs has the old preference and writes the block back with its next change of the port |
| `QuitSparesOthers`, `QuitEndsItsDaemon` | no start crossed another (`calm`) | a daemon started by hand takes the name of the one a TUI has started, and the TUI shuts down the wrong one and leaves its own |
| `QuitEndsItsDaemon` | the TUI ended in order (at "left") | one that ran out of time, failed to fetch the configuration or was killed leaves the daemon it launched running |
| `UpgradeIsTransparent` | the daemon did not die, nobody used the kernel, the script's probe was right and the restore did not fail (`quiet`); what runs is new if the service did not wait for a restart (`dodged`) | the state of the kernel at the probe is restored over what happened since; a service that waits is not stopped and comes back with the old binary |
| `UninstallIsComplete` | the service did not wait for a restart (`dodged`) | `is-active` does not say `active` then, so it is not stopped, and comes back while files are removed |
| `UninstallIsComplete` | of rules and shell blocks: no removal failed (`warned`) | the failure is a warning, and the uninstallation reports success with the block in place |
| `EditIsOfItsRule` | edits and resets of built-in rules | a toggle or a move from an old page is of whatever rule is at that place now |
| `KernelFollowsRules` | no rule subscription was deleted, and the last application did not fail (`behind`) | deletion commits and reconciles nothing (`daemon_handlers_ruleprovider.go`) |
| `MarksEnd` | no result of the group came while the page was hidden (`lost`) | the result is dropped and the marks stay until the next test or stop |

Observations made while modelling, which no property states:

- A job that fails after the snapshot loses it: the next installation probes a daemon that
  no longer runs and does not start the kernel again (`kernel_restore.go`).
- A custom rule moved from a place that the list no longer has panics the TUI, since only
  the place it goes to is compared with the length (`ui/rules.go`, `Panics`).
- A literal built-in rule may be edited to `MATCH,...`: `Validate` wants only a text
  that is not empty, while the comment at the assembly calls MATCH unique and last
  (`mihomo_config.go`). The model's `Contents` leave it out.
- A test, a stop and a second test: the late end of the first goroutine clears
  `isTesting`, its second call restores the button, and the results of the second are
  dropped, which the comment at `ui/proxy.go:292` means to rule out. No mark stays, so
  `MarksEnd` holds.
- The comment at `UpdateExternalResource` says that a failed request never replaces a
  valid file. An empty answer is renamed into place before it is validated.

## 9. Limits

- Only model-checked: every liveness property, as liveness under fairness and what is
  enabled are out of the prover's reach.
- `SettledIsRight` is checked and proved for a worker that is alone with kernels that obey
  SIGTERM and do not die unasked; the run has failing generations, installations and
  reloads, but the property speaks of behaviours without a failed generation, and of the
  routes only if the requests were queued in commit order and every installation succeeded.
  With users who start and stop the kernel, with slow kernels or with deaths it is neither
  checked nor proved.
- `FilesAreSound` and `FileGoesForward` are checked and proved without the start handler,
  with which both fail (the second in `reconcile_stale`).
- In `MihomoProcess` the next commit that flips TUN waits until the worker has followed the
  last one; the queue between them is in `Reconcile`, where `RulesAreOwned` is not checked.
- No property refers to real time. Timeouts may fire at any moment after they are set,
  which allows more than the code does, except that `Slow = FALSE` restricts Stop's
  timeouts to kernels that are already gone.
- A configuration has few fields, contents are numbers, texts are not modelled. The
  parsing of subscriptions, quota headers, names and release lists is left out, and so
  are the one-time migrations of old configurations and old directory layouts.
- The removal of chains left by old releases and the diagnosis commands of
  `tun_routing_linux.go` are left out. On other platforms setup is refused.
- A panic of a task in the worker, which the code recovers from, is left out.
- `Daemon` has several daemons, all other modules one, with one kernel process manager.
  The death of the daemon is modelled by the store (its memory is lost), by TunRouting
  (the lock is freed) and by Installation (the kernel goes with the service), but not with
  a kernel that outlives a daemon started by hand.
- The parts of Surroundings meet the rest at their edges only: a commit, a
  reconciliation and the kernel's answers are single steps there.
- The components marked `not_modelled` in `PROJECT.json` are out of this version, with
  the reason or the planned module beside each. Display, languages, logging and the
  plain pages stay out: they keep copies of the daemon's answers and no protocol.
