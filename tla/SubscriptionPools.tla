--------------------------- MODULE SubscriptionPools ---------------------------
(***************************************************************************)
(* Subscriptions, their caches, and the pools that decide which of them    *)
(* the kernel uses (daemon_handlers_subscription.go,                       *)
(* daemon_handlers_pool.go, subscription_pool.go,                          *)
(* subscription_scheduler.go).                                             *)
(*                                                                         *)
(* Request handlers and the scheduler are processes that refresh           *)
(* subscriptions: each refresh fetches without a lock, commits, perhaps    *)
(* fails over with a second commit, and then has the kernel reconfigured.  *)
(* A commit is one step (ConfigStore has its parts), and so is the         *)
(* reconciliation (Reconcile has its parts): it generates from the newest  *)
(* configuration and reloads a kernel that runs.                           *)
(***************************************************************************)
EXTENDS Naturals, SequencesExt

CONSTANTS Subs,          \* subscription IDs; a deleted one is never used again
          Pools,         \* subscription pools
          Handlers,      \* request handlers
          Scheduler,     \* the goroutine of startSubscriptionScheduler
          None,
          FromUrl,       \* what loaded says of a source read from its URL
          Threshold,     \* subscriptionFailureThreshold
          MaxMembers,    \* bound: members named in a request
          MaxContent,    \* bound: different contents of a subscription
          Cases          \* bound: the pools made before, each with how much
                         \* happens to them: edits, disables (a subscription
                         \* turned off or on), outages (changes of what a
                         \* provider serves), faults (failed commits)

(* SubscriptionMeta; None stands for an ID that is not there. *)
Sub == [kind : {"url", "local", "manual"}, digest : 0..MaxContent,
        failures : 0..Threshold, disabled : BOOLEAN]

(* SubscriptionPool; None stands for a pool that is not there. *)
PoolRecords == [mode : {"failover", "merge"}, members : Seq(Subs),
                active : Subs \cup {None}, enabled : BOOLEAN, degraded : BOOLEAN]

(* What the kernel uses of a subscription: nothing, its cache, or its URL. *)
Unused == None
Uses == {Unused, FromUrl} \cup 1..MaxContent

Budgets == [{"edits", "disables", "outages", "faults"} -> Nat]

ASSUME PoolAssumption ==
  /\ Scheduler \notin Handlers
  /\ {Threshold, MaxContent} \subseteq Nat \ {0}
  /\ MaxMembers \in Nat
  /\ IsFiniteSet(Subs)
  /\ None \notin Subs \cup Sub \cup PoolRecords
  /\ None \notin [Subs -> Uses]
  /\ \A case \in Cases :
       /\ case.pools \in [Pools -> PoolRecords \cup {None}]
       /\ case.budget \in Budgets
       /\ \A q \in Pools :  \* as the migration of LoadConfig makes them
            case.pools[q] # None /\ case.pools[q].members # <<>> =>
              case.pools[q].active # None

VARIABLES
  subs,    \* Config.Subscriptions, None for an ID that is not there
  pools,   \* Config.SubscriptionPools, None for a pool that is not there
  cache,   \* the cache file of each ID, 0 if there is none
  loaded,  \* what the kernel uses of each ID
  remote,  \* what the provider of each ID serves, 0 while it fails
  procs,   \* what each process does
  used,    \* the IDs that newSubscriptionID has returned
  budget,  \* what is left of the bounds of the case
  intact,  \* history: every commit could be written
  switched \* history: a subscription was turned off or on

counters == <<budget, intact, switched>>

vars == <<subs, pools, cache, loaded, remote, procs, used, counters>>

Procs == Handlers \cup {Scheduler}

MemberLists == SeqOf(Subs, MaxMembers)

Requests == [mode : {"failover", "merge"}, members : MemberLists,
             active : Subs \cup {None}, enabled : BOOLEAN]

Pool(r, degraded) ==
  [mode |-> r.mode, members |-> r.members, active |-> r.active,
   enabled |-> r.enabled, degraded |-> degraded]

Idle == [pc |-> "refresh", todo |-> <<>>, got |-> 0, kind |-> "url"]

-----------------------------------------------------------------------------
(* Config.FindSubscriptionByID and the pools of a configuration c. *)
Exists(c, s) == c.subs[s] # None

PoolsOf(c) == {q \in Pools : c.pools[q] # None}

Config == [subs |-> subs, pools |-> pools]

(* Config.Validate, for the pools. *)
ValidPool(c, p) ==
  /\ IsInjective(p.members)
  /\ \A s \in ToSet(p.members) : Exists(c, s)
  /\ p.enabled => p.members # <<>>
  /\ p.active \in ToSet(p.members) \cup {None}

Valid(c) ==
  /\ \A q \in PoolsOf(c) : ValidPool(c, c.pools[q])
  /\ \A q, r \in PoolsOf(c) : q # r =>
       ToSet(c.pools[q].members) \cap ToSet(c.pools[r].members) = {}

(* SubscriptionCacheAvailable, as the daemon sees it. *)
Available(c, s) ==
  Exists(c, s) /\ ~c.subs[s].disabled /\ c.subs[s].digest # 0

(* The members of list that are in keep, in their order. *)
Sublist(list, keep) ==
  LET first[n \in 0..Len(list)] ==  \* of the first n
        IF n = 0 THEN <<>>
        ELSE IF list[n] \in keep THEN Append(first[n - 1], list[n])
        ELSE first[n - 1]
  IN  first[Len(list)]

(* Mutant: only the active member counts, also of a merged pool. *)
Affects_ActiveOnly(c, s) ==
  \E q \in PoolsOf(c) : c.pools[q].enabled /\ s = c.pools[q].active

(* Config.subscriptionAffectsRuntime *)
Affects(c, s) ==
  \E q \in PoolsOf(c) :
    /\ c.pools[q].enabled
    /\ \/ c.pools[q].mode = "merge" /\ s \in ToSet(c.pools[q].members)
       \/ c.pools[q].mode = "failover" /\ s = c.pools[q].active

(* Config.activePoolSubscriptions: one pool without a source is an error. *)
Sources(c, p) ==
  {s \in IF p.mode = "merge" THEN ToSet(p.members) ELSE {p.active} \ {None} :
     Available(c, s)}

Enabled(c) == {q \in PoolsOf(c) : c.pools[q].enabled}

HasSources(c) ==
  Enabled(c) # {} /\ \A q \in Enabled(c) : Sources(c, c.pools[q]) # {}

PoolProviders(c, files) ==
  [s \in Subs |-> IF \E q \in Enabled(c) : s \in Sources(c, c.pools[q])
                    THEN files[s] ELSE Unused]

(* buildProxyConfig: without any pool, every subscription with a URL.  None  *)
(* if the configuration cannot be generated.                                 *)
Legacy(c) == {s \in Subs : Exists(c, s) /\ c.subs[s].kind # "manual"}

Providers(c, files) ==
  IF HasSources(c) THEN PoolProviders(c, files)
  ELSE IF PoolsOf(c) = {} /\ Legacy(c) # {}
    THEN [s \in Subs |-> IF s \in Legacy(c) THEN FromUrl ELSE Unused]
  ELSE None
-----------------------------------------------------------------------------
(* The configuration in the function that UpdateGlobalConfig is given. *)

WithSub(c, s, sub) == [c EXCEPT !.subs[s] = sub]

(* Mutant: a failed fetch is not counted. *)
Failed_NotCounted(c, s) == c

(* refreshSubscription, for a fetch that failed and one that succeeded. *)
Failed(c, s) ==
  [c EXCEPT !.subs[s].failures = IF @ < Threshold THEN @ + 1 ELSE @]

Refreshed(c, s, content) ==
  [c EXCEPT !.subs[s].failures = 0, !.subs[s].digest = content]

(* failoverSubscription, for the one pool whose active member is s. *)
FailsOver(c, s, q) ==
  /\ q \in Enabled(c) /\ c.pools[q].mode = "failover"
  /\ c.pools[q].active = s
  /\ Exists(c, s) /\ c.subs[s].failures >= Threshold

Candidate(c, s, m) ==
  m # s /\ Available(c, m) /\ c.subs[m].failures < Threshold

Switched(c, s, p) ==
  LET next == Sublist(p.members, {m \in Subs : Candidate(c, s, m)})
  IN  IF next = <<>> THEN [p EXCEPT !.degraded = TRUE]
      ELSE [p EXCEPT !.active = Head(next), !.degraded = FALSE]

FailedOver(c, s) ==
  [c EXCEPT !.pools = [q \in Pools |-> IF FailsOver(c, s, q)
                                         THEN Switched(c, s, @[q]) ELSE @[q]]]

(* The pool p without the members in out, and with a new active member if it *)
(* has lost its own.                                                         *)
Without(p, out) ==
  LET kept == Sublist(p.members, Subs \ out)
  IN  [p EXCEPT !.members = kept,
                !.active = IF @ \notin out THEN @
                           ELSE IF kept = <<>> THEN None ELSE Head(kept)]

Emptied(p) == [p EXCEPT !.enabled = FALSE, !.degraded = TRUE]

(* Config.RemoveSubscription *)
RemovedFrom(p, s) ==
  LET rest == Without(p, {s}) IN IF rest.members = <<>> THEN Emptied(rest) ELSE rest

Removed(c, s) ==
  [subs |-> [c.subs EXCEPT ![s] = None],
   pools |-> [q \in Pools |-> IF q \in PoolsOf(c) THEN RemovedFrom(c.pools[q], s)
                                                   ELSE None]]

(* Mutant: a pool that loses its last member stays enabled. *)
Robbed_StaysEnabled(p, out) == Without(p, out)

(* assignPoolMembers, for a pool that is not the target. *)
Robbed(p, out) ==
  LET rest == Without(p, out)
  IN  IF p.active \in out /\ rest.members = <<>> THEN Emptied(rest) ELSE rest

(* The handlers of POST and PUT: the request's pool, its first member active *)
(* if it names none, and its members taken from the other pools.             *)
Target(c, q, r) ==
  LET degraded == q \in PoolsOf(c) /\ c.pools[q].degraded
      first == IF r.active = None /\ r.members # <<>> THEN Head(r.members)
               ELSE r.active
  IN  Pool([r EXCEPT !.active = first], degraded)

Saved(c, q, r) ==
  [c EXCEPT !.pools =
     [o \in Pools |-> IF o = q THEN Target(c, q, r)
                      ELSE IF o \in PoolsOf(c) THEN Robbed(@[o], ToSet(r.members))
                      ELSE None]]

(* importSubscriptionContent: a fresh record, whatever was there. *)
Imported(c, s, kind, content) ==
  WithSub(c, s, [kind |-> kind, digest |-> content, failures |-> 0,
                 disabled |-> FALSE])
-----------------------------------------------------------------------------
Spend(what) ==
  /\ budget[what] > 0
  /\ budget' = [budget EXCEPT ![what] = @ - 1]
  /\ intact' = (intact /\ what # "faults")
  /\ switched' = (switched \/ what = "disables")

Goto(p, pc) == procs' = [procs EXCEPT ![p].pc = pc]

(* A process that is through with the head of its list. *)
Done(p) ==
  LET todo == procs[p].todo
  IN  procs' = [procs EXCEPT ![p] =
                  [Idle EXCEPT !.todo = IF todo = <<>> THEN todo ELSE Tail(todo)]]

Free(p) == procs[p].pc = "refresh" /\ procs[p].todo = <<>>

(* UpdateGlobalConfig of c: it publishes it, or cannot write it. *)
Publish(c) == subs' = c.subs /\ pools' = c.pools

Unwritten(p) == Spend("faults") /\ UNCHANGED <<subs, pools>> /\ Done(p)

(* Mutant: the content is not written. *)
WriteCache_Lost(s, content) == UNCHANGED cache
-----------------------------------------------------------------------------
(* refreshSubscription up to the end of the fetch. *)
Refreshable(s) == Exists(Config, s) /\ subs[s].kind # "local"

(* writeSubscriptionCache *)
WriteCache(s, content) == cache' = [cache EXCEPT ![s] = content]

Fetched(s) == IF subs[s].kind = "manual" THEN 0 ELSE remote[s]

Fetch(p) ==
  /\ procs[p].pc = "refresh" /\ procs[p].todo # <<>>
  /\ LET s == Head(procs[p].todo)
     IN  IF Refreshable(s)
           THEN procs' = [procs EXCEPT ![p].pc = "commit", ![p].got = Fetched(s)]
           ELSE Done(p)
  /\ UNCHANGED <<subs, pools, cache, loaded, remote, used, counters>>

(* The commit of a fetched content; the cache is written first. *)
CommitContent(p) ==
  LET s == Head(procs[p].todo)
      c == Refreshed(Config, s, procs[p].got)
  IN  /\ procs[p].pc = "commit" /\ procs[p].got # 0 /\ Exists(Config, s)
      /\ WriteCache(s, procs[p].got)
      /\ \/ /\ Publish(c)
            /\ IF Affects(c, s) THEN Goto(p, "apply") ELSE Done(p)
            /\ UNCHANGED counters
         \/ Unwritten(p)
      /\ UNCHANGED <<loaded, remote, used>>

(* The commit of a failed fetch. *)
CommitFailure(p) ==
  LET s == Head(procs[p].todo)
  IN  /\ procs[p].pc = "commit" /\ procs[p].got = 0 /\ Exists(Config, s)
      /\ \/ Publish(Failed(Config, s)) /\ Goto(p, "failover") /\ UNCHANGED counters
         \/ Unwritten(p)
      /\ UNCHANGED <<cache, loaded, remote, used>>

(* The subscription was deleted during the fetch. *)
CommitNothing(p) ==
  /\ procs[p].pc = "commit" /\ ~Exists(Config, Head(procs[p].todo))
  /\ Done(p)
  /\ UNCHANGED <<subs, pools, cache, loaded, remote, used, counters>>

(* failoverSubscription *)
Failover(p) ==
  LET s == Head(procs[p].todo)
      c == FailedOver(Config, s)
  IN  /\ procs[p].pc = "failover"
      /\ \/ /\ Publish(c)
            /\ IF \E q \in PoolsOf(c) : c.pools[q].active # pools[q].active
                 THEN Goto(p, "apply") ELSE Done(p)
            /\ UNCHANGED counters
         \/ Unwritten(p)
      /\ UNCHANGED <<cache, loaded, remote, used>>

(* reconcileLatest: the worker generates from the newest configuration, and  *)
(* keeps the kernel as it is if that is not possible.                        *)
Apply(p) ==
  /\ procs[p].pc = "apply"
  /\ loaded' = IF Providers(Config, cache) = None THEN loaded
               ELSE Providers(Config, cache)
  /\ Done(p)
  /\ UNCHANGED <<subs, pools, cache, remote, used, counters>>

Work(p) ==
  \/ Fetch(p)
  \/ CommitContent(p)
  \/ CommitFailure(p)
  \/ CommitNothing(p)
  \/ Failover(p)
  \/ Apply(p)
-----------------------------------------------------------------------------
(* PUT of a subscription, and POST .../refresh of a pool. *)
BeginRefresh(p, list) ==
  /\ Free(p)
  /\ procs' = [procs EXCEPT ![p] = [Idle EXCEPT !.todo = list]]
  /\ UNCHANGED <<subs, pools, cache, loaded, remote, used, counters>>

RefreshOne(p, s) == Exists(Config, s) /\ BeginRefresh(p, <<s>>)

RefreshPool(p, q) == q \in PoolsOf(Config) /\ BeginRefresh(p, pools[q].members)

(* refreshDueSubscriptionPools: the members that are due, of the snapshot. *)
Due == {s \in UNION {ToSet(pools[q].members) : q \in Enabled(Config)} :
          Refreshable(s)}

Tick(due) ==
  /\ due # {} /\ due \subseteq Due
  /\ \E list \in SetToSeqs(due) : BeginRefresh(Scheduler, list)

(* POST of a subscription with a URL, or with its content. *)
BeginImport(p, s, kind) ==
  /\ Free(p) /\ Spend("edits")
  /\ \E content \in IF kind = "url" THEN {remote[s]} \ {0} ELSE 1..MaxContent :
       procs' = [procs EXCEPT ![p] = [pc |-> "import", todo |-> <<s>>,
                                      got |-> content, kind |-> kind]]
  /\ UNCHANGED <<subs, pools, cache, loaded, remote, used>>

(* A name that is not there, or no longer, gets a fresh ID. *)
ImportIds(s) ==
  IF Exists(Config, s) THEN {s} ELSE Subs \ used

CommitImport(p) ==
  /\ procs[p].pc = "import"
  /\ \E s \in ImportIds(Head(procs[p].todo)) :
       LET c == Imported(Config, s, procs[p].kind, procs[p].got)
       IN  /\ WriteCache(s, procs[p].got)
           /\ used' = used \cup {s}
           /\ \/ /\ Publish(c)
                 /\ IF Affects(c, s) THEN Goto(p, "apply") ELSE Done(p)
                 /\ UNCHANGED counters
              \/ Unwritten(p)
  /\ UNCHANGED <<loaded, remote>>

(* The bound on IDs: an import that finds none left is dropped. *)
DropImport(p) ==
  /\ procs[p].pc = "import" /\ ImportIds(Head(procs[p].todo)) = {}
  /\ Done(p)
  /\ UNCHANGED <<subs, pools, cache, loaded, remote, used, counters>>

(* A handler whose edit is one commit of c, followed by a reconciliation if  *)
(* it asks for one.                                                          *)
Edit(p, c, applies) ==
  /\ Free(p) /\ Spend("edits")
  /\ Valid(c) /\ Publish(c)
  /\ IF applies THEN Goto(p, "apply") ELSE UNCHANGED procs
  /\ UNCHANGED <<cache, loaded, remote>>

CreateManual(p) ==
  \E s \in Subs \ used :
    /\ Edit(p, WithSub(Config, s, [kind |-> "manual", digest |-> 0,
                                   failures |-> 0, disabled |-> FALSE]), FALSE)
    /\ used' = used \cup {s}

(* PATCH of a subscription, as far as Disabled goes. *)
Disable(p, s) ==
  /\ Free(p) /\ Exists(Config, s) /\ Spend("disables")
  /\ subs' = [subs EXCEPT ![s].disabled = ~@]
  /\ UNCHANGED <<pools, cache, loaded, remote, procs, used>>

Delete(p, s) ==
  Exists(Config, s) /\ Edit(p, Removed(Config, s), Affects(Config, s))
    /\ UNCHANGED used

SavePool(p, q, r) == Edit(p, Saved(Config, q, r), TRUE) /\ UNCHANGED used

DeletePool(p, q) ==
  q \in PoolsOf(Config)
    /\ Edit(p, [Config EXCEPT !.pools[q] = None], TRUE) /\ UNCHANGED used

(* A provider goes down, comes back or serves something new. *)
Serve(s, content) ==
  /\ content # remote[s] /\ Spend("outages")
  /\ remote' = [remote EXCEPT ![s] = content]
  /\ UNCHANGED <<subs, pools, cache, loaded, procs, used>>
-----------------------------------------------------------------------------
(* The migration of old configurations: every subscription is in a pool.    *)
Known == UNION {ToSet(pools[q].members) : q \in {o \in Pools : pools[o] # None}}

Init ==
  /\ \E case \in Cases : pools = case.pools /\ budget = case.budget
  /\ subs = [s \in Subs |-> IF s \in Known
                              THEN [kind |-> "url", digest |-> 1, failures |-> 0,
                                    disabled |-> FALSE]
                              ELSE None]
  /\ Valid(Config)
  /\ cache = [s \in Subs |-> IF s \in Known THEN 1 ELSE 0]
  /\ loaded = IF HasSources(Config) THEN PoolProviders(Config, cache)
              ELSE [s \in Subs |-> Unused]
  /\ remote = [s \in Subs |-> 1]
  /\ procs = [p \in Procs |-> Idle]
  /\ used = Known
  /\ intact = TRUE /\ switched = FALSE

Next ==
  \/ \E p \in Procs : Work(p)
  \/ \E due \in SUBSET Due : Tick(due)
  \/ \E p \in Handlers :
       \/ \E s \in Subs : RefreshOne(p, s) \/ Disable(p, s) \/ Delete(p, s)
       \/ \E q \in Pools : RefreshPool(p, q) \/ DeletePool(p, q)
       \/ \E q \in Pools, r \in Requests : SavePool(p, q, r)
       \/ \E s \in Subs, kind \in {"url", "local"} : BeginImport(p, s, kind)
       \/ CommitImport(p) \/ DropImport(p)
       \/ CreateManual(p)
  \/ \E s \in Subs, content \in 0..MaxContent : Serve(s, content)

Spec == Init /\ [][Next]_vars

(* Requests end, and time passes: a member of an enabled pool is due again   *)
(* and again.                                                                *)
Fairness ==
  /\ \A p \in Procs : WF_vars(Work(p))
  /\ \A p \in Handlers : WF_vars(CommitImport(p) \/ DropImport(p))
  /\ \A s \in Subs : SF_vars(\E due \in SUBSET Due : s \in due /\ Tick(due))

FairSpec == Spec /\ Fairness
-----------------------------------------------------------------------------
(* Every variable has its type, the configuration is one that Validate       *)
(* accepts, and a subscription's cache file exists once the record names it. *)
TypeOK ==
  /\ subs \in [Subs -> Sub \cup {None}]
  /\ pools \in [Pools -> PoolRecords \cup {None}]
  /\ Valid(Config)
  /\ cache \in [Subs -> 0..MaxContent]
  /\ loaded \in [Subs -> Uses]
  /\ remote \in [Subs -> 0..MaxContent]
  /\ DOMAIN procs = Procs
  /\ used \subseteq Subs
  /\ \A s \in Subs : subs[s] # None =>
       s \in used /\ (subs[s].digest # 0 => cache[s] # 0)

Settled == \A p \in Procs : procs[p].pc # "apply"

(* subscriptionAffectsRuntime and the handlers' choice of when to reconcile  *)
(* miss nothing: whenever no reconciliation is on its way and the pools have *)
(* sources, the kernel uses exactly the caches that the pools ask for, in    *)
(* their newest content.  That takes commits that can be written, and nobody *)
(* who turned a subscription off or on: that handler reconciles nothing.     *)
RuntimeFollowsPools ==
  intact /\ ~switched /\ Settled /\ HasSources(Config) =>
    loaded = PoolProviders(Config, cache)

(* RemoveSubscription and assignPoolMembers repair the other pools: no edit  *)
(* that is right in itself is rejected by Validate because of what it does   *)
(* to them.  (Asked when nothing is under way; a refresh changes nothing     *)
(* that Validate reads before its last commit.)                              *)
Proper == {r \in Requests :
             /\ IsInjective(r.members)
             /\ r.active \in ToSet(r.members) \cup {None}
             /\ r.enabled => r.members # <<>>}

EditsAreAccepted ==
  (\A p \in Procs : Free(p)) =>
    /\ \A q \in Pools, r \in Proper :
         (\A s \in ToSet(r.members) : Exists(Config, s)) => Valid(Saved(Config, q, r))
    /\ \A s \in Subs : Exists(Config, s) => Valid(Removed(Config, s))

(* A pool that still has members has one of them as its active one, although *)
(* Validate would let it have none.                                          *)
PoolsKeepAnActive ==
  \A q \in PoolsOf(Config) : pools[q].members # <<>> => pools[q].active # None

(* No sequence of edits, imports, deletions and failovers brings the pools  *)
(* into a state that refuses a right edit or leaves a pool without a source *)
(* that it could use.                                                       *)
PoolsStayUsable == PoolsKeepAnActive /\ EditsAreAccepted

(* Once the providers change no more, no enabled failover pool stays on a    *)
(* source that fails although another member is served and has a cache.      *)
Stuck(q) ==
  /\ q \in Enabled(Config) /\ pools[q].mode = "failover"
  /\ subs[pools[q].active].kind = "url" /\ remote[pools[q].active] = 0
  /\ \E m \in ToSet(pools[q].members) :
       /\ Available(Config, m) /\ subs[m].kind = "url" /\ remote[m] # 0

FailoverHappens == <>[](\A q \in Pools : ~Stuck(q))

(* As long as commits can be written, the digest in a record is that of the *)
(* cache file, whatever refreshes and imports of one subscription overlap.  *)
DigestMatchesCache ==
  intact => \A s \in Subs : subs[s] # None /\ subs[s].digest # 0
                               => cache[s] = subs[s].digest

(* Records, pools and cache files agree: Validate accepts what is in force, *)
(* a recorded content is there, and it is the one recorded, although the    *)
(* file is written before the commit and refreshes overlap.                 *)
RecordsAreTrue == TypeOK /\ DigestMatchesCache
=============================================================================
