------------------------------ MODULE KernelRules ------------------------------
(***************************************************************************)
(* The rules of the kernel: the pages of TUIs that edit them (ui/rules.go),*)
(* the handlers that import, refresh and delete rule subscriptions         *)
(* (daemon_handlers_ruleprovider.go), what Validate accepts, and the list  *)
(* of rules that is generated (builtin_rules.go, mihomo_config.go).        *)
(*                                                                         *)
(* A page shows a copy of the configuration. An edit is a function that is *)
(* applied to the newest configuration, but the place of the rule in it    *)
(* was read from the page. The commit itself, with its version and retry,  *)
(* is one step here (see ConfigStore), and so is a run of the reconciler   *)
(* (see Reconcile).                                                        *)
(*                                                                         *)
(* A rule is <<what, policy>>, or <<"RULE-SET", provider, policy>>.        *)
(***************************************************************************)
EXTENDS Naturals, Integers, Sequences, SequencesExt, FiniteSets

CONSTANTS Tuis,
          Defaults,  \* DefaultBuiltInRules: records id, kind, enabled, order, rule, policy
          Legacy,    \* custom rules of an older version
          Customs,   \* rules the form of the custom rules can make
          Contents,  \* what may be typed into the editor of a built-in rule
          Names,     \* names of rule subscriptions
          Urls,
          Policies,  \* PolicyList
          None,
          MaxEdits   \* bound: edits and requests

Ids == {Defaults[i].id : i \in DOMAIN Defaults}

BuiltInRule == [id : STRING, kind : {"provider", "literal", "match"},
                enabled : BOOLEAN, order : Nat, rule : STRING, policy : STRING]

Assumptions ==
  /\ Defaults \in Seq(BuiltInRule)
  /\ \A i, j \in DOMAIN Defaults : Defaults[i].id = Defaults[j].id => i = j
  /\ Contents \cup Policies \subseteq STRING
  /\ \A i \in DOMAIN Defaults :
       LET e == Defaults[i] IN
       /\ e.order = i /\ e.rule # ""
       /\ e.kind = "match" <=> i = Len(Defaults)
       /\ e.kind = "match" => e.enabled
  /\ \A r \in Customs : r[1] # "MATCH"
  /\ Legacy \in Seq(Customs)
  /\ MaxEdits \in Nat

VARIABLES
  cfg,     \* the rules in the daemon's configuration
  usable,  \* hasUsableProxySubscription
  file,    \* the rules in the kernel's file, None if there is none
  page,    \* per TUI: what its pages show, and the edit it is committing
  request, \* the import or refresh under way
  pending, \* a reconciliation has been asked for
  edits,
  behind   \* history: why the file may be older than the configuration

vars == <<cfg, usable, file, page, request, pending, edits, behind>>

NoEdit == [op |-> "none"]
-----------------------------------------------------------------------------
(* buildRuleConfig. "Auto" stands for the default group.                    *)
Policy(c, policy) == IF policy = "Auto" THEN c.default ELSE policy

BuiltIn(c, e) ==
  IF e.kind = "provider" THEN <<"RULE-SET", e.id, Policy(c, e.policy)>>
                         ELSE <<e.rule, Policy(c, e.policy)>>

Provider(c, rp) == <<"RULE-SET", <<rp.name, rp.url>>, Policy(c, rp.policy)>>

Each(seq, Op(_)) == [i \in DOMAIN seq |-> Op(seq[i])]

Build(c) ==
  CASE c.mode = "global" -> <<<<"MATCH", c.default>>>>
    [] c.mode = "direct" -> <<<<"MATCH", "DIRECT">>>>
    [] OTHER ->
       c.pre \o Each(c.providers, LAMBDA rp : Provider(c, rp))
         \o Each(SelectSeq(c.builtin, LAMBDA e : e.enabled /\ e.kind # "match"),
                 LAMBDA e : BuiltIn(c, e))
         \o c.post
         \o Each(SelectSeq(c.builtin, LAMBDA e : e.kind = "match"),
                 LAMBDA e : <<"MATCH", Policy(c, e.policy)>>)

(* Validate, as far as it is about rules.                                   *)
Valid_AllowsDuplicates(c) ==
  \A i \in DOMAIN c.builtin : c.builtin[i].rule # "" /\ c.builtin[i].order = i

Valid(c) ==
  LET n == Len(c.builtin) IN
  /\ \A i, j \in 1..n : c.builtin[i].id = c.builtin[j].id => i = j
  /\ \A i \in 1..n :
       LET e == c.builtin[i] IN
       /\ e.order = i /\ e.rule # ""
       /\ e.kind = "match" <=> i = n
       /\ e.kind = "match" => e.enabled
  /\ \A i, j \in DOMAIN c.providers : c.providers[i].name = c.providers[j].name => i = j
  /\ \A r \in ToSet(c.pre) \cup ToSet(c.post) : r[1] # "MATCH"

(* A configuration is given its built-in rules, once, and the custom rules  *)
(* of an older version go before them (ensureBuiltInRules).                 *)
Init ==
  /\ cfg = [mode |-> "rule", default |-> "Auto", pre |-> Legacy, post |-> <<>>,
            builtin |-> Defaults, providers |-> <<>>]
  /\ usable \in BOOLEAN
  /\ file = IF usable THEN Build(cfg) ELSE None
  /\ page = [t \in Tuis |-> [seen |-> cfg, edit |-> NoEdit]]
  /\ request = NoEdit
  /\ pending = FALSE
  /\ edits = 0
  /\ behind = {}
-----------------------------------------------------------------------------
(* The edits. A place was read from the page, an entry is the whole record  *)
(* that the page showed, and everything else is looked up in the newest     *)
(* configuration.                                                           *)
Renumber(builtin) == [i \in DOMAIN builtin |-> [builtin[i] EXCEPT !.order = i]]

Swap(seq, i, j) == [seq EXCEPT ![i] = seq[j], ![j] = seq[i]]

Without(seq, x) == IF Contains(seq, x) THEN RemoveFirst(seq, x) ELSE seq

Default(id) == CHOOSE e \in ToSet(Defaults) : e.id = id

PolicySet(providers, name, policy) ==
  [i \in DOMAIN providers |-> IF providers[i].name = name
                              THEN [providers[i] EXCEPT !.policy = policy]
                              ELSE providers[i]]

Change(c, e) ==
  CASE e.op = "toggle" -> [c EXCEPT !.builtin[e.at].enabled = ~@]
    [] e.op = "edit"   -> [c EXCEPT !.builtin[e.at] = e.entry]
    [] e.op = "reset"  -> [c EXCEPT !.builtin =
                             Renumber([@ EXCEPT ![e.at] = Default(e.id)])]
    [] e.op = "move"   -> IF e.to \in 1..(Len(c.builtin) - 1)
                          THEN [c EXCEPT !.builtin = Renumber(Swap(@, e.at, e.to))]
                          ELSE c
    [] e.op = "restore all" -> [c EXCEPT !.builtin = Defaults]
    [] e.op = "add"    -> [c EXCEPT ![e.list] = Append(@, e.rule)]
    [] e.op = "delete" -> [c EXCEPT ![e.list] = Without(@, e.rule)]
    [] e.op = "shift"  -> IF e.to \in DOMAIN c[e.list]
                          THEN [c EXCEPT ![e.list] = Swap(@, e.at, e.to)] ELSE c
    [] e.op = "policy" -> [c EXCEPT !.providers = PolicySet(@, e.name, e.policy)]
    [] e.op = "mode"   -> [c EXCEPT !.mode = e.mode]
    [] e.op = "default" -> [c EXCEPT !.default = e.policy]

(* A custom rule is moved from a place that the list no longer has: the     *)
(* place it goes to is compared with the length, the other one is not.      *)
Panics(c, e) ==
  e.op = "shift" /\ e.to \in DOMAIN c[e.list] /\ e.at \notin DOMAIN c[e.list]

(* The buttons of the pages. Those of MATCH are disabled, except the editor *)
(* and the reset. For a literal rule, `policy` is the end of its text.      *)
BuiltInRulesPage(s) ==
  LET places == DOMAIN s.builtin
      movable == {i \in places : s.builtin[i].kind # "match"}
  IN {[op |-> "toggle", at |-> i] : i \in movable}
     \cup {[op |-> "edit", at |-> i, entry |-> [s.builtin[i] EXCEPT !.rule = r]] :
             i \in movable, r \in Contents}
     \cup {[op |-> "edit", at |-> i, entry |-> [s.builtin[i] EXCEPT !.policy = p]] :
             i \in places, p \in Policies}
     \cup {[op |-> "reset", at |-> i, id |-> s.builtin[i].id] : i \in places}
     \cup {[op |-> "move", at |-> i, to |-> i + d] : i \in movable, d \in {-1, 1}}
     \cup {[op |-> "restore all"]}

CustomRules(s, list) ==
  {[op |-> "add", list |-> list, rule |-> r] : r \in Customs}
  \cup {[op |-> "delete", list |-> list, rule |-> r] : r \in ToSet(s[list])}
  \cup {[op |-> "shift", list |-> list, at |-> i, to |-> i + d] :
           i \in DOMAIN s[list], d \in {-1, 1}}

CustomRulesPage(s) == CustomRules(s, "pre") \cup CustomRules(s, "post")

RuleProviderPage(s) ==
  {[op |-> "policy", name |-> rp.name, policy |-> p] :
     rp \in ToSet(s.providers), p \in Policies}

ProxyModeCard == {[op |-> "mode", mode |-> m] : m \in {"rule", "global", "direct"}}

ProxyGroupSetting == {[op |-> "default", policy |-> p] : p \in Policies}

Offered(s) ==
  BuiltInRulesPage(s) \cup CustomRulesPage(s) \cup RuleProviderPage(s)
    \cup ProxyModeCard \cup ProxyGroupSetting

Press(t, e) ==
  /\ page[t].edit = NoEdit
  /\ edits < MaxEdits
  /\ edits' = edits + 1
  /\ page' = [page EXCEPT ![t].edit = e]
  /\ UNCHANGED <<cfg, usable, file, request, pending, behind>>

(* MutateServerConfig and the POST of the configuration: what changes       *)
(* nothing is not sent, what is not valid is refused, and what is committed *)
(* is applied.                                                              *)
Commit(t) ==
  LET e == page[t].edit
      new == Change(cfg, e)
  IN /\ e # NoEdit /\ e.op # "crashed"
     /\ IF Panics(cfg, e)
        THEN /\ page' = [page EXCEPT ![t].edit = [op |-> "crashed"]]
             /\ UNCHANGED <<cfg, pending>>
        ELSE IF ~Valid(new)
        THEN page' = [page EXCEPT ![t].edit = NoEdit] /\ UNCHANGED <<cfg, pending>>
        ELSE /\ cfg' = new
             /\ pending' = (pending \/ new # cfg)
             /\ page' = [page EXCEPT ![t] = [seen |-> new, edit |-> NoEdit]]
     /\ UNCHANGED <<usable, file, request, edits, behind>>

(* A page is shown anew, or its TUI is started again.                       *)
Show(t) ==
  /\ page[t].edit = NoEdit \/ page[t].edit.op = "crashed"
  /\ page[t] # [seen |-> cfg, edit |-> NoEdit]
  /\ page' = [page EXCEPT ![t] = [seen |-> cfg, edit |-> NoEdit]]
  /\ UNCHANGED <<cfg, usable, file, request, pending, edits, behind>>
-----------------------------------------------------------------------------
Find(name) == {i \in DOMAIN cfg.providers : cfg.providers[i].name = name}

RemoveRuleProvider(providers, name) ==
  RemoveFirstMatch(providers, LAMBDA rp : rp.name = name)

(* POST and PUT of a rule subscription. An import knows its URL; a refresh  *)
(* reads it now, and downloads it without the lock.                         *)
Ask(op, name, url) ==
  /\ request = NoEdit
  /\ edits < MaxEdits
  /\ edits' = edits + 1
  /\ op = "refresh" => \E i \in Find(name) : cfg.providers[i].url = url
  /\ request' = [op |-> op, name |-> name, url |-> url]
  /\ UNCHANGED <<cfg, usable, file, page, pending, behind>>

FetchFails ==
  /\ request # NoEdit
  /\ request' = NoEdit
  /\ UNCHANGED <<cfg, usable, file, page, pending, edits, behind>>

(* An import that applies nothing.                                          *)
Import_AppliesNothing(policy) ==
  /\ request.op = "import"
  /\ LET new == [name |-> request.name, url |-> request.url, policy |-> policy]
         at == Find(request.name)
     IN cfg' = [cfg EXCEPT !.providers =
                  IF at = {} THEN Append(@, new)
                  ELSE [i \in DOMAIN @ |-> IF i \in at THEN new ELSE @[i]]]
  /\ request' = NoEdit
  /\ UNCHANGED <<usable, file, page, pending, edits, behind>>

(* An import does not look for its name.                                    *)
Import_Appends(policy) ==
  /\ request.op = "import"
  /\ cfg' = [cfg EXCEPT !.providers = Append(@,
                [name |-> request.name, url |-> request.url, policy |-> policy])]
  /\ pending' = (pending \/ usable)
  /\ request' = NoEdit
  /\ UNCHANGED <<usable, file, page, edits, behind>>

(* An import under a known name replaces its URL and its policy.            *)
Import(policy) ==
  /\ request.op = "import"
  /\ LET new == [name |-> request.name, url |-> request.url, policy |-> policy]
         at == Find(request.name)
     IN cfg' = [cfg EXCEPT !.providers =
                  IF at = {} THEN Append(@, new)
                  ELSE [i \in DOMAIN @ |-> IF i \in at THEN new ELSE @[i]]]
  /\ pending' = (pending \/ usable)
  /\ request' = NoEdit
  /\ UNCHANGED <<usable, file, page, edits, behind>>

(* A refresh only writes down when it was; it fails if the name is gone.    *)
Refresh ==
  /\ request.op = "refresh"
  /\ pending' = (pending \/ (usable /\ Find(request.name) # {}))
  /\ request' = NoEdit
  /\ UNCHANGED <<cfg, usable, file, page, edits, behind>>

(* DELETE commits, and nothing is applied.                                  *)
Delete(name) ==
  /\ Find(name) # {}
  /\ edits < MaxEdits
  /\ edits' = edits + 1
  /\ cfg' = [cfg EXCEPT !.providers = RemoveRuleProvider(@, name)]
  /\ behind' = behind \cup {"deleted"}
  /\ UNCHANGED <<usable, file, page, request, pending>>

(* The first subscription of nodes.                                         *)
AddSubscription ==
  /\ ~usable
  /\ usable' = TRUE
  /\ pending' = TRUE
  /\ UNCHANGED <<cfg, file, page, request, edits, behind>>

(* A run of the reconciler takes the newest configuration; nothing can be   *)
(* generated without a subscription of nodes.                               *)
Apply(works) ==
  /\ pending
  /\ pending' = FALSE
  /\ works => usable
  /\ IF works THEN file' = Build(cfg) /\ behind' = {}
     ELSE behind' = behind \cup {"failed"} /\ UNCHANGED file
  /\ UNCHANGED <<cfg, usable, page, request, edits>>

Next ==
  \/ \E t \in Tuis : \E e \in Offered(page[t].seen) : Press(t, e)
  \/ \E t \in Tuis : Commit(t) \/ Show(t)
  \/ \E op \in {"import", "refresh"}, name \in Names, url \in Urls : Ask(op, name, url)
  \/ FetchFails \/ Refresh \/ AddSubscription
  \/ \E policy \in Policies : Import(policy)
  \/ \E name \in Names : Delete(name)
  \/ \E works \in BOOLEAN : Apply(works)

Spec == Init /\ [][Next]_vars
-----------------------------------------------------------------------------
TypeOK ==
  /\ Valid(cfg)
  /\ usable \in BOOLEAN /\ pending \in BOOLEAN
  /\ behind \subseteq {"deleted", "failed"}
  /\ usable \/ file = None

Entry(c, id) == CHOOSE e \in ToSet(c.builtin) : e.id = id
Unplaced(e) == [e EXCEPT !.order = 0]
Count(c, rule) == Cardinality({i \in DOMAIN c.pre : c.pre[i] = rule})
                    + Cardinality({i \in DOMAIN c.post : c.post[i] = rule})

(* What a page edits is what its user saw, though it says where the rule    *)
(* was and not which it is: an accepted edit or reset of a built-in rule    *)
(* changes that rule and no other, and no edit loses a built-in rule or a   *)
(* custom one that it does not delete.                                      *)
EditStep ==
  \A t \in Tuis :
    LET e == page[t].edit IN
    e # NoEdit /\ page'[t].edit = NoEdit /\ cfg' # cfg =>
      /\ {cfg'.builtin[i].id : i \in DOMAIN cfg'.builtin} = Ids
      /\ e.op \in {"edit", "reset"} =>
           LET own == IF e.op = "edit" THEN e.entry.id ELSE e.id
           IN \A id \in Ids \ {own} :
                Unplaced(Entry(cfg', id)) = Unplaced(Entry(cfg, id))
      /\ e.op \notin {"add", "delete"} =>
           \A r \in Customs : Count(cfg', r) = Count(cfg, r)

EditIsOfItsRule == [][EditStep]_vars

(* When nothing is waiting to be applied, the kernel has the rules of the   *)
(* configuration, in their order, unless the last application failed or a   *)
(* rule subscription has been deleted since.                                *)
KernelFollowsRules ==
  usable /\ ~pending /\ behind = {} => file = Build(cfg)
=============================================================================
