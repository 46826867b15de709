----------------------------- MODULE PagesProofs -----------------------------
(***************************************************************************)
(* Proofs about KernelRules and ProxyPage, as parts of Surroundings: for   *)
(* any rules, proxy groups and answers of the kernel, and any number of    *)
(* pages, edits, tests and moves; and the types of all parts together.     *)
(***************************************************************************)
EXTENDS ServiceProofs, FiniteSetTheorems

-----------------------------------------------------------------------------
(* KernelRules.  The variables by their names there; what is generated      *)
(* (Build) stays folded, for only of which configuration it is matters.     *)
cfg == s1
usable == s2
file == s3
pending == s6
behind == s8

USE DEF cfg, usable, file, pending, behind

LEMMA RulesStep ==
  ASSUME KR!KernelFollowsRules, KR!Next
  PROVE  KR!KernelFollowsRules'
<1>1. CASE UNCHANGED <<cfg, usable, file, pending, behind>>
  BY <1>1 DEF KR!KernelFollowsRules
<1>2. ASSUME NEW t \in Tuis, KR!Commit(t) PROVE KR!KernelFollowsRules'
  <2>1. UNCHANGED <<usable, file, behind>>
    BY <1>2 DEF KR!Commit
  <2>2. \/ cfg' = cfg /\ pending' = pending
        \/ pending' = (pending \/ cfg' # cfg)
    BY <1>2 DEF KR!Commit
  <2> QED
    BY <2>1, <2>2 DEF KR!KernelFollowsRules
<1>3. ASSUME NEW policy \in Policies, KR!Import(policy) PROVE KR!KernelFollowsRules'
  BY <1>3 DEF KR!Import, KR!KernelFollowsRules
<1>4. CASE KR!Refresh
  BY <1>4 DEF KR!Refresh, KR!KernelFollowsRules
<1>5. ASSUME NEW name \in Names, KR!Delete(name) PROVE KR!KernelFollowsRules'
  BY <1>5 DEF KR!Delete, KR!KernelFollowsRules
<1>6. CASE KR!AddSubscription
  BY <1>6 DEF KR!AddSubscription, KR!KernelFollowsRules
<1>7. ASSUME NEW works \in BOOLEAN, KR!Apply(works) PROVE KR!KernelFollowsRules'
  BY <1>7 DEF KR!Apply, KR!KernelFollowsRules
<1>8. KR!FetchFails => UNCHANGED <<cfg, usable, file, pending, behind>>
  BY DEF KR!FetchFails
<1>9. ASSUME NEW t \in Tuis, KR!Show(t) PROVE UNCHANGED <<cfg, usable, file, pending, behind>>
  BY <1>9 DEF KR!Show
<1>10. ASSUME NEW t \in Tuis, NEW e, KR!Press(t, e)
       PROVE  UNCHANGED <<cfg, usable, file, pending, behind>>
  BY <1>10 DEF KR!Press
<1>11. ASSUME NEW op, NEW name, NEW url, KR!Ask(op, name, url)
       PROVE  UNCHANGED <<cfg, usable, file, pending, behind>>
  BY <1>11 DEF KR!Ask
<1> QED
  BY <1>1, <1>2, <1>3, <1>4, <1>5, <1>6, <1>7, <1>8, <1>9, <1>10, <1>11 DEF KR!Next

(* Whatever is edited, imported, deleted and refused meanwhile, a kernel    *)
(* for which nothing waits has the rules of the configuration.              *)
THEOREM RulesFollowed == Spec => []KernelFollowsRules
<1>1. Init => KernelFollowsRules
  BY DEF Init, KernelFollowsRules, KR!Init, KR!KernelFollowsRules
<1>2. KernelFollowsRules /\ [Next]_state => KernelFollowsRules'
  <2> SUFFICES ASSUME KernelFollowsRules, [Next]_state, part' = "rules"
               PROVE  KR!KernelFollowsRules'
    BY DEF KernelFollowsRules
  <2>1. CASE UNCHANGED state
    BY <2>1 DEF state, KernelFollowsRules, KR!KernelFollowsRules
  <2>2. CASE Next
    BY <2>2, RulesStep DEF Next, KernelFollowsRules
  <2> QED
    BY <2>1, <2>2
<1> QED
  BY <1>1, <1>2, PTL DEF Spec
-----------------------------------------------------------------------------
(* The edits of the rules, from pages that may be old.                      *)
page == s4

USE DEF page

N == Len(Defaults)

(* Every rule that is built in has one place, wherever it has been moved.   *)
Kept(builtin) ==
  /\ builtin \in [1..N -> KR!BuiltInRule]
  /\ \A i, j \in 1..N : builtin[i].id = builtin[j].id => i = j
  /\ {builtin[i].id : i \in 1..N} = KR!Ids

Fields == {"mode", "default", "pre", "post", "builtin", "providers"}

ConfigOK(c) ==
  /\ DOMAIN c = Fields
  /\ Kept(c.builtin)
  /\ c.pre \in Seq(Customs) /\ c.post \in Seq(Customs)

Ops == {"toggle", "edit", "reset", "move", "restore all", "add", "delete", "shift",
        "policy", "mode", "default"}

(* An edit names a place there is, and a rule that is built in: nothing can *)
(* be said of whether the rule still is at that place.                      *)
EditOK(e) ==
  /\ e.op \in {"toggle", "edit", "reset", "move"} => e.at \in 1..N
  /\ e.op = "edit" => e.entry \in KR!BuiltInRule /\ e.entry.id \in KR!Ids
  /\ e.op = "reset" => e.id \in KR!Ids
  /\ e.op \in {"add", "delete", "shift"} => e.list \in {"pre", "post"}
  /\ e.op \in {"add", "delete"} => e.rule \in Customs
  /\ e.op = "none" => e = KR!NoEdit
  /\ e.op \in Ops \cup {"none", "crashed"}

(* What a page shows was once the configuration.                            *)
PagesOK ==
  /\ DOMAIN page = Tuis
  /\ \A t \in Tuis : /\ DOMAIN page[t] = {"seen", "edit"}
                     /\ ConfigOK(page[t].seen) /\ EditOK(page[t].edit)

RInv == ConfigOK(cfg) /\ PagesOK

LEMMA RulesFacts ==
  /\ Defaults \in [1..N -> KR!BuiltInRule] /\ N \in Nat
  /\ Kept(Defaults)
  /\ Contents \subseteq STRING /\ Policies \subseteq STRING
  /\ Legacy \in Seq(Customs)
<1>1. /\ Defaults \in Seq(KR!BuiltInRule)
      /\ \A i, j \in DOMAIN Defaults : Defaults[i].id = Defaults[j].id => i = j
      /\ Contents \cup Policies \subseteq STRING
      /\ Legacy \in Seq(Customs)
  BY SurroundingsAssumption DEF KR!Assumptions
<1> QED
  BY <1>1 DEF Kept, KR!Ids, N

(* The buttons offer nothing else.                                          *)
LEMMA OfferedIsOK ==
  ASSUME NEW s, ConfigOK(s), NEW e \in KR!Offered(s)
  PROVE  EditOK(e)
<1> USE RulesFacts DEF Ops
<1>0. DOMAIN s.builtin = 1..N /\ s.builtin \in [1..N -> KR!BuiltInRule]
      /\ \A i \in 1..N : s.builtin[i].id \in KR!Ids
  BY DEF ConfigOK, Kept
<1>1. ASSUME e \in KR!BuiltInRulesPage(s) PROVE EditOK(e)
  <2>1. ASSUME NEW i \in 1..N, NEW r \in STRING
        PROVE  /\ [s.builtin[i] EXCEPT !.rule = r] \in KR!BuiltInRule
               /\ [s.builtin[i] EXCEPT !.policy = r] \in KR!BuiltInRule
               /\ [s.builtin[i] EXCEPT !.rule = r].id = s.builtin[i].id
               /\ [s.builtin[i] EXCEPT !.policy = r].id = s.builtin[i].id
    BY <1>0 DEF KR!BuiltInRule
  <2> DEFINE movable == {i \in DOMAIN s.builtin : s.builtin[i].kind # "match"}
             toggles == {[op |-> "toggle", at |-> i] : i \in movable}
             texts == {[op |-> "edit", at |-> i, entry |-> [s.builtin[i] EXCEPT !.rule = r]] :
                         i \in movable, r \in Contents}
             policies == {[op |-> "edit", at |-> i, entry |-> [s.builtin[i] EXCEPT !.policy = p]] :
                            i \in DOMAIN s.builtin, p \in Policies}
             resets == {[op |-> "reset", at |-> i, id |-> s.builtin[i].id] : i \in DOMAIN s.builtin}
             Move(i, d) == [op |-> "move", at |-> i, to |-> i + d]
             moves == {Move(i, d) : i \in movable, d \in {-1, 1}}
  <2>2. KR!BuiltInRulesPage(s) =
          toggles \cup texts \cup policies \cup resets \cup moves \cup {[op |-> "restore all"]}
    BY DEF KR!BuiltInRulesPage
  <2>3. ASSUME NEW i \in 1..N, e = [op |-> "toggle", at |-> i]
        PROVE  EditOK(e)
    BY <2>3 DEF EditOK
  <2>4. ASSUME NEW i \in 1..N, NEW new \in KR!BuiltInRule, new.id \in KR!Ids,
               e = [op |-> "edit", at |-> i, entry |-> new]
        PROVE  EditOK(e)
    BY <2>4 DEF EditOK
  <2>5. ASSUME NEW i \in 1..N, e = [op |-> "reset", at |-> i, id |-> s.builtin[i].id]
        PROVE  EditOK(e)
    BY <2>5, <1>0 DEF EditOK
  <2>6. ASSUME NEW i \in 1..N, NEW d, e = [op |-> "move", at |-> i, to |-> i + d]
        PROVE  EditOK(e)
    BY <2>6 DEF EditOK
  <2>7. ASSUME e = [op |-> "restore all"] PROVE EditOK(e)
    BY <2>7 DEF EditOK
  <2>8. e \in toggles => EditOK(e)
    BY <1>0, <2>3
  <2>9. ASSUME e \in texts PROVE EditOK(e)
    <3>1. PICK i \in movable, r \in Contents :
                 e = [op |-> "edit", at |-> i, entry |-> [s.builtin[i] EXCEPT !.rule = r]]
      BY <2>9
    <3> DEFINE new == [s.builtin[i] EXCEPT !.rule = r]
    <3>2. new \in KR!BuiltInRule /\ new.id \in KR!Ids /\ i \in 1..N
      BY <1>0, <2>1
    <3>3. e = [op |-> "edit", at |-> i, entry |-> new]
      BY <3>1
    <3> HIDE DEF new
    <3> QED
      BY <2>4, <3>2, <3>3
  <2>10. ASSUME e \in policies PROVE EditOK(e)
    <3>1. PICK i \in DOMAIN s.builtin, p \in Policies :
                 e = [op |-> "edit", at |-> i, entry |-> [s.builtin[i] EXCEPT !.policy = p]]
      BY <2>10
    <3> DEFINE new == [s.builtin[i] EXCEPT !.policy = p]
    <3>2. new \in KR!BuiltInRule /\ new.id \in KR!Ids /\ i \in 1..N
      BY <1>0, <2>1
    <3>3. e = [op |-> "edit", at |-> i, entry |-> new]
      BY <3>1
    <3> HIDE DEF new
    <3> QED
      BY <2>4, <3>2, <3>3
  <2>11. e \in resets => EditOK(e)
    BY <1>0, <2>5
  <2>12. ASSUME e \in moves PROVE EditOK(e)
    <3> HIDE DEF Move, movable
    <3>1. PICK i \in movable, d \in {-1, 1} : e = Move(i, d)
      BY <2>12
    <3> QED
      BY <1>0, <3>1 DEF EditOK, Move, movable
  <2> HIDE DEF toggles, texts, policies, resets, moves
  <2> QED
    BY <1>1, <2>2, <2>7, <2>8, <2>9, <2>10, <2>11, <2>12
<1>2. ASSUME e \in KR!CustomRulesPage(s) PROVE EditOK(e)
  <2>1. PICK l \in {"pre", "post"} : e \in KR!CustomRules(s, l)
    BY <1>2 DEF KR!CustomRulesPage
  <2>2. s[l] \in Seq(Customs)
    BY DEF ConfigOK
  <2> DEFINE adds == {[op |-> "add", list |-> l, rule |-> r] : r \in Customs}
             deletes == {[op |-> "delete", list |-> l, rule |-> r] : r \in KR!ToSet(s[l])}
             Shift(i, d) == [op |-> "shift", list |-> l, at |-> i, to |-> i + d]
             shifts == {Shift(i, d) : i \in DOMAIN s[l], d \in {-1, 1}}
  <2>3. KR!CustomRules(s, l) = adds \cup deletes \cup shifts
    BY DEF KR!CustomRules
  <2>4. ASSUME e \in adds PROVE EditOK(e)
    <3>1. PICK r \in Customs : e = [op |-> "add", list |-> l, rule |-> r]
      BY <2>4
    <3> QED
      BY <3>1 DEF EditOK
  <2>5. ASSUME e \in deletes PROVE EditOK(e)
    <3>1. PICK r \in KR!ToSet(s[l]) : e = [op |-> "delete", list |-> l, rule |-> r]
      BY <2>5
    <3>2. r \in Customs
      BY <2>2 DEF KR!ToSet
    <3> QED
      BY <3>1, <3>2 DEF EditOK
  <2>6. ASSUME e \in shifts PROVE EditOK(e)
    <3> HIDE DEF Shift
    <3>1. PICK i \in DOMAIN s[l], d \in {-1, 1} : e = Shift(i, d)
      BY <2>6
    <3> QED
      BY <3>1 DEF EditOK, Shift
  <2> HIDE DEF adds, deletes, shifts
  <2> QED
    BY <2>1, <2>3, <2>4, <2>5, <2>6
<1>3. ASSUME e \in KR!RuleProviderPage(s) \cup KR!ProxyModeCard \cup KR!ProxyGroupSetting
      PROVE  EditOK(e)
  <2>1. \/ \E n, p : e = [op |-> "policy", name |-> n, policy |-> p]
        \/ \E m : e = [op |-> "mode", mode |-> m]
        \/ \E p : e = [op |-> "default", policy |-> p]
    BY <1>3 DEF KR!RuleProviderPage, KR!ProxyModeCard, KR!ProxyGroupSetting
  <2>2. e.op \in {"policy", "mode", "default"}
    BY <2>1
  <2> QED
    BY <2>2 DEF EditOK
<1> QED
  BY <1>1, <1>2, <1>3 DEF KR!Offered

LEMMA Least ==
  ASSUME NEW T \in SUBSET Nat, T # {}
  PROVE  \E x \in T : \A y \in T : x =< y
<1> DEFINE R == OpToRel(<, Nat)
<1>1. IsWellFoundedOn(R, Nat)
  BY NatLessThanWellFounded
<1>2. \A i, j \in Nat : i < j => <<i, j>> \in R
  BY DEF OpToRel
<1> HIDE DEF R
<1>3. PICK x \in T : \A y \in T : <<y, x>> \notin R
  BY <1>1, WFMin
<1>4. T \subseteq Nat
  OBVIOUS
<1>5. ASSUME NEW y \in T PROVE x =< y
  <2>1. x \in Nat /\ y \in Nat /\ ~(y < x)
    BY <1>2, <1>3, <1>4
  <2> QED
    BY <2>1
<1> QED
  BY <1>5

(* What a deletion of a custom rule leaves is still a list of them.         *)
LEMMA WithoutIsOK ==
  ASSUME NEW s \in Seq(Customs), NEW r
  PROVE  KR!Without(s, r) \in Seq(Customs)
<1> DEFINE I == {i \in 1..Len(s) : s[i] = r}
           at == KR!SelectInSeq(s, LAMBDA v : v = r)
<1>1. CASE I = {}
  BY <1>1 DEF KR!Without, KR!Contains
<1>2. CASE I # {}
  <2>1. at \in I
    <3>1. at = KR!Min(I)
      BY <1>2 DEF KR!SelectInSeq
    <3>2. I \in SUBSET Nat
      OBVIOUS
    <3>3. \E x \in I : \A y \in I : x =< y
      BY <1>2, <3>2, Least
    <3> HIDE DEF I
    <3>4. KR!Min(I) \in I
      BY <3>3 DEF KR!Min
    <3> QED
      BY <3>1, <3>4
  <2>2. KR!Without(s, r) = SubSeq(s, 1, at - 1) \o SubSeq(s, at + 1, Len(s))
    BY <1>2 DEF KR!Without, KR!Contains, KR!RemoveFirst, KR!RemoveAt
  <2> HIDE DEF at
  <2>3. at \in 1..Len(s) /\ Len(s) \in Nat
    BY <2>1
  <2>4. SubSeq(s, 1, at - 1) \in Seq(Customs) /\ SubSeq(s, at + 1, Len(s)) \in Seq(Customs)
    BY <2>3
  <2> QED
    BY <2>2, <2>4
<1> QED
  BY <1>1, <1>2

(* Numbering the rules anew changes nothing else of them.                   *)
LEMMA RenumberFacts ==
  ASSUME NEW b \in [1..N -> KR!BuiltInRule]
  PROVE  /\ KR!Renumber(b) \in [1..N -> KR!BuiltInRule]
         /\ \A i \in 1..N : /\ KR!Renumber(b)[i].id = b[i].id
                            /\ KR!Unplaced(KR!Renumber(b)[i]) = KR!Unplaced(b[i])
<1> DEFINE New(i) == [b[i] EXCEPT !.order = i]
<1>1. ASSUME NEW i \in 1..N
      PROVE  /\ New(i) \in KR!BuiltInRule /\ New(i).id = b[i].id
             /\ [New(i) EXCEPT !.order = 0] = [b[i] EXCEPT !.order = 0]
  <2>1. b[i] \in KR!BuiltInRule /\ i \in Nat
    BY RulesFacts
  <2>2. New(i) \in KR!BuiltInRule /\ New(i).id = b[i].id
    BY <2>1 DEF KR!BuiltInRule
  <2> DEFINE AtZero(r) == [id |-> r.id, kind |-> r.kind, enabled |-> r.enabled, order |-> 0,
                           rule |-> r.rule, policy |-> r.policy]
  <2>3. \A r \in KR!BuiltInRule : [r EXCEPT !.order = 0] = AtZero(r)
    BY DEF KR!BuiltInRule
  <2>4. AtZero(New(i)) = AtZero(b[i])
    BY <2>1 DEF KR!BuiltInRule
  <2> QED
    BY <2>1, <2>2, <2>3, <2>4
<1>2. KR!Renumber(b) = [i \in 1..N |-> New(i)]
  BY DEF KR!Renumber
<1> HIDE DEF New
<1> QED
  BY <1>1, <1>2 DEF KR!Unplaced

(* A rule is found by its identity, ...                                     *)
LEMMA EntryFacts ==
  ASSUME NEW c, Kept(c.builtin), NEW i \in 1..N
  PROVE  KR!Entry(c, c.builtin[i].id) = c.builtin[i]
<1>1. /\ \A e \in KR!ToSet(c.builtin) : \E j \in 1..N : e = c.builtin[j]
      /\ c.builtin[i] \in KR!ToSet(c.builtin)
  BY RulesFacts, LenProperties DEF KR!ToSet, Kept
<1> QED
  BY <1>1 DEF KR!Entry, Kept

(* ... and so is what it was originally.                                    *)
LEMMA DefaultFacts ==
  ASSUME NEW id \in KR!Ids
  PROVE  KR!Default(id) \in KR!BuiltInRule /\ KR!Default(id).id = id
<1>1. \E e \in KR!ToSet(Defaults) : e.id = id
  BY RulesFacts DEF KR!ToSet, KR!Ids, N
<1>2. KR!ToSet(Defaults) \subseteq KR!BuiltInRule
  BY RulesFacts DEF KR!ToSet, N
<1> QED
  BY <1>1, <1>2 DEF KR!Default

(* Validate refuses two rules of one identity: this is what makes an edit   *)
(* from an old page hit its own rule or none.                               *)
LEMMA ValidFacts ==
  ASSUME NEW c, c.builtin \in [1..N -> KR!BuiltInRule], KR!Valid(c)
  PROVE  \A i, j \in 1..N : c.builtin[i].id = c.builtin[j].id => i = j
<1>1. Len(c.builtin) = N
  BY RulesFacts
<1> QED
  BY <1>1 DEF KR!Valid

(* What an edit from a page may change of the rules that are built in.      *)
OthersKept(c, new, e) ==
  e.op \in {"edit", "reset"} =>
    \A id \in KR!Ids : id # (IF e.op = "edit" THEN e.entry.id ELSE e.id) =>
      KR!Unplaced(KR!Entry(new, id)) = KR!Unplaced(KR!Entry(c, id))

BuiltInKept(c, new, e) ==
  /\ ConfigOK(new) /\ new.pre = c.pre /\ new.post = c.post
  /\ OthersKept(c, new, e)

(* One lemma per edit of the built-in rules.                                *)
LEMMA ToggleRule ==
  ASSUME NEW c, ConfigOK(c), NEW e, EditOK(e), e.op = "toggle",
         NEW new, new = KR!Change(c, e)
  PROVE  BuiltInKept(c, new, e)
<1> DEFINE b == c.builtin
           x == [b[e.at] EXCEPT !.enabled = ~@]
           nb == [b EXCEPT ![e.at] = x]
<1>1. b \in [1..N -> KR!BuiltInRule] /\ e.at \in 1..N
  BY DEF ConfigOK, Kept, EditOK
<1>2. new = [c EXCEPT !.builtin = nb]
  BY DEF KR!Change
<1>3. x \in KR!BuiltInRule /\ x.id = b[e.at].id
  <2>1. b[e.at] \in KR!BuiltInRule
    BY <1>1
  <2> QED
    BY <2>1 DEF KR!BuiltInRule
<1>4. DOMAIN new = Fields /\ new.builtin = nb /\ new.pre = c.pre /\ new.post = c.post
  BY <1>2 DEF ConfigOK, Fields
<1> HIDE DEF x
<1>5. Kept(nb)
  BY <1>1, <1>3 DEF ConfigOK, Kept
<1> QED
  BY <1>4, <1>5 DEF ConfigOK, BuiltInKept, OthersKept

LEMMA EditRule ==
  ASSUME NEW c, ConfigOK(c), NEW e, EditOK(e), e.op = "edit",
         NEW new, new = KR!Change(c, e), KR!Valid(new)
  PROVE  BuiltInKept(c, new, e)
<1> DEFINE b == c.builtin
           nb == [b EXCEPT ![e.at] = e.entry]
<1>1. Kept(b) /\ b \in [1..N -> KR!BuiltInRule] /\ e.at \in 1..N
  BY DEF ConfigOK, Kept, EditOK
<1>2. e.entry \in KR!BuiltInRule /\ e.entry.id \in KR!Ids
  BY DEF EditOK
<1>3. new = [c EXCEPT !.builtin = nb]
  BY DEF KR!Change
<1>4. DOMAIN new = Fields /\ new.builtin = nb /\ new.pre = c.pre /\ new.post = c.post
  BY <1>3 DEF ConfigOK, Fields
<1>5. /\ nb \in [1..N -> KR!BuiltInRule] /\ nb[e.at] = e.entry
      /\ \A j \in 1..N \ {e.at} : nb[j] = b[j]
  BY <1>1, <1>2
<1> HIDE DEF nb
<1>6. \A i, j \in 1..N : nb[i].id = nb[j].id => i = j
  BY <1>4, <1>5, ValidFacts
<1>7. b[e.at].id = e.entry.id /\ Kept(nb)
  <2>1. nb[e.at].id = e.entry.id /\ \A j \in 1..N \ {e.at} : nb[j].id = b[j].id
    BY <1>5
  <2>2. PICK j \in 1..N : b[j].id = e.entry.id
    BY <1>1, <1>2 DEF Kept
  <2>3. j = e.at
    BY <1>1, <1>6, <2>1, <2>2
  <2> QED
    BY <1>1, <1>5, <1>6, <2>1, <2>2, <2>3 DEF Kept
<1>8. ASSUME NEW id \in KR!Ids, id # e.entry.id
      PROVE  KR!Entry(new, id) = KR!Entry(c, id)
  <2>1. PICK i \in 1..N : b[i].id = id
    BY <1>1 DEF Kept
  <2>2. nb[i] = b[i]
    BY <1>5, <1>7, <1>8, <2>1
  <2> QED
    BY <1>1, <1>4, <1>7, <2>1, <2>2, EntryFacts
<1> QED
  BY <1>4, <1>7, <1>8 DEF ConfigOK, BuiltInKept, OthersKept

LEMMA ResetRule ==
  ASSUME NEW c, ConfigOK(c), NEW e, EditOK(e), e.op = "reset",
         NEW new, new = KR!Change(c, e), KR!Valid(new)
  PROVE  BuiltInKept(c, new, e)
<1> DEFINE b == c.builtin
           d == KR!Default(e.id)
           mid == [b EXCEPT ![e.at] = d]
           nb == KR!Renumber(mid)
<1>1. Kept(b) /\ b \in [1..N -> KR!BuiltInRule] /\ e.at \in 1..N
  BY DEF ConfigOK, Kept, EditOK
<1>2. d \in KR!BuiltInRule /\ d.id = e.id /\ e.id \in KR!Ids
  BY DefaultFacts DEF EditOK
<1>3. new = [c EXCEPT !.builtin = nb]
  BY DEF KR!Change
<1> HIDE DEF d
<1>4. DOMAIN new = Fields /\ new.builtin = nb /\ new.pre = c.pre /\ new.post = c.post
  BY <1>3 DEF ConfigOK, Fields
<1>5. /\ mid \in [1..N -> KR!BuiltInRule] /\ mid[e.at] = d
      /\ \A j \in 1..N \ {e.at} : mid[j] = b[j]
  BY <1>1, <1>2
<1> HIDE DEF mid
<1>6. /\ nb \in [1..N -> KR!BuiltInRule]
      /\ \A j \in 1..N : /\ nb[j].id = mid[j].id
                         /\ KR!Unplaced(nb[j]) = KR!Unplaced(mid[j])
  BY <1>5, RenumberFacts
<1> HIDE DEF nb
<1>7. \A i, j \in 1..N : nb[i].id = nb[j].id => i = j
  BY <1>4, <1>6, ValidFacts
<1>8. b[e.at].id = e.id /\ Kept(nb)
  <2>1. nb[e.at].id = d.id /\ \A j \in 1..N \ {e.at} : nb[j].id = b[j].id
    BY <1>1, <1>5, <1>6
  <2>2. PICK j \in 1..N : b[j].id = e.id
    BY <1>1, <1>2 DEF Kept
  <2>3. j = e.at
    BY <1>1, <1>2, <1>7, <2>1, <2>2
  <2> QED
    BY <1>1, <1>2, <1>6, <1>7, <2>1, <2>2, <2>3 DEF Kept
<1>9. ASSUME NEW id \in KR!Ids, id # e.id
      PROVE  KR!Unplaced(KR!Entry(new, id)) = KR!Unplaced(KR!Entry(c, id))
  <2>1. PICK i \in 1..N : b[i].id = id
    BY <1>1 DEF Kept
  <2>2. i # e.at /\ nb[i].id = id /\ KR!Unplaced(nb[i]) = KR!Unplaced(b[i])
    BY <1>5, <1>6, <1>8, <1>9, <2>1
  <2>3. KR!Entry(c, id) = b[i] /\ KR!Entry(new, id) = nb[i]
    BY <1>1, <1>4, <1>8, <2>1, <2>2, EntryFacts
  <2> QED
    BY <2>2, <2>3
<1> QED
  BY <1>4, <1>8, <1>9 DEF ConfigOK, BuiltInKept, OthersKept

LEMMA MoveRule ==
  ASSUME NEW c, ConfigOK(c), NEW e, EditOK(e), e.op = "move",
         NEW new, new = KR!Change(c, e)
  PROVE  BuiltInKept(c, new, e)
<1> DEFINE b == c.builtin
           mid == KR!Swap(b, e.at, e.to)
           nb == KR!Renumber(mid)
<1>1. Kept(b) /\ b \in [1..N -> KR!BuiltInRule] /\ e.at \in 1..N
  BY DEF ConfigOK, Kept, EditOK
<1>2. CASE e.to \notin 1..(Len(b) - 1)
  <2>1. new = c
    BY <1>2 DEF KR!Change
  <2> QED
    BY <2>1 DEF BuiltInKept, OthersKept
<1>3. CASE e.to \in 1..(Len(b) - 1)
  <2>1. new = [c EXCEPT !.builtin = nb]
    BY <1>3 DEF KR!Change
  <2>2. e.to \in 1..N
    <3>1. Len(b) = N
      BY <1>1, RulesFacts
    <3> QED
      BY <1>3, <3>1, RulesFacts
  <2>3. /\ mid \in [1..N -> KR!BuiltInRule]
        /\ \A j \in 1..N : mid[j] = b[IF j = e.to THEN e.at ELSE IF j = e.at THEN e.to ELSE j]
    BY <1>1, <2>2 DEF KR!Swap
  <2> HIDE DEF mid
  <2>4. DOMAIN new = Fields /\ new.builtin = nb /\ new.pre = c.pre /\ new.post = c.post
    BY <2>1 DEF ConfigOK, Fields
  <2>5. \A i, j \in 1..N : mid[i].id = mid[j].id => i = j
    BY <1>1, <2>2, <2>3 DEF Kept
  <2>6. \A id : (\E i \in 1..N : b[i].id = id) <=> \E i \in 1..N : mid[i].id = id
    BY <1>1, <2>2, <2>3
  <2>7. /\ nb \in [1..N -> KR!BuiltInRule]
        /\ \A j \in 1..N : nb[j].id = mid[j].id
    BY <2>3, RenumberFacts
  <2> HIDE DEF nb
  <2>8. {nb[i].id : i \in 1..N} = {b[i].id : i \in 1..N}
    <3>1. \A id : (\E i \in 1..N : nb[i].id = id) <=> \E i \in 1..N : b[i].id = id
      BY <2>6, <2>7
    <3> HIDE DEF b
    <3> QED
      BY <3>1
  <2>9. Kept(nb)
    BY <1>1, <2>5, <2>7, <2>8 DEF Kept
  <2> QED
    BY <2>4, <2>9 DEF ConfigOK, BuiltInKept, OthersKept
<1> QED
  BY <1>2, <1>3

LEMMA RestoreRules ==
  ASSUME NEW c, ConfigOK(c), NEW e, EditOK(e), e.op = "restore all",
         NEW new, new = KR!Change(c, e)
  PROVE  BuiltInKept(c, new, e)
<1>1. new = [c EXCEPT !.builtin = Defaults]
  BY DEF KR!Change
<1>2. DOMAIN new = Fields /\ new.builtin = Defaults /\ new.pre = c.pre /\ new.post = c.post
  BY <1>1 DEF ConfigOK, Fields
<1> QED
  BY <1>2, RulesFacts DEF ConfigOK, BuiltInKept, OthersKept

(* The edits of custom rules change one list.                               *)
ListKept(c, new, l) ==
  /\ ConfigOK(new) /\ new.builtin = c.builtin
  /\ \A m \in {"pre", "post"} \ {l} : new[m] = c[m]

WithList(c, l, s) == [c EXCEPT ![l] = s]

LEMMA ListChange ==
  ASSUME NEW c, ConfigOK(c), NEW l \in {"pre", "post"}, NEW s \in Seq(Customs)
  PROVE  ListKept(c, WithList(c, l, s), l) /\ WithList(c, l, s)[l] = s
<1> DEFINE new == WithList(c, l, s)
<1>1. /\ DOMAIN new = Fields /\ new[l] = s
      /\ \A m \in Fields \ {l} : new[m] = c[m]
  BY DEF ConfigOK, Fields, WithList
<1> HIDE DEF new
<1>2. new.builtin = c.builtin /\ \A m \in {"pre", "post"} \ {l} : new[m] = c[m]
  BY <1>1 DEF Fields
<1>3. new.pre \in Seq(Customs) /\ new.post \in Seq(Customs)
  BY <1>1, <1>2 DEF ConfigOK
<1> QED
  BY <1>1, <1>2, <1>3 DEF ListKept, ConfigOK, new

LEMMA AddOrDelete ==
  ASSUME NEW c, ConfigOK(c), NEW e, EditOK(e), e.op \in {"add", "delete"},
         NEW new, new = KR!Change(c, e)
  PROVE  ConfigOK(new) /\ new.builtin = c.builtin
<1>1. e.list \in {"pre", "post"} /\ e.rule \in Customs
  BY DEF EditOK
<1> PICK l \in {"pre", "post"} : l = e.list
  BY <1>1
<1>2. c[l] \in Seq(Customs)
  BY <1>1 DEF ConfigOK
<1>3. CASE e.op = "add"
  <2> DEFINE s == Append(c[l], e.rule)
  <2>1. new = WithList(c, l, s)
    BY <1>3 DEF KR!Change, WithList
  <2>2. s \in Seq(Customs)
    BY <1>1, <1>2
  <2> HIDE DEF s
  <2> QED
    BY <1>1, <2>1, <2>2, ListChange DEF ListKept
<1>4. CASE e.op = "delete"
  <2> DEFINE s == KR!Without(c[l], e.rule)
  <2>1. new = WithList(c, l, s)
    BY <1>4 DEF KR!Change, WithList
  <2>2. s \in Seq(Customs)
    BY <1>2, WithoutIsOK
  <2> HIDE DEF s
  <2> QED
    BY <1>1, <2>1, <2>2, ListChange DEF ListKept
<1> QED
  BY <1>3, <1>4

PlacesOf(s, r) == {i \in DOMAIN s : s[i] = r}

(* A custom rule that is moved is there as often as before: the places of   *)
(* the two lists are in bijection.                                          *)
LEMMA SwapFacts ==
  ASSUME NEW s \in Seq(Customs), NEW i \in DOMAIN s, NEW j \in DOMAIN s
  PROVE  /\ KR!Swap(s, i, j) \in Seq(Customs)
         /\ \A r : Cardinality(PlacesOf(KR!Swap(s, i, j), r)) = Cardinality(PlacesOf(s, r))
<1> DEFINE n == Len(s)
           x == KR!Swap(s, i, j)
           P(k) == IF k = i THEN j ELSE IF k = j THEN i ELSE k
<1>1. n \in Nat /\ DOMAIN s = 1..n /\ s \in [1..n -> Customs] /\ i \in 1..n /\ j \in 1..n
  OBVIOUS
<1>2. x \in [1..n -> Customs] /\ \A k \in 1..n : x[P(k)] = s[k] /\ P(k) \in 1..n
  BY <1>1 DEF KR!Swap
<1>3. x \in Seq(Customs)
  BY <1>1, <1>2, SeqDef
<1>4. \A k, l \in 1..n : P(P(k)) = k /\ (P(k) = P(l) => k = l)
  OBVIOUS
<1> HIDE DEF n, x, P
<1>5. ASSUME NEW r PROVE Cardinality(PlacesOf(x, r)) = Cardinality(PlacesOf(s, r))
  <2> DEFINE A == PlacesOf(s, r)
             B == PlacesOf(x, r)
             f == [k \in A |-> P(k)]
  <2>1. A \subseteq 1..n /\ B \subseteq 1..n
    BY <1>1, <1>2 DEF PlacesOf
  <2>2. \A k \in A : P(k) \in B
    BY <1>1, <1>2 DEF PlacesOf
  <2>3. \A k \in B : P(k) \in A /\ P(P(k)) = k
    BY <1>1, <1>2, <1>4 DEF PlacesOf
  <2> HIDE DEF A, B
  <2>4. f \in [A -> B] /\ \A k \in A : f[k] = P(k)
    BY <2>2
  <2>5. \A k, l \in A : f[k] = f[l] => k = l
    BY <1>4, <2>1, <2>4
  <2>6. \A k \in B : \E l \in A : f[l] = k
    BY <2>3, <2>4
  <2> HIDE DEF f
  <2>7. f \in Bijection(A, B)
    BY <2>4, <2>5, <2>6 DEF Bijection, Injection, Surjection, IsInjective
  <2>8. IsFiniteSet(A)
    <3>1. IsFiniteSet(1..n)
      BY <1>1, FS_Interval
    <3> QED
      BY <2>1, <3>1, FS_Subset
  <2>9. ExistsBijection(A, B)
    BY <2>7 DEF ExistsBijection
  <2>10. Cardinality(B) = Cardinality(A)
    BY <2>8, <2>9, FS_Bijection
  <2> QED
    BY <2>10 DEF A, B
<1> QED
  BY <1>3, <1>5 DEF x

LEMMA ShiftRule ==
  ASSUME NEW c, ConfigOK(c), NEW e, EditOK(e), e.op = "shift", ~KR!Panics(c, e),
         NEW new, new = KR!Change(c, e)
  PROVE  /\ ConfigOK(new) /\ new.builtin = c.builtin
         /\ \A r : KR!Count(new, r) = KR!Count(c, r)
<1>1. e.list \in {"pre", "post"}
  BY DEF EditOK
<1> PICK l \in {"pre", "post"} : l = e.list
  BY <1>1
<1>2. c[l] \in Seq(Customs)
  BY <1>1 DEF ConfigOK
<1>3. CASE e.to \notin DOMAIN c[l]
  BY <1>3 DEF KR!Change
<1>4. CASE e.to \in DOMAIN c[l]
  <2> DEFINE s == KR!Swap(c[l], e.at, e.to)
  <2>1. new = WithList(c, l, s)
    BY <1>4 DEF KR!Change, WithList
  <2>2. e.at \in DOMAIN c[l]
    BY <1>4 DEF KR!Panics
  <2>3. s \in Seq(Customs)
        /\ \A r : Cardinality(PlacesOf(s, r)) = Cardinality(PlacesOf(c[l], r))
    BY <1>2, <1>4, <2>2, SwapFacts
  <2> HIDE DEF s
  <2>4. ListKept(c, new, l) /\ new[l] = s
    BY <1>1, <2>1, <2>3, ListChange
  <2>5. \A r : /\ Cardinality(PlacesOf(new.pre, r)) = Cardinality(PlacesOf(c.pre, r))
               /\ Cardinality(PlacesOf(new.post, r)) = Cardinality(PlacesOf(c.post, r))
    BY <1>1, <2>3, <2>4 DEF ListKept
  <2>6. \A r : KR!Count(new, r) = KR!Count(c, r)
    <3>1. \A y, r : KR!Count(y, r) = Cardinality(PlacesOf(y.pre, r)) + Cardinality(PlacesOf(y.post, r))
      <4>1. \A S : KR!Cardinality(S) = Cardinality(S)
        BY DEF KR!Cardinality, Cardinality
      <4> QED
        BY <4>1 DEF KR!Count, PlacesOf
    <3> QED
      BY <2>5, <3>1
  <2> QED
    BY <2>4, <2>6 DEF ListKept
<1> QED
  BY <1>3, <1>4

(* The edits of other pages.                                                *)
LEMMA OtherEdits ==
  ASSUME NEW c, ConfigOK(c), NEW e, e.op \in {"policy", "mode", "default"},
         NEW new, new = KR!Change(c, e)
  PROVE  BuiltInKept(c, new, e) /\ new.builtin = c.builtin
<1> DEFINE p == KR!PolicySet(c.providers, e.name, e.policy)
<1>1. \/ new = [c EXCEPT !.providers = p]
      \/ new = [c EXCEPT !.mode = e.mode]
      \/ new = [c EXCEPT !.default = e.policy]
  BY DEF KR!Change
<1> HIDE DEF p
<1>2. DOMAIN new = Fields /\ new.builtin = c.builtin /\ new.pre = c.pre /\ new.post = c.post
  BY <1>1 DEF ConfigOK, Fields
<1> QED
  BY <1>2 DEF ConfigOK, BuiltInKept, OthersKept

(* What an accepted edit keeps.                                             *)
EditKept(c, new, e) ==
  /\ ConfigOK(new)
  /\ OthersKept(c, new, e)
  /\ e.op \notin {"add", "delete"} => \A r : KR!Count(new, r) = KR!Count(c, r)

LEMMA ChangeKeeps ==
  ASSUME NEW c, ConfigOK(c), NEW e, EditOK(e), e.op \notin {"none", "crashed"},
         ~KR!Panics(c, e), NEW new, new = KR!Change(c, e), KR!Valid(new)
  PROVE  EditKept(c, new, e)
<1>1. e.op \in Ops
  BY DEF EditOK
<1>2. BuiltInKept(c, new, e) => EditKept(c, new, e)
  BY DEF BuiltInKept, EditKept, KR!Count
<1>3. CASE e.op = "toggle"
  BY <1>2, <1>3, ToggleRule
<1>4. CASE e.op = "edit"
  BY <1>2, <1>4, EditRule
<1>5. CASE e.op = "reset"
  BY <1>2, <1>5, ResetRule
<1>6. CASE e.op = "move"
  BY <1>2, <1>6, MoveRule
<1>7. CASE e.op = "restore all"
  BY <1>2, <1>7, RestoreRules
<1>8. CASE e.op \in {"add", "delete"}
  BY <1>8, AddOrDelete DEF EditKept, OthersKept
<1>9. CASE e.op = "shift"
  BY <1>9, ShiftRule DEF EditKept, OthersKept
<1>10. CASE e.op \in {"policy", "mode", "default"}
  BY <1>2, <1>10, OtherEdits
<1> QED
  BY <1>1, <1>3, <1>4, <1>5, <1>6, <1>7, <1>8, <1>9, <1>10 DEF Ops

(* A commit takes the edit to the newest configuration, whatever has        *)
(* happened to it since the page was shown.                                 *)
LEMMA RulesCommit ==
  ASSUME RInv, NEW t \in Tuis, KR!Commit(t)
  PROVE  RInv' /\ KR!EditStep
<1> DEFINE e == page[t].edit
<1>1. EditOK(e) /\ e # KR!NoEdit /\ e.op # "crashed" /\ e.op # "none"
  BY DEF RInv, PagesOK, KR!Commit, EditOK
<1> PICK new : new = KR!Change(cfg, e)
  OBVIOUS
<1> DEFINE Same == cfg' = cfg
           Done == ~KR!Panics(cfg, e) /\ KR!Valid(new) /\ cfg' = new
<1>2. \/ Same /\ page' = [page EXCEPT ![t].edit = [op |-> "crashed"]]
      \/ Same /\ page' = [page EXCEPT ![t].edit = KR!NoEdit]
      \/ Done /\ page' = [page EXCEPT ![t] = [seen |-> new, edit |-> KR!NoEdit]]
  BY DEF KR!Commit
<1>3. Done => EditKept(cfg, new, e)
  BY <1>1, ChangeKeeps DEF RInv
<1>4. ConfigOK(cfg')
  BY <1>2, <1>3 DEF RInv, EditKept
<1>5. EditOK(KR!NoEdit) /\ EditOK([op |-> "crashed"])
  BY DEF EditOK, KR!NoEdit
<1>6. /\ DOMAIN page' = Tuis
      /\ \A u \in Tuis \ {t} : page'[u] = page[u]
      /\ DOMAIN page'[t] = {"seen", "edit"}
      /\ page'[t].edit \in {KR!NoEdit, [op |-> "crashed"]}
      /\ page'[t].seen = page[t].seen \/ (Done /\ page'[t].seen = new)
  <2>1. DOMAIN page = Tuis /\ DOMAIN page[t] = {"seen", "edit"}
    BY DEF RInv, PagesOK
  <2> HIDE DEF e, Done
  <2> QED
    BY <1>2, <2>1
<1>7. PagesOK'
  <2>1. ConfigOK(page'[t].seen) /\ EditOK(page'[t].edit)
    BY <1>3, <1>5, <1>6 DEF RInv, PagesOK, EditKept
  <2>2. \A u \in Tuis : page'[u] = page[u] \/ u = t
    BY <1>6
  <2> QED
    BY <1>6, <2>1, <2>2 DEF RInv, PagesOK
<1>8. KR!EditStep
  <2> SUFFICES ASSUME NEW u \in Tuis, page[u].edit # KR!NoEdit,
                      page'[u].edit = KR!NoEdit, cfg' # cfg
               PROVE  /\ {cfg'.builtin[i].id : i \in DOMAIN cfg'.builtin} = KR!Ids
                      /\ page[u].edit.op \in {"edit", "reset"} =>
                           \A id \in KR!Ids \ {IF page[u].edit.op = "edit" THEN page[u].edit.entry.id
                                                                           ELSE page[u].edit.id} :
                             KR!Unplaced(KR!Entry(cfg', id)) = KR!Unplaced(KR!Entry(cfg, id))
                      /\ page[u].edit.op \notin {"add", "delete"} =>
                           \A r \in Customs : KR!Count(cfg', r) = KR!Count(cfg, r)
    BY DEF KR!EditStep
  <2>1. u = t
    BY <1>6
  <2>2. Done
    BY <1>2
  <2>3. {new.builtin[i].id : i \in DOMAIN new.builtin} = KR!Ids
    BY <1>3, <2>2 DEF EditKept, ConfigOK, Kept
  <2> QED
    BY <1>3, <2>1, <2>2, <2>3 DEF EditKept, OthersKept
<1> QED
  BY <1>4, <1>7, <1>8 DEF RInv

(* Whatever else is done changes no list of rules.                          *)
LEMMA PagesKept ==
  ASSUME RInv, page' = page, DOMAIN cfg' = Fields, cfg'.builtin = cfg.builtin,
         cfg'.pre = cfg.pre, cfg'.post = cfg.post
  PROVE  RInv' /\ KR!EditStep
<1>1. RInv'
  BY DEF RInv, ConfigOK, PagesOK
<1>2. KR!EditStep
  BY DEF KR!EditStep
<1> QED
  BY <1>1, <1>2

LEMMA RulesKeep ==
  ASSUME RInv, KR!Next
  PROVE  RInv' /\ KR!EditStep
<1>0. DOMAIN cfg = Fields
  BY DEF RInv, ConfigOK
<1>1. ASSUME NEW t \in Tuis, NEW e \in KR!Offered(page[t].seen), KR!Press(t, e)
      PROVE  RInv' /\ KR!EditStep
  <2>1. cfg' = cfg /\ page' = [page EXCEPT ![t].edit = e]
    BY <1>1 DEF KR!Press
  <2>2. EditOK(e)
    BY <1>1, OfferedIsOK DEF RInv, PagesOK
  <2>3. /\ DOMAIN page' = Tuis /\ \A u \in Tuis \ {t} : page'[u] = page[u]
        /\ DOMAIN page'[t] = {"seen", "edit"}
        /\ page'[t].seen = page[t].seen /\ page'[t].edit = e
    BY <2>1 DEF RInv, PagesOK
  <2>4. RInv'
    BY <2>1, <2>2, <2>3 DEF RInv, PagesOK
  <2> QED
    BY <2>1, <2>4 DEF KR!EditStep
<1>2. ASSUME NEW t \in Tuis, KR!Show(t)
      PROVE  RInv' /\ KR!EditStep
  <2>1. cfg' = cfg /\ page' = [page EXCEPT ![t] = [seen |-> cfg, edit |-> KR!NoEdit]]
    BY <1>2 DEF KR!Show
  <2>2. EditOK(KR!NoEdit)
    BY DEF EditOK, KR!NoEdit
  <2>3. /\ DOMAIN page' = Tuis /\ \A u \in Tuis \ {t} : page'[u] = page[u]
        /\ DOMAIN page'[t] = {"seen", "edit"}
        /\ page'[t].seen = cfg /\ page'[t].edit = KR!NoEdit
    BY <2>1 DEF RInv, PagesOK
  <2>4. RInv'
    BY <2>1, <2>2, <2>3 DEF RInv, PagesOK
  <2> QED
    BY <2>1, <2>4 DEF KR!EditStep
<1>3. ASSUME NEW policy \in Policies, KR!Import(policy)
      PROVE  RInv' /\ KR!EditStep
  <2>1. page' = page /\ \E p : cfg' = [cfg EXCEPT !.providers = p]
    BY <1>3 DEF KR!Import
  <2> QED
    BY <1>0, <2>1, PagesKept DEF Fields
<1>4. ASSUME NEW name \in Names, KR!Delete(name)
      PROVE  RInv' /\ KR!EditStep
  <2>1. page' = page /\ \E p : cfg' = [cfg EXCEPT !.providers = p]
    BY <1>4 DEF KR!Delete
  <2> QED
    BY <1>0, <2>1, PagesKept DEF Fields
<1>5. ASSUME cfg' = cfg, page' = page
      PROVE  RInv' /\ KR!EditStep
  BY <1>0, <1>5, PagesKept
<1>6. ASSUME NEW op, NEW name, NEW url, KR!Ask(op, name, url)
      PROVE  cfg' = cfg /\ page' = page
  BY <1>6 DEF KR!Ask
<1>7. KR!FetchFails => cfg' = cfg /\ page' = page
  BY DEF KR!FetchFails
<1>8. KR!Refresh => cfg' = cfg /\ page' = page
  BY DEF KR!Refresh
<1>9. KR!AddSubscription => cfg' = cfg /\ page' = page
  BY DEF KR!AddSubscription
<1>10. ASSUME NEW works, KR!Apply(works) PROVE cfg' = cfg /\ page' = page
  BY <1>10 DEF KR!Apply
<1> QED
  BY <1>1, <1>2, <1>3, <1>4, <1>5, <1>6, <1>7, <1>8, <1>9, <1>10, RulesCommit DEF KR!Next

LEMMA RulesInvariant == Spec => [](part = "rules" => RInv)
<1>1. Init => (part = "rules" => RInv)
  <2> SUFFICES ASSUME KR!Init PROVE RInv
    BY DEF Init
  <2>1. EditOK(KR!NoEdit)
    BY DEF EditOK, KR!NoEdit
  <2>2. ConfigOK(cfg)
    BY RulesFacts DEF KR!Init, ConfigOK, Fields
  <2>3. page = [t \in Tuis |-> [seen |-> cfg, edit |-> KR!NoEdit]]
    BY DEF KR!Init
  <2> QED
    BY <2>1, <2>2, <2>3 DEF RInv, PagesOK
<1>2. (part = "rules" => RInv) /\ [Next]_state => (part = "rules" => RInv)'
  <2> SUFFICES ASSUME RInv, part = "rules", [Next]_state PROVE RInv'
    BY DEF Next, state
  <2>1. CASE UNCHANGED state
    BY <2>1, PagesKept DEF state, RInv, ConfigOK
  <2>2. CASE Next
    BY <2>2, RulesKeep DEF Next
  <2> QED
    BY <2>1, <2>2
<1> QED
  BY <1>1, <1>2, PTL DEF Spec

(* Whatever other pages have done to the rules since the user saw them, an  *)
(* edit that is accepted changes its own rule, and none is lost or doubled. *)
THEOREM EditsAreOfTheirRules == Spec => EditIsOfItsRule
<1>1. (part = "rules" => RInv) /\ [Next]_state => [part = "rules" => KR!EditStep]_state
  <2> SUFFICES ASSUME RInv, Next, part = "rules" PROVE KR!EditStep
    OBVIOUS
  <2> QED
    BY RulesKeep DEF Next
<1> QED
  BY <1>1, RulesInvariant, PTL DEF Spec, EditIsOfItsRule

-----------------------------------------------------------------------------
(* The types of KernelRules: the configuration stays one that Validate      *)
(* accepts.  It is asked at every commit, and has nothing to refuse in an   *)
(* import or a deletion.                                                    *)

(* A list of anything.                                                      *)
IsList(s) == s \in Seq({s[i] : i \in DOMAIN s})

LEMMA ListFacts ==
  /\ \A S : \A s \in Seq(S) : IsList(s)
  /\ \A s : IsList(s) => DOMAIN s = 1..Len(s) /\ Len(s) \in Nat
  /\ \A n \in Nat : \A s : DOMAIN s = 1..n /\ s = [i \in 1..n |-> s[i]] => IsList(s)
<1>1. ASSUME NEW n \in Nat, NEW s, DOMAIN s = 1..n, s = [i \in 1..n |-> s[i]]
      PROVE  IsList(s)
  <2>1. s \in [1..n -> {s[i] : i \in DOMAIN s}]
    BY <1>1
  <2> QED
    BY <2>1, SeqDef DEF IsList
<1>2. ASSUME NEW S, NEW s \in Seq(S) PROVE IsList(s)
  <2>1. Len(s) \in Nat /\ DOMAIN s = 1..Len(s) /\ s = [i \in 1..Len(s) |-> s[i]]
    OBVIOUS
  <2> QED
    BY <1>1, <2>1
<1>3. ASSUME NEW s, IsList(s) PROVE DOMAIN s = 1..Len(s) /\ Len(s) \in Nat
  BY <1>3 DEF IsList
<1> QED
  BY <1>1, <1>2, <1>3

Named(p) == \A i, j \in DOMAIN p : p[i].name = p[j].name => i = j

LEMMA ValidFirst == KR!Init => KR!Valid(cfg) /\ IsList(cfg.providers)
<1> SUFFICES ASSUME KR!Init PROVE KR!Valid(cfg) /\ IsList(cfg.providers)
  OBVIOUS
<1>1. /\ cfg.builtin = Defaults /\ cfg.pre = Legacy /\ cfg.post = <<>>
      /\ cfg.providers = <<>>
  BY DEF KR!Init
<1>2. /\ \A i, j \in DOMAIN Defaults : Defaults[i].id = Defaults[j].id => i = j
      /\ \A i \in DOMAIN Defaults :
           LET e == Defaults[i] IN
           /\ e.order = i /\ e.rule # ""
           /\ e.kind = "match" <=> i = N
           /\ e.kind = "match" => e.enabled
      /\ \A r \in Customs : r[1] # "MATCH"
      /\ DOMAIN Defaults = 1..N /\ Len(Defaults) = N
  BY SurroundingsAssumption, RulesFacts DEF KR!Assumptions, N
<1>3. KR!ToSet(cfg.pre) \cup KR!ToSet(cfg.post) \subseteq Customs
  BY <1>1, RulesFacts DEF KR!ToSet
<1>4. IsList(<<>>) /\ DOMAIN <<>> = {}
  <2>1. <<>> \in Seq({}) /\ DOMAIN <<>> = {}
    OBVIOUS
  <2> QED
    BY <2>1, ListFacts
<1> QED
  BY <1>1, <1>2, <1>3, <1>4 DEF KR!Valid

(* An edit keeps the rule subscriptions a list.                             *)
LEMMA CommitLists ==
  ASSUME NEW c, ConfigOK(c), IsList(c.providers), NEW e, EditOK(e),
         e.op \notin {"none", "crashed"}
  PROVE  IsList(KR!Change(c, e).providers)
<1> PICK new : new = KR!Change(c, e)
  OBVIOUS
<1>1. CASE e.op = "policy"
  <2> DEFINE p == KR!PolicySet(c.providers, e.name, e.policy)
  <2>1. new = [c EXCEPT !.providers = p]
    BY <1>1 DEF KR!Change
  <2>2. DOMAIN p = 1..Len(c.providers) /\ p = [i \in 1..Len(c.providers) |-> p[i]]
        /\ Len(c.providers) \in Nat
    BY ListFacts DEF KR!PolicySet
  <2> HIDE DEF p
  <2>3. new.providers = p
    BY <2>1 DEF ConfigOK, Fields
  <2> QED
    BY <2>2, <2>3, ListFacts
<1>2. CASE e.op \in {"toggle", "edit", "reset", "move", "restore all"}
  <2>1. \/ new = c
        \/ \E b : new = [c EXCEPT !.builtin = b]
    BY <1>2 DEF KR!Change
  <2>2. new.providers = c.providers
    BY <2>1 DEF ConfigOK, Fields
  <2> QED
    BY <2>2
<1>3. CASE e.op \in {"add", "delete", "shift"}
  <2>1. \/ new = c
        \/ \E s : new = [c EXCEPT ![e.list] = s]
    BY <1>3 DEF KR!Change
  <2>2. e.list # "providers"
    BY <1>3 DEF EditOK
  <2>3. new.providers = c.providers
    BY <2>1, <2>2 DEF ConfigOK, Fields
  <2> QED
    BY <2>3
<1>4. CASE e.op \in {"mode", "default"}
  <2>1. \/ new = [c EXCEPT !.mode = e.mode]
        \/ new = [c EXCEPT !.default = e.policy]
    BY <1>4 DEF KR!Change
  <2>2. new.providers = c.providers
    BY <2>1 DEF ConfigOK, Fields
  <2> QED
    BY <2>2
<1> QED
  BY <1>1, <1>2, <1>3, <1>4 DEF EditOK, Ops

(* What Validate says of the rules of c does not depend on its rule         *)
(* subscriptions, but that their names differ.                              *)
LEMMA OtherProviders ==
  ASSUME NEW c, DOMAIN c = Fields, KR!Valid(c), NEW p, Named(p),
         NEW new, new = [c EXCEPT !.providers = p]
  PROVE  KR!Valid(new)
<1> DEFINE Rest(builtin, pre, post) ==
             /\ \A i, j \in 1..Len(builtin) : builtin[i].id = builtin[j].id => i = j
             /\ \A i \in 1..Len(builtin) :
                  LET e == builtin[i] IN
                  /\ e.order = i /\ e.rule # ""
                  /\ e.kind = "match" <=> i = Len(builtin)
                  /\ e.kind = "match" => e.enabled
             /\ \A r \in KR!ToSet(pre) \cup KR!ToSet(post) : r[1] # "MATCH"
<1>1. /\ new.builtin = c.builtin /\ new.pre = c.pre /\ new.post = c.post
      /\ new.providers = p
  BY DEF Fields
<1>2. ASSUME NEW d
      PROVE  KR!Valid(d) <=> Rest(d.builtin, d.pre, d.post) /\ Named(d.providers)
  BY Zenon DEF KR!Valid, Named
<1> HIDE DEF Rest
<1> QED
  BY <1>1, <1>2

LEMMA SameNames ==
  ASSUME NEW p, Named(p), NEW q, DOMAIN q = DOMAIN p,
         \A i \in DOMAIN p : q[i].name = p[i].name
  PROVE  Named(q)
BY DEF Named

LEMMA RemovedAt ==
  ASSUME NEW S, NEW p \in Seq(S), Named(p), NEW at \in 1..Len(p)
  PROVE  LET q == KR!RemoveAt(p, at) IN q \in Seq(S) /\ Named(q)
<1> DEFINE n == Len(p)
           a == SubSeq(p, 1, at - 1)
           b == SubSeq(p, at + 1, n)
           q == a \o b
           P(k) == IF k < at THEN k ELSE k + 1
<1>1. DOMAIN p = 1..n /\ n \in Nat /\ at \in 1..n
  OBVIOUS
<1>2. /\ a \in Seq(S) /\ Len(a) = at - 1 /\ \A i \in 1..(at - 1) : a[i] = p[i]
      /\ b \in Seq(S) /\ Len(b) = n - at /\ \A i \in 1..(n - at) : b[i] = p[at + i]
  <2>1. /\ 1 \in Int /\ at - 1 \in Int /\ at + 1 \in Int /\ n \in Int /\ at \in Int
        /\ \A i \in 1..(at - 1) : p[i] \in S
        /\ \A i \in (at + 1)..n : p[i] \in S
    BY <1>1
  <2> HIDE DEF n
  <2>2. /\ a \in Seq(S) /\ Len(a) = IF 1 <= at - 1 THEN at - 1 - 1 + 1 ELSE 0
        /\ \A i \in 1..(at - 1 - 1 + 1) : a[i] = p[1 + i - 1]
    BY <2>1, SubSeqProperties
  <2>3. /\ b \in Seq(S) /\ Len(b) = IF at + 1 <= n THEN n - (at + 1) + 1 ELSE 0
        /\ \A i \in 1..(n - (at + 1) + 1) : b[i] = p[at + 1 + i - 1]
    BY <2>1, SubSeqProperties
  <2> HIDE DEF a, b
  <2>4. Len(a) = at - 1 /\ \A i \in 1..(at - 1) : a[i] = p[i]
    BY <1>1, <2>2
  <2>5. Len(b) = n - at /\ \A i \in 1..(n - at) : b[i] = p[at + i]
    <3>1. \A i \in 1..(n - at) : i \in 1..(n - (at + 1) + 1) /\ at + 1 + i - 1 = at + i
      BY <1>1
    <3>2. \A i \in 1..(n - at) : b[i] = p[at + i]
      BY <2>3, <3>1
    <3>3. Len(b) = n - at
      BY <1>1, <2>3
    <3> QED
      BY <3>2, <3>3
  <2> QED
    BY <2>2, <2>3, <2>4, <2>5
<1> HIDE DEF n, a, b
<1>3. /\ q \in Seq(S) /\ Len(q) = n - 1
      /\ \A k \in 1..(n - 1) : q[k] = IF k <= at - 1 THEN a[k] ELSE b[k - (at - 1)]
  <2>1. /\ q \in Seq(S) /\ Len(q) = Len(a) + Len(b)
        /\ \A k \in 1..(Len(a) + Len(b)) :
             q[k] = IF k <= Len(a) THEN a[k] ELSE b[k - Len(a)]
    BY <1>2, ConcatProperties
  <2>2. Len(a) = at - 1 /\ Len(a) + Len(b) = n - 1
    BY <1>1, <1>2
  <2> HIDE DEF q
  <2> QED
    BY <2>1, <2>2
<1> HIDE DEF q
<1>4. ASSUME NEW k \in 1..(n - 1) PROVE P(k) \in 1..n /\ q[k] = p[P(k)]
  <2>1. CASE k < at
    BY <1>1, <1>2, <1>3, <2>1
  <2>2. CASE k >= at
    <3>1. q[k] = b[k - (at - 1)] /\ k - (at - 1) \in 1..(n - at)
      BY <1>1, <1>3, <2>2
    <3>2. at + (k - (at - 1)) = k + 1
      BY <1>1
    <3>3. b[k - (at - 1)] = p[k + 1]
      BY <1>2, <3>1, <3>2
    <3> QED
      BY <1>1, <2>2, <3>1, <3>3
  <2> QED
    BY <1>1, <2>1, <2>2
<1>5. \A k, l \in 1..(n - 1) : P(k) = P(l) => k = l
  BY <1>1
<1> HIDE DEF P
<1>6. DOMAIN q = 1..(n - 1)
  BY <1>3
<1>7. Named(q)
  BY <1>1, <1>4, <1>5, <1>6 DEF Named
<1>8. q = KR!RemoveAt(p, at)
  BY DEF KR!RemoveAt, q, a, b, n
<1> QED
  BY <1>3, <1>7, <1>8

Imported(p, new) ==
  LET at == {i \in DOMAIN p : p[i].name = new.name}
  IN IF at = {} THEN Append(p, new)
     ELSE [i \in DOMAIN p |-> IF i \in at THEN new ELSE p[i]]

LEMMA ImportNames ==
  ASSUME NEW p, IsList(p), Named(p), NEW new
  PROVE  IsList(Imported(p, new)) /\ Named(Imported(p, new))
<1> DEFINE n == Len(p)
<1> PICK at : at = {i \in DOMAIN p : p[i].name = new.name}
  OBVIOUS
<1> PICK q : q = Imported(p, new)
  OBVIOUS
<1>0. q = IF at = {} THEN Append(p, new)
          ELSE [i \in DOMAIN p |-> IF i \in at THEN new ELSE p[i]]
  BY DEF Imported
<1>1. DOMAIN p = 1..n /\ n \in Nat
  BY ListFacts
<1>2. CASE at = {}
  <2> DEFINE S == {p[i] : i \in DOMAIN p} \cup {new}
  <2>1. p \in Seq(S)
    BY <1>1, SeqDef, p \in Seq({p[i] : i \in DOMAIN p}) DEF IsList
  <2>2. new \in S
    OBVIOUS
  <2> HIDE DEF S
  <2>3. /\ q \in Seq(S) /\ Len(q) = n + 1 /\ DOMAIN q = 1..(n + 1)
        /\ \A i \in 1..n : q[i] = p[i]
        /\ q[n + 1] = new
    BY <1>0, <1>2, <2>1, <2>2
  <2>4. \A i \in 1..n : p[i].name # new.name
    BY <1>1, <1>2
  <2> HIDE DEF n
  <2>5. \A i \in DOMAIN q : i \in 1..n \/ i = n + 1
    BY <1>1, <2>3
  <2>6. Named(q)
    BY <1>1, <2>3, <2>4, <2>5 DEF Named
  <2> QED
    BY <2>3, <2>6, ListFacts
<1>3. CASE at # {}
  <2>1. DOMAIN q = 1..n /\ q = [i \in 1..n |-> q[i]]
        /\ \A i \in 1..n : q[i].name = p[i].name
    BY <1>0, <1>1, <1>3
  <2>2. Named(q)
    BY <1>1, <2>1, SameNames
  <2> QED
    BY <1>1, <2>1, <2>2, ListFacts
<1> QED
  BY <1>2, <1>3

LEMMA DeleteNames ==
  ASSUME NEW p, IsList(p), Named(p), NEW name, \E i \in DOMAIN p : p[i].name = name
  PROVE  IsList(KR!RemoveRuleProvider(p, name)) /\ Named(KR!RemoveRuleProvider(p, name))
<1> DEFINE I == {i \in 1..Len(p) : p[i].name = name}
           at == KR!SelectInSeq(p, LAMBDA rp : rp.name = name)
<1>1. I \in SUBSET Nat /\ I # {} /\ p \in Seq({p[i] : i \in DOMAIN p})
  BY ListFacts DEF IsList
<1>2. at \in I
  <2>1. at = KR!Min(I)
    BY <1>1 DEF KR!SelectInSeq
  <2>2. \E x \in I : \A y \in I : x =< y
    BY <1>1, Least
  <2> HIDE DEF I
  <2>3. KR!Min(I) \in I
    BY <2>2 DEF KR!Min
  <2> QED
    BY <2>1, <2>3
<1>3. KR!RemoveRuleProvider(p, name) = KR!RemoveAt(p, at)
  BY <1>1 DEF KR!RemoveRuleProvider, KR!RemoveFirstMatch
<1> HIDE DEF at
<1>4. at \in 1..Len(p)
  BY <1>2
<1> QED
  BY <1>1, <1>3, <1>4, RemovedAt, ListFacts

TypedRules == KR!TypeOK /\ IsList(cfg.providers)

LEMMA RulesTypesStep ==
  ASSUME RInv, TypedRules, KR!Next
  PROVE  TypedRules'
<1>0. DOMAIN cfg = Fields /\ Named(cfg.providers) /\ KR!Valid(cfg) /\ IsList(cfg.providers)
  BY DEF RInv, ConfigOK, TypedRules, KR!TypeOK, KR!Valid, Named
<1>1. ASSUME NEW t \in Tuis, KR!Commit(t) PROVE TypedRules'
  <2>1. /\ UNCHANGED <<usable, file, behind>>
        /\ \/ UNCHANGED <<cfg, pending>>
           \/ /\ cfg' = KR!Change(cfg, page[t].edit) /\ KR!Valid(cfg')
              /\ pending' \in BOOLEAN
    BY <1>1 DEF KR!Commit
  <2>2. EditOK(page[t].edit) /\ page[t].edit.op \notin {"none", "crashed"}
    BY <1>1 DEF KR!Commit, RInv, PagesOK, EditOK
  <2>3. cfg' = KR!Change(cfg, page[t].edit) => IsList(cfg'.providers)
    BY <1>0, <2>2, CommitLists DEF RInv
  <2> QED
    BY <2>1, <2>3 DEF TypedRules, KR!TypeOK
<1>2. ASSUME NEW policy \in Policies, KR!Import(policy) PROVE TypedRules'
  <2> DEFINE new == [name |-> s5.name, url |-> s5.url, policy |-> policy]
             q == Imported(cfg.providers, new)
  <2>1. /\ cfg' = [cfg EXCEPT !.providers = q]
        /\ pending' \in BOOLEAN /\ UNCHANGED <<usable, file, behind>>
    BY <1>2 DEF KR!Import, KR!Find, Imported
  <2> HIDE DEF new
  <2>2. IsList(q) /\ Named(q)
    BY <1>0, ImportNames
  <2> HIDE DEF q
  <2>3. KR!Valid(cfg') /\ cfg'.providers = q
    BY <1>0, <2>1, <2>2, OtherProviders DEF Fields
  <2> QED
    BY <2>1, <2>2, <2>3 DEF TypedRules, KR!TypeOK
<1>3. ASSUME NEW name \in Names, KR!Delete(name) PROVE TypedRules'
  <2> DEFINE q == KR!RemoveRuleProvider(cfg.providers, name)
  <2>1. /\ cfg' = [cfg EXCEPT !.providers = q]
        /\ \E i \in DOMAIN cfg.providers : cfg.providers[i].name = name
        /\ behind' = behind \cup {"deleted"} /\ UNCHANGED <<usable, file, pending>>
    BY <1>3 DEF KR!Delete, KR!Find
  <2>2. IsList(q) /\ Named(q)
    BY <1>0, <2>1, DeleteNames
  <2> HIDE DEF q
  <2>3. KR!Valid(cfg') /\ cfg'.providers = q
    BY <1>0, <2>1, <2>2, OtherProviders DEF Fields
  <2> QED
    BY <2>1, <2>2, <2>3 DEF TypedRules, KR!TypeOK
<1>4. CASE KR!Refresh
  BY <1>4 DEF KR!Refresh, TypedRules, KR!TypeOK
<1>5. CASE KR!AddSubscription
  BY <1>5 DEF KR!AddSubscription, TypedRules, KR!TypeOK
<1>6. ASSUME NEW works \in BOOLEAN, KR!Apply(works) PROVE TypedRules'
  BY <1>6 DEF KR!Apply, TypedRules, KR!TypeOK
<1>7. CASE UNCHANGED <<cfg, usable, file, pending, behind>>
  BY <1>7 DEF TypedRules, KR!TypeOK
<1>8. KR!FetchFails => UNCHANGED <<cfg, usable, file, pending, behind>>
  BY DEF KR!FetchFails
<1>9. ASSUME NEW t \in Tuis, KR!Show(t) PROVE UNCHANGED <<cfg, usable, file, pending, behind>>
  BY <1>9 DEF KR!Show
<1>10. ASSUME NEW t \in Tuis, NEW e, KR!Press(t, e)
       PROVE  UNCHANGED <<cfg, usable, file, pending, behind>>
  BY <1>10 DEF KR!Press
<1>11. ASSUME NEW op, NEW name, NEW url, KR!Ask(op, name, url)
       PROVE  UNCHANGED <<cfg, usable, file, pending, behind>>
  BY <1>11 DEF KR!Ask
<1> QED
  BY <1>1, <1>2, <1>3, <1>4, <1>5, <1>6, <1>7, <1>8, <1>9, <1>10, <1>11 DEF KR!Next

LEMMA RulesTyped == Spec => [](part = "rules" => TypedRules)
<1>1. Init => (part = "rules" => TypedRules)
  <2> SUFFICES ASSUME KR!Init PROVE TypedRules
    BY DEF Init
  <2> QED
    BY ValidFirst DEF KR!Init, TypedRules, KR!TypeOK
<1>2. /\ part = "rules" => RInv
      /\ part = "rules" => TypedRules
      /\ [Next]_state
      => (part = "rules" => TypedRules)'
  <2> SUFFICES ASSUME RInv, TypedRules, part = "rules", [Next]_state PROVE TypedRules'
    BY DEF Next, state
  <2>1. CASE UNCHANGED state
    BY <2>1 DEF state, TypedRules, KR!TypeOK
  <2>2. CASE Next
    BY <2>2, RulesTypesStep DEF Next
  <2> QED
    BY <2>1, <2>2
<1> QED
  BY <1>1, <1>2, RulesInvariant, PTL DEF Spec
-----------------------------------------------------------------------------
(* ProxyPage.  An order R of the places I puts each of them at the number   *)
(* of places before it, so what is arranged is a sequence of all of them,   *)
(* in that order.                                                           *)
Orders(R, I) ==
  /\ \A i \in I : <<i, i>> \notin R
  /\ \A i, j \in I : i # j => <<i, j>> \in R \/ <<j, i>> \in R
  /\ \A i, j, k \in I : <<i, j>> \in R /\ <<j, k>> \in R => <<i, k>> \in R

Arrangement(r, s, I, R, n) ==
  /\ n \in Nat
  /\ \E f \in [1..n -> I] :
       /\ r = [k \in 1..n |-> s[f[k]]]
       /\ \A i \in I : \E k \in 1..n : f[k] = i
       /\ \A k, l \in 1..n : k < l => <<f[k], f[l]>> \in R

LEMMA ArrangedFacts ==
  ASSUME NEW s, NEW I, IsFiniteSet(I), NEW R, Orders(R, I)
  PROVE  Arrangement(PP!Arranged(s, I, R), s, I, R, Cardinality(I))
<1> USE DEF Orders
<1> DEFINE n == Cardinality(I)
           below(i) == {j \in I : <<j, i>> \in R}
           rank(i) == Cardinality(below(i))
<1>1. n \in Nat
  BY FS_CardinalityType
<1>2. ASSUME NEW i \in I
      PROVE  rank(i) \in 0..(n - 1)
  <2>1. below(i) \subseteq I /\ below(i) # I
    OBVIOUS
  <2> HIDE DEF below
  <2>2. IsFiniteSet(below(i)) /\ rank(i) =< n /\ rank(i) # n
    BY <2>1, FS_Subset
  <2>3. rank(i) \in Nat
    BY <2>2, FS_CardinalityType
  <2> HIDE DEF rank, n
  <2> QED
    BY <1>1, <2>2, <2>3
<1>3. ASSUME NEW i \in I, NEW j \in I, <<i, j>> \in R
      PROVE  rank(i) < rank(j)
  <2>1. below(i) \subseteq below(j) /\ i \in below(j) /\ i \notin below(i) /\ below(j) \subseteq I
    BY <1>3
  <2> HIDE DEF below
  <2>2. IsFiniteSet(below(j))
    BY <2>1, FS_Subset
  <2>3. rank(i) =< rank(j) /\ rank(i) # rank(j)
    BY <2>1, <2>2, FS_Subset
  <2>4. rank(i) \in Nat /\ rank(j) \in Nat
    BY <1>1, <1>2
  <2> HIDE DEF rank
  <2> QED
    BY <2>3, <2>4
<1>4. \A i, j \in I : rank(i) = rank(j) => i = j
  <2>1. SUFFICES ASSUME NEW i \in I, NEW j \in I, rank(i) = rank(j), i # j
                 PROVE  FALSE
    OBVIOUS
  <2>2. rank(i) \in Int /\ rank(j) \in Int
    BY <1>1, <1>2
  <2>3. rank(i) < rank(j) \/ rank(j) < rank(i)
    BY <1>3, <2>1
  <2> HIDE DEF rank
  <2> QED
    BY <2>1, <2>2, <2>3
<1> DEFINE g == [i \in I |-> rank(i) + 1]
<1>5. g \in Surjection(I, 1..n)
  <2>1. \A i \in I : rank(i) \in 0..(n - 1)
    BY <1>2
  <2> HIDE DEF rank
  <2>2. g \in [I -> 1..n]
    BY <1>1, <2>1
  <2>3. \A i, j \in I : g[i] = g[j] => i = j
    BY <1>1, <1>4, <2>1
  <2> HIDE DEF g
  <2>4. g \in Injection(I, 1..n)
    BY <2>2, <2>3 DEF Injection, IsInjective
  <2>5. IsFiniteSet(1..n) /\ Cardinality(1..n) = n
    BY <1>1, FS_Interval
  <2> QED
    BY <2>4, <2>5, FS_Injection
<1>6. \A k \in 1..n : \E i \in I : rank(i) = k - 1
  <2>1. \A k \in 1..n : \E i \in I : g[i] = k
    BY <1>5 DEF Surjection
  <2>2. \A i \in I : rank(i) \in 0..(n - 1)
    BY <1>2
  <2> HIDE DEF rank
  <2> QED
    BY <1>1, <2>1, <2>2
<1> DEFINE f == [k \in 1..n |-> CHOOSE i \in I : rank(i) = k - 1]
<1>7. f \in [1..n -> I] /\ \A k \in 1..n : rank(f[k]) = k - 1
  <2> HIDE DEF rank
  <2> QED
    BY <1>6
<1>8. PP!Arranged(s, I, R) = [k \in 1..n |-> s[f[k]]]
  BY DEF PP!Arranged, PP!Cardinality, Cardinality
<1> HIDE DEF rank, f
<1>9. ASSUME NEW i \in I PROVE \E k \in 1..n : f[k] = i
  <2>1. rank(i) \in 0..(n - 1)
    BY <1>2
  <2> DEFINE k == rank(i) + 1
  <2>2. k \in 1..n /\ k - 1 = rank(i)
    BY <1>1, <2>1
  <2> QED
    BY <1>4, <1>7, <2>2
<1>10. ASSUME NEW k \in 1..n, NEW l \in 1..n, k < l PROVE <<f[k], f[l]>> \in R
  <2>1. f[k] \in I /\ f[l] \in I /\ rank(f[k]) = k - 1 /\ rank(f[l]) = l - 1
    BY <1>7
  <2>2. f[k] # f[l]
    BY <1>1, <1>10, <2>1
  <2>3. CASE <<f[l], f[k]>> \in R
    BY <1>1, <1>3, <1>10, <2>1, <2>3
  <2> QED
    BY <2>1, <2>2, <2>3
<1> QED
  BY <1>1, <1>7, <1>8, <1>9, <1>10 DEF Arrangement

LEMMA IndexFacts ==
  ASSUME NEW X, NEW s \in Seq(X), PP!Named(s)
  PROVE  /\ \A i \in 1..Len(s) : PP!Index(s, s[i].name) = i
         /\ \A n : PP!Has(s, n) => /\ PP!Index(s, n) \in 1..Len(s)
                                   /\ s[PP!Index(s, n)].name = n
         /\ \A n : PP!Has(s, n) <=> \E i \in 1..Len(s) : s[i].name = n
<1> DEFINE I(n) == {i \in 1..Len(s) : s[i].name = n}
<1>0. Len(s) \in Nat /\ DOMAIN s = 1..Len(s)
  OBVIOUS
<1>1. ASSUME NEW n PROVE PP!Index(s, n) = IF I(n) # {} THEN PP!Min(I(n)) ELSE 0
  BY DEF PP!Index, PP!SelectInSeq
<1>2. ASSUME NEW i \in 1..Len(s) PROVE PP!Index(s, s[i].name) = i
  <2>1. \A j \in 1..Len(s) : s[j].name = s[i].name => j = i
    BY <1>0 DEF PP!Named
  <2>2. I(s[i].name) = {i}
    BY <2>1
  <2> HIDE DEF I
  <2>3. PP!Min({i}) = i
    BY DEF PP!Min
  <2> QED
    BY <1>1, <2>2, <2>3
<1>3. ASSUME NEW n, PP!Has(s, n) PROVE \E i \in 1..Len(s) : s[i].name = n
  BY <1>1, <1>3 DEF PP!Has
<1>4. ASSUME NEW n, NEW i \in 1..Len(s), s[i].name = n PROVE PP!Has(s, n) /\ PP!Index(s, n) = i
  BY <1>0, <1>2, <1>4 DEF PP!Has
<1> QED
  BY <1>2, <1>3, <1>4

Picks(s, I, r, f) ==
  /\ f \in [1..Len(r) -> I]
  /\ \A k \in 1..Len(r) : r[k] = s[f[k]]
  /\ \A i \in I : \E k \in 1..Len(r) : f[k] = i
  /\ \A k, l \in 1..Len(r) : k < l => f[k] < f[l]

LEMMA ChosenFacts ==
  ASSUME NEW X, NEW s \in Seq(X), NEW I \in SUBSET (1..Len(s)),
         NEW r, r = PP!Chosen(s, I)
  PROVE  r \in Seq(X) /\ \E f : Picks(s, I, r, f)
<1> DEFINE R == {p \in I \X I : p[1] < p[2]}
           n == Cardinality(I)
<1>1. Len(s) \in Nat /\ I \subseteq Nat
  OBVIOUS
<1>2. IsFiniteSet(I)
  <2>1. IsFiniteSet(1..Len(s))
    BY <1>1, FS_Interval
  <2> QED
    BY <2>1, FS_Subset
<1>3. \A i, j \in I : <<i, j>> \in R <=> i < j
  OBVIOUS
<1>4. r = PP!Arranged(s, I, R)
  BY DEF PP!Chosen
<1> HIDE DEF R
<1>5. Orders(R, I)
  BY <1>1, <1>3 DEF Orders
<1>6. Arrangement(r, s, I, R, n)
  BY <1>2, <1>4, <1>5, ArrangedFacts
<1> HIDE DEF n
<1>7. PICK f \in [1..n -> I] :
              /\ r = [k \in 1..n |-> s[f[k]]]
              /\ \A i \in I : \E k \in 1..n : f[k] = i
              /\ \A k, l \in 1..n : k < l => <<f[k], f[l]>> \in R
  BY <1>6 DEF Arrangement
<1>8. \A k \in 1..n : s[f[k]] \in X
  <2>1. \A i \in I : s[i] \in X
    OBVIOUS
  <2> QED
    BY <1>7, <2>1
<1>9. r \in Seq(X) /\ Len(r) = n
  BY <1>6, <1>7, <1>8, SeqDef DEF Arrangement
<1>10. \A k, l \in 1..n : k < l => f[k] < f[l]
  BY <1>3, <1>7
<1>11. Picks(s, I, r, f)
  BY <1>7, <1>9, <1>10 DEF Picks
<1> QED
  BY <1>9, <1>11

LEMMA SortedFacts ==
  ASSUME NEW s \in Seq(PP!Node), PP!Named(s), NEW r, r = PP!Sorted(s)
  PROVE  /\ r \in Seq(PP!Node) /\ PP!Named(r)
         /\ \A k \in 1..Len(r) : \E i \in 1..Len(s) : r[k] = s[i]
<1> DEFINE I == 1..Len(s)
           R == {p \in I \X I : PP!DelayLess(s[p[1]], s[p[2]])}
           n == Cardinality(I)
<1>1. Len(s) \in Nat /\ DOMAIN s = I
  OBVIOUS
<1>2. IsFiniteSet(I)
  BY <1>1, FS_Interval
<1>3. \A i, j \in I : <<i, j>> \in R <=> PP!DelayLess(s[i], s[j])
  OBVIOUS
<1>4. r = PP!Arranged(s, I, R)
  BY <1>1 DEF PP!Sorted
<1>5. \A i, j \in I : s[i].name = s[j].name => i = j
  BY <1>1 DEF PP!Named
<1>6. ASSUME NEW i \in I PROVE s[i].name \in Nat /\ s[i].delay \in Int
  <2>1. s[i] \in PP!Node
    OBVIOUS
  <2> QED
    BY <2>1 DEF PP!Node, PP!Testing, PP!Timeout
<1> HIDE DEF R, I
<1>7. \A i \in I : <<i, i>> \notin R
  BY <1>3, <1>6 DEF PP!DelayLess
<1>8. \A i, j \in I : i # j => <<i, j>> \in R \/ <<j, i>> \in R
  BY <1>3, <1>5, <1>6 DEF PP!DelayLess
<1>9. ASSUME NEW i \in I, NEW j \in I, NEW k \in I, <<i, j>> \in R, <<j, k>> \in R
      PROVE  <<i, k>> \in R
  <2>1. PP!DelayLess(s[i], s[j]) /\ PP!DelayLess(s[j], s[k])
    BY <1>3, <1>9
  <2>2. /\ s[i].name \in Nat /\ s[j].name \in Nat /\ s[k].name \in Nat
        /\ s[i].delay \in Int /\ s[j].delay \in Int /\ s[k].delay \in Int
    BY <1>6
  <2>3. PP!DelayLess(s[i], s[k])
    BY <2>1, <2>2 DEF PP!DelayLess
  <2> QED
    BY <1>3, <2>3
<1>10. Arrangement(r, s, I, R, n)
  BY <1>2, <1>4, <1>7, <1>8, <1>9, ArrangedFacts DEF Orders
<1> HIDE DEF n
<1>11. PICK f \in [1..n -> I] :
              /\ r = [k \in 1..n |-> s[f[k]]]
              /\ \A k, l \in 1..n : k < l => <<f[k], f[l]>> \in R
  BY <1>10 DEF Arrangement
<1>12. n \in Nat /\ \A k \in 1..n : s[f[k]] \in PP!Node
  <2>1. \A i \in I : s[i] \in PP!Node
    BY DEF I
  <2> QED
    BY <1>10, <1>11, <2>1 DEF Arrangement
<1>13. r \in Seq(PP!Node) /\ Len(r) = n
  BY <1>11, <1>12, SeqDef
<1>14. \A k, l \in 1..n : f[k] = f[l] => k = l
  <2>1. SUFFICES ASSUME NEW k \in 1..n, NEW l \in 1..n, f[k] = f[l], k # l
                 PROVE  FALSE
    OBVIOUS
  <2>2. k < l \/ l < k
    BY <1>12, <2>1
  <2> QED
    BY <1>7, <1>11, <2>1, <2>2
<1>15. PP!Named(r)
  BY <1>5, <1>11, <1>12, <1>13, <1>14 DEF PP!Named
<1> QED
  BY <1>11, <1>12, <1>13, <1>15 DEF I

Group == [name : STRING, nodes : Seq(PP!Node)]

Delay == {PP!Testing, PP!Timeout, -3} \cup Nat

ViewFields == {"groups", "groupName", "nodeName", "page"}

ViewOK(v) ==
  /\ DOMAIN v = ViewFields
  /\ v.groups \in Seq(Group) /\ PP!Named(v.groups)
  /\ \A i \in 1..Len(v.groups) : PP!Named(v.groups[i].nodes)

Mark(v, g, n) ==
  \E i \in 1..Len(v.groups) :
    /\ v.groups[i].name = g
    /\ \E j \in 1..Len(v.groups[i].nodes) :
         v.groups[i].nodes[j].name = n /\ v.groups[i].nodes[j].delay = PP!Testing

NoNewMarks(v, r) == \A g, n : Mark(r, g, n) => Mark(v, g, n)

SameGroups(v, r) == DOMAIN r = ViewFields /\ r.groups = v.groups

LEMMA SameGroupsOK ==
  ASSUME NEW v, NEW r, ViewOK(v), SameGroups(v, r)
  PROVE  ViewOK(r) /\ NoNewMarks(v, r)
BY DEF ViewOK, SameGroups, NoNewMarks, Mark

LEMMA CursorFacts ==
  ASSUME NEW v, DOMAIN v = ViewFields
  PROVE  /\ \A p : SameGroups(v, PP!Render(v, p))
         /\ SameGroups(v, PP!NormalizeNode(v))
         /\ SameGroups(v, PP!NormalizeGroup(v))
<1>1. \A p : SameGroups(v, PP!Render(v, p))
  BY DEF PP!Render, SameGroups, ViewFields
<1>2. ASSUME NEW w, DOMAIN w = ViewFields
      PROVE  SameGroups(w, PP!NormalizeNode(w))
  BY <1>2 DEF PP!NormalizeNode, SameGroups, ViewFields
<1> DEFINE w == IF PP!Has(v.groups, v.groupName) THEN v
                ELSE [v EXCEPT !.groupName = IF v.groups = <<>> THEN PP!NoGroup ELSE v.groups[1].name,
                               !.nodeName = PP!NoNode, !.page = 0]
<1>3. SameGroups(v, w)
  BY DEF SameGroups, ViewFields
<1>4. PP!NormalizeGroup(v) = PP!NormalizeNode(w)
  BY DEF PP!NormalizeGroup
<1> HIDE DEF w
<1>5. SameGroups(w, PP!NormalizeNode(w))
  BY <1>2, <1>3 DEF SameGroups
<1> QED
  BY <1>1, <1>2, <1>3, <1>4, <1>5 DEF SameGroups

LEMMA NodesFacts ==
  ASSUME NEW v, ViewOK(v)
  PROVE  /\ \A i \in 1..Len(v.groups) :
              /\ PP!Has(v.groups, v.groups[i].name)
              /\ PP!Index(v.groups, v.groups[i].name) = i
              /\ PP!NodesOf(v, v.groups[i].name) = v.groups[i].nodes
         /\ \A g : PP!NodesOf(v, g) \in Seq(PP!Node) /\ PP!Named(PP!NodesOf(v, g))
         /\ \A i \in 1..Len(v.groups) : v.groups[i] \in Group
<1>0. v.groups \in Seq(Group) /\ PP!Named(v.groups)
  BY DEF ViewOK
<1>1. \A i \in 1..Len(v.groups) : v.groups[i] \in Group /\ v.groups[i].nodes \in Seq(PP!Node)
  <2>1. \A x \in Group : x.nodes \in Seq(PP!Node)
    BY DEF Group
  <2>2. \A i \in 1..Len(v.groups) : v.groups[i] \in Group
    BY <1>0
  <2> QED
    BY <2>1, <2>2
<1>2. /\ \A i \in 1..Len(v.groups) : PP!Index(v.groups, v.groups[i].name) = i
      /\ \A g : PP!Has(v.groups, g) => PP!Index(v.groups, g) \in 1..Len(v.groups)
      /\ \A g : PP!Has(v.groups, g) <=> \E i \in 1..Len(v.groups) : v.groups[i].name = g
  BY <1>0, IndexFacts
<1>3. ASSUME NEW g PROVE PP!NodesOf(v, g) \in Seq(PP!Node) /\ PP!Named(PP!NodesOf(v, g))
  <2>1. PP!Named(<<>>) /\ <<>> \in Seq(PP!Node)
    BY DEF PP!Named
  <2> QED
    BY <1>1, <1>2, <2>1 DEF PP!NodesOf, ViewOK
<1> QED
  BY <1>1, <1>2, <1>3 DEF PP!NodesOf

LEMMA SetDelaysFacts ==
  ASSUME NEW v, ViewOK(v), NEW g, NEW new \in [1..Len(PP!NodesOf(v, g)) -> Delay],
         NEW r, r = PP!SetDelays(v, g, new)
  PROVE  /\ ViewOK(r)
         /\ \A h, m : Mark(r, h, m) =>
              \/ h # g /\ Mark(v, h, m)
              \/ h = g /\ \E j \in 1..Len(PP!NodesOf(v, g)) :
                            PP!NodesOf(v, g)[j].name = m /\ new[j] = PP!Testing
<1> DEFINE nodes == PP!NodesOf(v, g)
           at == PP!Index(v.groups, g)
           timed == [j \in 1..Len(nodes) |-> [nodes[j] EXCEPT !.delay = new[j]]]
<1>0. v.groups \in Seq(Group) /\ PP!Named(v.groups) /\ DOMAIN v = ViewFields
  BY DEF ViewOK
<1>1. CASE ~PP!Has(v.groups, g)
  <2>1. r = v
    BY <1>1 DEF PP!SetDelays
  <2>2. \A i \in 1..Len(v.groups) : v.groups[i].name # g
    BY <1>0, <1>1, IndexFacts
  <2> QED
    BY <2>1, <2>2 DEF Mark
<1>2. CASE PP!Has(v.groups, g)
  <2>1. at \in 1..Len(v.groups) /\ v.groups[at].name = g
    BY <1>0, <1>2, IndexFacts
  <2>2. v.groups[at].nodes = nodes /\ nodes \in Seq(PP!Node) /\ PP!Named(nodes)
        /\ v.groups[at] \in Group
    BY <2>1, NodesFacts
  <2>3. timed \in Seq(PP!Node) /\ Len(timed) = Len(nodes)
        /\ \A j \in 1..Len(nodes) : timed[j].name = nodes[j].name /\ timed[j].delay = new[j]
    <3> DEFINE x(j) == [nodes[j] EXCEPT !.delay = new[j]]
    <3>1. ASSUME NEW j \in 1..Len(nodes)
          PROVE  x(j) \in PP!Node /\ x(j).name = nodes[j].name /\ x(j).delay = new[j]
      <4>1. nodes[j] \in PP!Node /\ new[j] \in Delay
        BY <2>2
      <4> QED
        BY <4>1 DEF PP!Node, Delay
    <3>2. Len(nodes) \in Nat
      BY <2>2
    <3>3. timed = [j \in 1..Len(nodes) |-> x(j)]
      OBVIOUS
    <3> HIDE DEF nodes, x, timed
    <3>4. timed \in [1..Len(nodes) -> PP!Node]
      BY <3>1, <3>3
    <3>5. timed \in Seq(PP!Node) /\ Len(timed) = Len(nodes)
      BY <3>2, <3>4, SeqDef
    <3> QED
      BY <3>1, <3>3, <3>5
  <2>4. r = [v EXCEPT !.groups = [v.groups EXCEPT ![at] = [v.groups[at] EXCEPT !.nodes = timed]]]
    <3>1. DOMAIN nodes = 1..Len(nodes)
      BY <2>2
    <3>2. timed = [j \in DOMAIN v.groups[at].nodes |->
                     [v.groups[at].nodes[j] EXCEPT !.delay = new[j]]]
      BY <2>2, <3>1
    <3> HIDE DEF timed, nodes
    <3> QED
      BY <1>2, <3>2 DEF PP!SetDelays
  <2> DEFINE one == [v.groups[at] EXCEPT !.nodes = timed]
  <2> HIDE DEF timed, at, nodes
  <2>5. one \in Group /\ one.name = g /\ one.nodes = timed
    BY <2>1, <2>2, <2>3 DEF Group
  <2> HIDE DEF one
  <2>6. /\ DOMAIN r = ViewFields /\ r.groups \in Seq(Group) /\ Len(r.groups) = Len(v.groups)
        /\ r.groups[at] = one
        /\ \A i \in 1..Len(v.groups) : i # at => r.groups[i] = v.groups[i]
    BY <1>0, <2>1, <2>4, <2>5 DEF ViewFields, one
  <2>7. \A i \in 1..Len(v.groups) : r.groups[i].name = v.groups[i].name
    BY <2>1, <2>5, <2>6
  <2>8. \A i \in 1..Len(v.groups) : v.groups[i].name = g => i = at
    BY <1>0, <2>1 DEF PP!Named
  <2>9. PP!Named(timed)
    <3>1. DOMAIN nodes = 1..Len(nodes) /\ DOMAIN timed = 1..Len(nodes)
      BY <2>2, <2>3
    <3> QED
      BY <2>2, <2>3, <3>1 DEF PP!Named
  <2>10. PP!Named(r.groups)
    <3>1. DOMAIN r.groups = 1..Len(v.groups) /\ DOMAIN v.groups = 1..Len(v.groups)
      BY <1>0, <2>6
    <3> QED
      BY <1>0, <2>7, <3>1 DEF PP!Named
  <2>11. ViewOK(r)
    BY <2>5, <2>6, <2>9, <2>10 DEF ViewOK
  <2>12. ASSUME NEW h, NEW m, Mark(r, h, m)
         PROVE  \/ h # g /\ Mark(v, h, m)
                \/ h = g /\ \E j \in 1..Len(nodes) : nodes[j].name = m /\ new[j] = PP!Testing
    <3>1. PICK i \in 1..Len(v.groups) :
                 /\ r.groups[i].name = h
                 /\ \E j \in 1..Len(r.groups[i].nodes) :
                      /\ r.groups[i].nodes[j].name = m
                      /\ r.groups[i].nodes[j].delay = PP!Testing
      BY <2>6, <2>12 DEF Mark
    <3>2. CASE i = at
      <4>1. r.groups[i].nodes = timed /\ h = g
        BY <2>5, <2>6, <3>1, <3>2
      <4>2. \E j \in 1..Len(nodes) : timed[j].name = m /\ timed[j].delay = PP!Testing
        BY <2>3, <3>1, <4>1
      <4> QED
        BY <2>3, <4>1, <4>2
    <3>3. CASE i # at
      <4>1. r.groups[i] = v.groups[i]
        BY <2>6, <3>3
      <4>2. h # g
        BY <2>8, <3>1, <3>3, <4>1
      <4>3. Mark(v, h, m)
        BY <3>1, <4>1 DEF Mark
      <4> QED
        BY <4>2, <4>3
    <3> QED
      BY <3>2, <3>3
  <2> QED
    BY <2>11, <2>12 DEF nodes
<1> QED
  BY <1>1, <1>2

LEMMA NodesMarks ==
  ASSUME NEW v, ViewOK(v), NEW g,
         NEW nodes, nodes = PP!NodesOf(v, g)
  PROVE  /\ DOMAIN nodes = 1..Len(nodes)
         /\ \A j \in 1..Len(nodes) : nodes[j].delay \in Delay
         /\ \A j \in 1..Len(nodes) : nodes[j].delay = PP!Testing => Mark(v, g, nodes[j].name)
<1>1. nodes \in Seq(PP!Node)
  BY NodesFacts
<1>2. ASSUME NEW j \in 1..Len(nodes) PROVE nodes[j].delay \in Delay
  <2>1. nodes[j] \in PP!Node
    BY <1>1
  <2> QED
    BY <2>1 DEF PP!Node, Delay
<1>3. ASSUME NEW j \in 1..Len(nodes), nodes[j].delay = PP!Testing
      PROVE  Mark(v, g, nodes[j].name)
  <2>1. PP!Has(v.groups, g)
    BY DEF PP!NodesOf
  <2>2. PICK i \in 1..Len(v.groups) : v.groups[i].name = g
    BY <2>1, IndexFacts DEF ViewOK
  <2>3. nodes = v.groups[i].nodes
    BY <2>2, NodesFacts
  <2> QED
    BY <1>3, <2>2, <2>3 DEF Mark
<1> QED
  BY <1>1, <1>2, <1>3

LEMMA NodeDelayFacts ==
  ASSUME NEW v, ViewOK(v), NEW g, NEW n, NEW d \in Delay,
         NEW r, r = PP!SetNodeDelay(v, g, n, d)
  PROVE  /\ ViewOK(r)
         /\ \A h, m : Mark(r, h, m) =>
              \/ Mark(v, h, m) /\ ~(h = g /\ m = n)
              \/ h = g /\ m = n /\ d = PP!Testing
<1> PICK nodes : nodes = PP!NodesOf(v, g)
  OBVIOUS
<1> DEFINE new == [j \in 1..Len(nodes) |-> IF nodes[j].name = n THEN d ELSE nodes[j].delay]
<1>1. /\ DOMAIN nodes = 1..Len(nodes)
      /\ \A j \in 1..Len(nodes) : nodes[j].delay \in Delay
      /\ \A j \in 1..Len(nodes) : nodes[j].delay = PP!Testing => Mark(v, g, nodes[j].name)
  BY NodesMarks
<1>2. r = PP!SetDelays(v, g, new)
  BY <1>1 DEF PP!SetNodeDelay
<1>3. /\ new \in [1..Len(nodes) -> Delay]
      /\ \A j \in 1..Len(nodes) : new[j] = IF nodes[j].name = n THEN d ELSE nodes[j].delay
  BY <1>1
<1> HIDE DEF new
<1>4. /\ ViewOK(r)
      /\ \A h, m : Mark(r, h, m) =>
           \/ h # g /\ Mark(v, h, m)
           \/ h = g /\ \E j \in 1..Len(nodes) : nodes[j].name = m /\ new[j] = PP!Testing
  BY <1>2, <1>3, SetDelaysFacts
<1> QED
  BY <1>1, <1>3, <1>4

LEMMA MarkingFacts ==
  ASSUME NEW v, ViewOK(v), NEW g, NEW r, r = PP!MarkGroupTesting(v, g)
  PROVE  ViewOK(r) /\ \A h, m : Mark(r, h, m) => h = g \/ Mark(v, h, m)
<1> PICK nodes : nodes = PP!NodesOf(v, g)
  OBVIOUS
<1> DEFINE new == [j \in 1..Len(nodes) |-> IF nodes[j].name \in Direct THEN nodes[j].delay
                                           ELSE PP!Testing]
<1>1. DOMAIN nodes = 1..Len(nodes) /\ \A j \in 1..Len(nodes) : nodes[j].delay \in Delay
  BY NodesMarks
<1>2. r = PP!SetDelays(v, g, new)
  BY <1>1 DEF PP!MarkGroupTesting
<1>3. new \in [1..Len(nodes) -> Delay]
  BY <1>1 DEF Delay
<1> HIDE DEF new
<1> QED
  BY <1>2, <1>3, SetDelaysFacts

LEMMA ResolvingFacts ==
  ASSUME NEW v, ViewOK(v), NEW g, NEW r, r = PP!ResolveTesting(v, g)
  PROVE  ViewOK(r) /\ \A h, m : Mark(r, h, m) => h # g /\ Mark(v, h, m)
<1> PICK nodes : nodes = PP!NodesOf(v, g)
  OBVIOUS
<1> DEFINE new == [j \in 1..Len(nodes) |-> IF nodes[j].delay = PP!Testing THEN PP!Timeout
                                           ELSE nodes[j].delay]
<1>1. DOMAIN nodes = 1..Len(nodes) /\ \A j \in 1..Len(nodes) : nodes[j].delay \in Delay
  BY NodesMarks
<1>2. r = PP!SetDelays(v, g, new)
  BY <1>1 DEF PP!ResolveTesting
<1>3. new \in [1..Len(nodes) -> Delay] /\ \A j \in 1..Len(nodes) : new[j] # PP!Testing
  BY <1>1 DEF Delay, PP!Testing, PP!Timeout
<1> HIDE DEF new
<1>4. /\ ViewOK(r)
      /\ \A h, m : Mark(r, h, m) =>
           \/ h # g /\ Mark(v, h, m)
           \/ h = g /\ \E j \in 1..Len(nodes) : nodes[j].name = m /\ new[j] = PP!Testing
  BY <1>2, <1>3, SetDelaysFacts
<1> QED
  BY <1>3, <1>4

LEMMA ResultsFacts ==
  ASSUME NEW v, ViewOK(v), NEW g, NEW A, NEW delays \in [A -> Nat],
         NEW r, r = PP!ApplyDelays(v, g, delays)
  PROVE  ViewOK(r) /\ \A h, m : Mark(r, h, m) => Mark(v, h, m)
<1> PICK nodes : nodes = PP!NodesOf(v, g)
  OBVIOUS
<1> DEFINE new == [j \in 1..Len(nodes) |-> IF nodes[j].name \in DOMAIN delays
                                           THEN PP!Measured(delays[nodes[j].name])
                                           ELSE nodes[j].delay]
<1>1. /\ DOMAIN nodes = 1..Len(nodes)
      /\ \A j \in 1..Len(nodes) : nodes[j].delay \in Delay
      /\ \A j \in 1..Len(nodes) : nodes[j].delay = PP!Testing => Mark(v, g, nodes[j].name)
  BY NodesMarks
<1>2. r = PP!SetDelays(v, g, new)
  BY <1>1 DEF PP!ApplyDelays
<1>3. \A d \in Nat : PP!Measured(d) \in Delay /\ PP!Measured(d) # PP!Testing
  BY DEF PP!Measured, Delay, PP!Testing, PP!Timeout
<1>4. /\ new \in [1..Len(nodes) -> Delay]
      /\ \A j \in 1..Len(nodes) : new[j] = PP!Testing => nodes[j].delay = PP!Testing
  BY <1>1, <1>3
<1> HIDE DEF new
<1>5. /\ ViewOK(r)
      /\ \A h, m : Mark(r, h, m) =>
           \/ h # g /\ Mark(v, h, m)
           \/ h = g /\ \E j \in 1..Len(nodes) : nodes[j].name = m /\ new[j] = PP!Testing
  BY <1>2, <1>4, SetDelaysFacts
<1> QED
  BY <1>1, <1>4, <1>5

LEMMA SortFacts ==
  ASSUME NEW v, ViewOK(v), NEW p, NEW r, r = PP!SortAndFollow(v, p)
  PROVE  ViewOK(r) /\ NoNewMarks(v, r)
<1> DEFINE at == PP!Current(v)
           sorted == PP!Sorted(PP!CurrentNodes(v))
<1>0. v.groups \in Seq(Group) /\ PP!Named(v.groups) /\ DOMAIN v = ViewFields
  BY DEF ViewOK
<1>1. CASE v.groups = <<>>
  BY <1>1 DEF PP!SortAndFollow, NoNewMarks
<1>2. CASE v.groups # <<>>
  <2>1. at \in 1..Len(v.groups) /\ v.groups[at] \in Group
    <3>1. PP!Has(v.groups, v.groupName) => at \in 1..Len(v.groups)
      BY <1>0, IndexFacts DEF PP!Current
    <3>2. 1 \in 1..Len(v.groups)
      BY <1>0, <1>2
    <3>3. at \in 1..Len(v.groups)
      BY <3>1, <3>2 DEF PP!Current
    <3> QED
      BY <3>3, NodesFacts
  <2>2. PP!CurrentNodes(v) = v.groups[at].nodes
    BY <1>2 DEF PP!CurrentNodes
  <2> HIDE DEF at
  <2>3. v.groups[at].nodes \in Seq(PP!Node) /\ PP!Named(v.groups[at].nodes)
    BY <2>1 DEF Group, ViewOK
  <2>4. /\ sorted \in Seq(PP!Node) /\ PP!Named(sorted)
        /\ \A k \in 1..Len(sorted) : \E i \in 1..Len(v.groups[at].nodes) :
             sorted[k] = v.groups[at].nodes[i]
    BY <2>2, <2>3, SortedFacts
  <2> DEFINE one == [v.groups[at] EXCEPT !.nodes = sorted]
  <2>5. DOMAIN r = ViewFields /\ r.groups = [v.groups EXCEPT ![at] = one]
    <3>1. \E q : r = [v EXCEPT !.groups[at].nodes = sorted, !.page = q]
      BY <1>2 DEF PP!SortAndFollow, at
    <3> HIDE DEF sorted
    <3> QED
      BY <1>0, <3>1 DEF ViewFields
  <2> HIDE DEF sorted
  <2>6. one \in Group /\ one.name = v.groups[at].name /\ one.nodes = sorted
    BY <2>1, <2>4 DEF Group
  <2> HIDE DEF one
  <2>7. /\ r.groups \in Seq(Group) /\ Len(r.groups) = Len(v.groups)
        /\ r.groups[at] = one
        /\ \A i \in 1..Len(v.groups) : i # at => r.groups[i] = v.groups[i]
    BY <1>0, <2>1, <2>5, <2>6
  <2>8. PP!Named(r.groups)
    <3>1. DOMAIN r.groups = 1..Len(v.groups) /\ DOMAIN v.groups = 1..Len(v.groups)
      BY <1>0, <2>7
    <3>2. \A i \in 1..Len(v.groups) : r.groups[i].name = v.groups[i].name
      BY <2>6, <2>7
    <3> QED
      BY <1>0, <3>1, <3>2 DEF PP!Named
  <2>9. ViewOK(r)
    BY <2>4, <2>5, <2>6, <2>7, <2>8 DEF ViewOK
  <2>10. ASSUME NEW g, NEW n, Mark(r, g, n) PROVE Mark(v, g, n)
    <3>1. PICK i \in 1..Len(v.groups) :
                 /\ r.groups[i].name = g
                 /\ \E j \in 1..Len(r.groups[i].nodes) :
                      /\ r.groups[i].nodes[j].name = n
                      /\ r.groups[i].nodes[j].delay = PP!Testing
      BY <2>7, <2>10 DEF Mark
    <3>2. CASE i = at
      <4>1. v.groups[i].name = g /\ r.groups[i].nodes = sorted
        BY <2>6, <2>7, <3>1, <3>2
      <4>2. PICK j \in 1..Len(sorted) : sorted[j].name = n /\ sorted[j].delay = PP!Testing
        BY <3>1, <4>1
      <4>3. \E k \in 1..Len(v.groups[i].nodes) : sorted[j] = v.groups[i].nodes[k]
        BY <2>4, <3>2
      <4> QED
        BY <4>1, <4>2, <4>3 DEF Mark
    <3>3. CASE i # at
      <4>1. r.groups[i] = v.groups[i]
        BY <2>7, <3>3
      <4> QED
        BY <3>1, <4>1 DEF Mark
    <3> QED
      BY <3>2, <3>3
  <2> QED
    BY <2>9, <2>10 DEF NoNewMarks
<1> QED
  BY <1>1, <1>2
Fetched == [name : Nat \ {PP!NoNode}, delay : {PP!Timeout, -3} \cup Nat]

FetchedGroup == [name : STRING, nodes : Seq(Fetched)]

Stays(e, s, r, m, f) ==
  /\ m \in Nat /\ f \in [1..m -> 1..Len(e)]
  /\ \A k, l \in 1..m : k < l => f[k] < f[l]
  /\ \A k \in 1..m : /\ r[k].name = e[f[k]].name
                     /\ e[f[k]].delay = PP!Testing <=> r[k].delay = PP!Testing
                     /\ PP!Has(s, r[k].name)
  /\ \A i \in 1..Len(e) : PP!Has(s, e[i].name) => \E k \in 1..m : f[k] = i

Comes(e, s, r, m, n, g) ==
  /\ n \in Nat /\ g \in [1..n -> 1..Len(s)]
  /\ \A k, l \in 1..n : k < l => g[k] < g[l]
  /\ \A k \in 1..n : r[m + k] = s[g[k]] /\ ~PP!Has(e, s[g[k]].name)

LEMMA MergeShape ==
  ASSUME NEW e \in Seq(PP!Node), PP!Named(e), NEW s \in Seq(Fetched), PP!Named(s),
         NEW r, r = PP!MergeProxyNodes(e, s)
  PROVE  /\ r \in Seq(PP!Node)
         /\ \E m, n \in Nat : /\ Len(r) = m + n
                              /\ \E f : Stays(e, s, r, m, f)
                              /\ \E g : Comes(e, s, r, m, n, g)
<1> DEFINE A == {i \in 1..Len(e) : PP!Has(s, e[i].name)}
           B == {i \in 1..Len(s) : ~PP!Has(e, s[i].name)}
           stays == PP!Chosen(e, A)
           news == PP!Chosen(s, B)
           Unseen(x) == IF x.delay = PP!Testing THEN x ELSE s[PP!Index(s, x.name)]
           fresh == [i \in DOMAIN stays |-> Unseen(stays[i])]
           m == Len(stays)
           n == Len(news)
<1>1. r = fresh \o news
  <2>1. DOMAIN e = 1..Len(e) /\ DOMAIN s = 1..Len(s)
    OBVIOUS
  <2>2. /\ stays = PP!Chosen(e, {i \in DOMAIN e : PP!Has(s, e[i].name)})
        /\ news = PP!Chosen(s, {i \in DOMAIN s : ~PP!Has(e, s[i].name)})
    BY <2>1
  <2> HIDE DEF stays, news
  <2> QED
    BY <2>2 DEF PP!MergeProxyNodes
<1>2. Fetched \subseteq PP!Node /\ \A x \in Fetched : x.delay # PP!Testing
  BY DEF Fetched, PP!Node, PP!Testing, PP!Timeout
<1>3. A \in SUBSET (1..Len(e)) /\ B \in SUBSET (1..Len(s))
  OBVIOUS
<1>4. \A i \in A : PP!Has(s, e[i].name)
  OBVIOUS
<1>5. \A i \in B : ~PP!Has(e, s[i].name)
  OBVIOUS
<1>6. \A i \in 1..Len(e) : PP!Has(s, e[i].name) => i \in A
  OBVIOUS
<1> HIDE DEF A, B
<1>7. stays \in Seq(PP!Node) /\ \E f : Picks(e, A, stays, f)
  BY <1>3, ChosenFacts
<1>8. news \in Seq(Fetched) /\ \E g : Picks(s, B, news, g)
  BY <1>3, ChosenFacts
<1> HIDE DEF stays, news
<1>9. PICK f, g : Picks(e, A, stays, f) /\ Picks(s, B, news, g)
  BY <1>7, <1>8
<1>10. ASSUME NEW k \in 1..m
       PROVE  /\ Unseen(stays[k]) \in PP!Node
              /\ Unseen(stays[k]).name = stays[k].name
              /\ Unseen(stays[k]).delay = PP!Testing <=> stays[k].delay = PP!Testing
  <2>1. stays[k] \in PP!Node
    BY <1>7
  <2>2. f[k] \in A /\ stays[k] = e[f[k]]
    BY <1>9 DEF Picks
  <2>3. stays[k] \in PP!Node /\ PP!Has(s, stays[k].name)
    BY <1>4, <2>1, <2>2
  <2>4. /\ PP!Index(s, stays[k].name) \in 1..Len(s)
        /\ s[PP!Index(s, stays[k].name)].name = stays[k].name
    BY <2>3, IndexFacts
  <2>5. s[PP!Index(s, stays[k].name)] \in Fetched
    BY <2>4
  <2> QED
    BY <1>2, <2>3, <2>4, <2>5
<1>11. m \in Nat /\ n \in Nat /\ DOMAIN stays = 1..m
  BY <1>7, <1>8
<1> HIDE DEF Unseen
<1>12. fresh \in [1..m -> PP!Node] /\ \A k \in 1..m : fresh[k] = Unseen(stays[k])
  BY <1>10, <1>11
<1>13. news \in Seq(PP!Node) /\ n = Len(news)
  BY <1>2, <1>8
<1>14. m = Len(stays)
  OBVIOUS
<1> HIDE DEF fresh, m, n
<1>15. fresh \in Seq(PP!Node) /\ Len(fresh) = m
  BY <1>11, <1>12, SeqDef
<1>16. /\ r \in Seq(PP!Node) /\ Len(r) = m + n
       /\ \A k \in 1..m : r[k] = fresh[k]
       /\ \A k \in 1..n : r[m + k] = news[k]
  <2>1. r \in Seq(PP!Node) /\ Len(r) = m + n
    <3>1. \A x, y \in Seq(PP!Node) : x \o y \in Seq(PP!Node) /\ Len(x \o y) = Len(x) + Len(y)
      OBVIOUS
    <3> QED
      BY <1>1, <1>15, <1>13, <3>1
  <2>2. ASSUME NEW k \in 1..m PROVE r[k] = fresh[k]
    BY <1>1, <1>11, <1>15, <1>13
  <2>3. ASSUME NEW k \in 1..n PROVE r[m + k] = news[k]
    BY <1>1, <1>11, <1>15, <1>13
  <2> QED
    BY <2>1, <2>2, <2>3
<1>17. /\ f \in [1..m -> A] /\ \A k \in 1..m : stays[k] = e[f[k]] /\ f[k] \in A
       /\ \A i \in A : \E k \in 1..m : f[k] = i
       /\ \A k, l \in 1..m : k < l => f[k] < f[l]
  BY <1>9, <1>14 DEF Picks
<1>18. Stays(e, s, r, m, f)
  <2>1. f \in [1..m -> 1..Len(e)]
    BY <1>3, <1>17
  <2>2. ASSUME NEW k \in 1..m
        PROVE  /\ r[k].name = e[f[k]].name
               /\ e[f[k]].delay = PP!Testing <=> r[k].delay = PP!Testing
               /\ PP!Has(s, r[k].name)
    BY <1>4, <1>10, <1>12, <1>16, <1>17
  <2>3. \A i \in 1..Len(e) : PP!Has(s, e[i].name) => \E k \in 1..m : f[k] = i
    BY <1>6, <1>17
  <2> QED
    BY <1>11, <1>17, <2>1, <2>2, <2>3 DEF Stays
<1>19. Comes(e, s, r, m, n, g)
  <2>1. /\ g \in [1..n -> B] /\ \A k \in 1..n : news[k] = s[g[k]] /\ g[k] \in B
        /\ \A k, l \in 1..n : k < l => g[k] < g[l]
    BY <1>9, <1>13 DEF Picks
  <2>2. g \in [1..n -> 1..Len(s)]
    BY <1>3, <2>1
  <2> QED
    BY <1>5, <1>11, <1>16, <2>1, <2>2 DEF Comes
<1> QED
  BY <1>11, <1>16, <1>18, <1>19

LEMMA MergeFacts ==
  ASSUME NEW e \in Seq(PP!Node), PP!Named(e), NEW s \in Seq(Fetched), PP!Named(s),
         NEW r, r = PP!MergeProxyNodes(e, s)
  PROVE  /\ r \in Seq(PP!Node) /\ PP!Named(r)
         /\ \A k \in 1..Len(r) : r[k].delay = PP!Testing =>
              \E i \in 1..Len(e) : e[i].name = r[k].name /\ e[i].delay = PP!Testing
         /\ \A i, j \in 1..Len(e) :
              PP!Has(r, e[i].name) /\ PP!Has(r, e[j].name) =>
                /\ i < j => PP!Index(r, e[i].name) < PP!Index(r, e[j].name)
                /\ e[i].delay = PP!Testing =>
                     r[PP!Index(r, e[i].name)].delay = PP!Testing
<1>1. r \in Seq(PP!Node)
  BY MergeShape
<1>2. PICK m \in Nat, n \in Nat : /\ Len(r) = m + n
                                  /\ \E f : Stays(e, s, r, m, f)
                                  /\ \E g : Comes(e, s, r, m, n, g)
  BY MergeShape
<1>3. PICK f : Stays(e, s, r, m, f)
  BY <1>2
<1>4. PICK g : Comes(e, s, r, m, n, g)
  BY <1>2
<1>5. DOMAIN r = 1..Len(r) /\ DOMAIN e = 1..Len(e) /\ DOMAIN s = 1..Len(s)
  BY <1>1
<1>6. ASSUME NEW k \in 1..Len(r), k \notin 1..m
      PROVE  k - m \in 1..n /\ r[k] = s[g[k - m]] /\ ~PP!Has(e, r[k].name)
  <2>1. k - m \in 1..n /\ m + (k - m) = k
    BY <1>2, <1>6
  <2> QED
    BY <1>4, <2>1 DEF Comes
<1>7. \A i \in 1..Len(e) : PP!Has(e, e[i].name)
  BY IndexFacts
<1>8. ASSUME NEW k \in 1..m
      PROVE  k \in 1..Len(r) /\ f[k] \in 1..Len(e) /\ PP!Has(e, r[k].name)
  <2>1. k \in 1..Len(r)
    BY <1>2
  <2>2. f[k] \in 1..Len(e) /\ r[k].name = e[f[k]].name
    BY <1>3 DEF Stays
  <2> QED
    BY <1>7, <2>1, <2>2
<1>9. ASSUME NEW k \in 1..Len(r), NEW l \in 1..Len(r), r[k].name = r[l].name
      PROVE  k = l
  <2>1. CASE k \in 1..m /\ l \in 1..m
    <3>1. /\ f[k] \in 1..Len(e) /\ f[l] \in 1..Len(e)
          /\ r[k].name = e[f[k]].name /\ r[l].name = e[f[l]].name
      BY <1>3, <1>8, <2>1 DEF Stays
    <3>2. f[k] = f[l]
      BY <1>5, <1>9, <3>1 DEF PP!Named
    <3>3. f[k] \in Int /\ k \in Int /\ l \in Int /\ (k < l => f[k] < f[l]) /\ (l < k => f[l] < f[k])
      BY <1>3, <1>8, <2>1 DEF Stays
    <3> QED
      BY <3>2, <3>3
  <2>2. CASE k \notin 1..m /\ l \notin 1..m
    <3>1. /\ k - m \in 1..n /\ l - m \in 1..n
          /\ s[g[k - m]].name = s[g[l - m]].name
      BY <1>6, <1>9, <2>2
    <3>2. g[k - m] \in 1..Len(s) /\ g[l - m] \in 1..Len(s)
      BY <1>4, <3>1 DEF Comes
    <3>3. g[k - m] = g[l - m]
      BY <1>5, <3>1, <3>2 DEF PP!Named
    <3>4. /\ g[k - m] \in Int
          /\ k - m < l - m => g[k - m] < g[l - m]
          /\ l - m < k - m => g[l - m] < g[k - m]
      BY <1>4, <3>1, <3>2 DEF Comes
    <3>5. ~(k - m < l - m) /\ ~(l - m < k - m)
      BY <3>3, <3>4
    <3> QED
      BY <1>2, <3>5
  <2> QED
    BY <1>6, <1>8, <1>9, <2>1, <2>2
<1>10. PP!Named(r)
  BY <1>5, <1>9 DEF PP!Named
<1>11. ASSUME NEW k \in 1..Len(r), r[k].delay = PP!Testing
       PROVE  \E i \in 1..Len(e) : e[i].name = r[k].name /\ e[i].delay = PP!Testing
  <2>1. CASE k \in 1..m
    BY <1>3, <1>8, <1>11, <2>1 DEF Stays
  <2>2. CASE k \notin 1..m
    <3>1. k - m \in 1..n /\ r[k] = s[g[k - m]]
      BY <1>6, <2>2
    <3>2. s[g[k - m]] \in Fetched
      BY <1>4, <3>1 DEF Comes
    <3>3. \A x \in Fetched : x.delay # PP!Testing
      BY DEF Fetched, PP!Testing, PP!Timeout
    <3> QED
      BY <1>11, <3>1, <3>2, <3>3
  <2> QED
    BY <2>1, <2>2
<1>12. ASSUME NEW i \in 1..Len(e), PP!Has(r, e[i].name)
       PROVE  /\ PP!Index(r, e[i].name) \in 1..m
              /\ f[PP!Index(r, e[i].name)] = i
  <2> DEFINE k == PP!Index(r, e[i].name)
  <2>1. k \in 1..Len(r) /\ r[k].name = e[i].name
    BY <1>1, <1>10, <1>12, IndexFacts
  <2> HIDE DEF k
  <2>2. k \in 1..m
    BY <1>6, <1>7, <2>1
  <2>3. f[k] \in 1..Len(e) /\ e[f[k]].name = e[i].name
    BY <1>3, <1>8, <2>1, <2>2 DEF Stays
  <2>4. f[k] = i
    BY <1>5, <2>3 DEF PP!Named
  <2> QED
    BY <2>2, <2>4 DEF k
<1>13. ASSUME NEW i \in 1..Len(e), NEW j \in 1..Len(e), i < j,
              PP!Has(r, e[i].name), PP!Has(r, e[j].name)
       PROVE  PP!Index(r, e[i].name) < PP!Index(r, e[j].name)
  <2> DEFINE k == PP!Index(r, e[i].name)
             l == PP!Index(r, e[j].name)
  <2>1. k \in 1..m /\ l \in 1..m /\ f[k] = i /\ f[l] = j
    BY <1>12, <1>13
  <2> HIDE DEF k, l
  <2>2. ~(l < k) /\ l # k
    BY <1>3, <1>13, <2>1 DEF Stays
  <2>3. k < l
    BY <2>1, <2>2
  <2> QED
    BY <2>3 DEF k, l
<1>14. ASSUME NEW i \in 1..Len(e), PP!Has(r, e[i].name), e[i].delay = PP!Testing
       PROVE  r[PP!Index(r, e[i].name)].delay = PP!Testing
  BY <1>3, <1>12, <1>14 DEF Stays
<1> QED
  BY <1>1, <1>10, <1>11, <1>13, <1>14

LEMMA AnswerFacts ==
  ASSUME NEW v, ViewOK(v), NEW s \in PP!Answer, PP!Named(s),
         \A i \in DOMAIN s : PP!Named(s[i].nodes),
         NEW gs, gs = [i \in DOMAIN s |-> [s[i] EXCEPT !.nodes =
                         PP!MergeProxyNodes(PP!NodesOf(v, s[i].name), s[i].nodes)]],
         NEW r, DOMAIN r = ViewFields, r.groups = gs
  PROVE  /\ ViewOK(r) /\ NoNewMarks(v, r)
         /\ \A g : PP!Has(gs, g) =>
              \E n \in Seq(Fetched) :
                PP!Named(n) /\ PP!NodesOf(r, g) = PP!MergeProxyNodes(PP!NodesOf(v, g), n)
<1> DEFINE Old(i) == PP!NodesOf(v, s[i].name)
           New(i) == PP!MergeProxyNodes(Old(i), s[i].nodes)
<1>1. s \in Seq(FetchedGroup)
  BY DEF PP!Answer, Fetched, FetchedGroup
<1>2. Len(s) \in Nat /\ DOMAIN s = 1..Len(s)
  BY <1>1
<1>3. ASSUME NEW i \in 1..Len(s)
      PROVE  s[i] \in FetchedGroup /\ s[i].nodes \in Seq(Fetched) /\ PP!Named(s[i].nodes)
  <2>1. s[i] \in FetchedGroup
    BY <1>1
  <2> QED
    BY <1>2, <2>1 DEF FetchedGroup
<1>4. ASSUME NEW i \in 1..Len(s)
      PROVE  /\ New(i) \in Seq(PP!Node) /\ PP!Named(New(i))
             /\ \A k \in 1..Len(New(i)) : New(i)[k].delay = PP!Testing =>
                  \E j \in 1..Len(Old(i)) : /\ Old(i)[j].name = New(i)[k].name
                                            /\ Old(i)[j].delay = PP!Testing
  <2>1. Old(i) \in Seq(PP!Node) /\ PP!Named(Old(i))
    BY NodesFacts
  <2> DEFINE new == New(i)
             old == Old(i)
  <2>2. new = PP!MergeProxyNodes(old, s[i].nodes) /\ old \in Seq(PP!Node) /\ PP!Named(old)
    BY <2>1
  <2> HIDE DEF new, old
  <2>3. /\ new \in Seq(PP!Node) /\ PP!Named(new)
        /\ \A k \in 1..Len(new) : new[k].delay = PP!Testing =>
             \E j \in 1..Len(old) : old[j].name = new[k].name /\ old[j].delay = PP!Testing
    BY <1>3, <2>2, MergeFacts
  <2> HIDE DEF New, Old
  <2> QED
    BY <2>3 DEF new, old
<1>5. gs = [i \in 1..Len(s) |-> [s[i] EXCEPT !.nodes = New(i)]]
  BY <1>2
<1>6. ASSUME NEW i \in 1..Len(s)
      PROVE  \A j \in 1..Len(Old(i)) :
               Old(i)[j].delay = PP!Testing => Mark(v, s[i].name, Old(i)[j].name)
  BY NodesMarks
<1> HIDE DEF New, Old
<1>7. ASSUME NEW i \in 1..Len(s)
      PROVE  gs[i] \in Group /\ gs[i].name = s[i].name /\ gs[i].nodes = New(i)
  <2>1. s[i] \in FetchedGroup /\ New(i) \in Seq(PP!Node)
    BY <1>3, <1>4
  <2> QED
    BY <1>5, <2>1 DEF Group, FetchedGroup
<1>8. gs \in Seq(Group) /\ Len(gs) = Len(s) /\ DOMAIN gs = 1..Len(s)
  <2>1. gs \in [1..Len(s) -> Group]
    BY <1>5, <1>7
  <2> QED
    BY <1>2, <2>1, SeqDef
<1>9. PP!Named(gs)
  BY <1>2, <1>7, <1>8 DEF PP!Named
<1>10. ViewOK(r)
  BY <1>4, <1>7, <1>8, <1>9 DEF ViewOK
<1>11. ASSUME NEW g, NEW n, Mark(r, g, n) PROVE Mark(v, g, n)
  <2>1. PICK i \in 1..Len(s) :
               /\ gs[i].name = g
               /\ \E k \in 1..Len(gs[i].nodes) :
                    gs[i].nodes[k].name = n /\ gs[i].nodes[k].delay = PP!Testing
    BY <1>8, <1>11 DEF Mark
  <2>2. PICK k \in 1..Len(New(i)) : New(i)[k].name = n /\ New(i)[k].delay = PP!Testing
    BY <1>7, <2>1
  <2>3. PICK j \in 1..Len(Old(i)) : Old(i)[j].name = n /\ Old(i)[j].delay = PP!Testing
    BY <1>4, <2>2
  <2> QED
    BY <1>6, <1>7, <2>1, <2>3
<1>12. ASSUME NEW g, PP!Has(gs, g)
       PROVE  \E n \in Seq(Fetched) :
                PP!Named(n) /\ PP!NodesOf(r, g) = PP!MergeProxyNodes(PP!NodesOf(v, g), n)
  <2>1. PICK i \in 1..Len(gs) : gs[i].name = g
    BY <1>8, <1>9, <1>12, IndexFacts
  <2>2. PP!NodesOf(r, g) = gs[i].nodes
    <3>1. \A j \in 1..Len(r.groups) : PP!NodesOf(r, r.groups[j].name) = r.groups[j].nodes
      BY <1>10, NodesFacts
    <3>2. i \in 1..Len(r.groups) /\ r.groups[i].name = g /\ r.groups[i].nodes = gs[i].nodes
      BY <2>1
    <3> QED
      BY <3>1, <3>2
  <2>3. gs[i].nodes = New(i) /\ s[i].name = g
    BY <1>7, <1>8, <2>1
  <2>4. s[i].nodes \in Seq(Fetched) /\ PP!Named(s[i].nodes)
    BY <1>3, <1>8, <2>1
  <2> QED
    BY <2>2, <2>3, <2>4 DEF New, Old
<1> QED
  BY <1>10, <1>11, <1>12 DEF NoNewMarks

CursorOK(v) ==
  /\ v.groupName \in STRING \/ v.groupName = PP!NoGroup
  /\ v.nodeName \in Nat /\ v.page \in Nat

LEMMA CurrentFacts ==
  ASSUME NEW v, ViewOK(v), NEW nodes, nodes = PP!CurrentNodes(v)
  PROVE  /\ nodes \in Seq(PP!Node) /\ PP!Named(nodes)
         /\ Len(nodes) \in Nat /\ DOMAIN nodes = 1..Len(nodes)
         /\ \A i \in 1..Len(nodes) : nodes[i].name \in Nat
         /\ \A p \in Nat \ {0} : PP!LastPage(v, p) \in Nat
         /\ v.groups # <<>> => /\ PP!Current(v) \in 1..Len(v.groups)
                               /\ v.groups[PP!Current(v)] \in Group
                               /\ 1 \in 1..Len(v.groups) /\ v.groups[1].name \in STRING
<1>0. v.groups \in Seq(Group) /\ PP!Named(v.groups)
  BY DEF ViewOK
<1>1. ASSUME v.groups # <<>>
      PROVE  /\ PP!Current(v) \in 1..Len(v.groups)
             /\ v.groups[PP!Current(v)] \in Group
             /\ 1 \in 1..Len(v.groups) /\ v.groups[1].name \in STRING
  <2>1. PP!Has(v.groups, v.groupName) => PP!Current(v) \in 1..Len(v.groups)
    BY <1>0, IndexFacts DEF PP!Current
  <2>2. 1 \in 1..Len(v.groups)
    BY <1>0, <1>1
  <2>3. PP!Current(v) \in 1..Len(v.groups)
    BY <2>1, <2>2 DEF PP!Current
  <2>4. v.groups[1] \in Group
    BY <1>0, <2>2
  <2> QED
    BY <2>2, <2>3, <2>4, NodesFacts DEF Group
<1>2. nodes \in Seq(PP!Node) /\ PP!Named(nodes)
  <2>1. CASE v.groups = <<>>
    <3>1. nodes = <<>>
      BY <2>1 DEF PP!CurrentNodes
    <3> QED
      BY <3>1 DEF PP!Named
  <2>2. CASE v.groups # <<>>
    <3>1. nodes = v.groups[PP!Current(v)].nodes
      BY <2>2 DEF PP!CurrentNodes
    <3>2. PP!Current(v) \in 1..Len(v.groups) /\ v.groups[PP!Current(v)] \in Group
      BY <1>1, <2>2
    <3> QED
      BY <3>1, <3>2 DEF Group, ViewOK
  <2> QED
    BY <2>1, <2>2
<1>3. Len(nodes) \in Nat /\ DOMAIN nodes = 1..Len(nodes)
  BY <1>2
<1>4. ASSUME NEW i \in 1..Len(nodes) PROVE nodes[i].name \in Nat
  <2>1. nodes[i] \in PP!Node
    BY <1>2
  <2> QED
    BY <2>1 DEF PP!Node
<1>5. ASSUME NEW p \in Nat \ {0} PROVE PP!LastPage(v, p) \in Nat
  <2>1. CASE nodes = <<>>
    BY <2>1 DEF PP!LastPage
  <2>2. CASE nodes # <<>>
    <3>1. Len(nodes) - 1 \in Nat
      BY <1>2, <2>2
    <3>2. \A k \in Nat : k \div p \in Nat
      OBVIOUS
    <3> QED
      BY <2>2, <3>1, <3>2 DEF PP!LastPage
  <2> QED
    BY <2>1, <2>2
<1> QED
  BY <1>1, <1>2, <1>3, <1>4, <1>5

LEMMA CursorsOK ==
  ASSUME NEW v, ViewOK(v), CursorOK(v), NEW p \in Nat \ {0}
  PROVE  /\ CursorOK(PP!Render(v, p))
         /\ CursorOK(PP!NormalizeGroup(v))
         /\ CursorOK(PP!SortAndFollow(v, p))
<1>0. DOMAIN v = ViewFields
  BY DEF ViewOK
<1>1. CursorOK(PP!Render(v, p))
  <2>1. PP!LastPage(v, p) \in Nat
    BY CurrentFacts
  <2> QED
    BY <1>0, <2>1 DEF PP!Render, CursorOK, ViewFields
<1>2. ASSUME NEW w, ViewOK(w), CursorOK(w)
      PROVE  CursorOK(PP!NormalizeNode(w))
  <2> PICK nodes : nodes = PP!CurrentNodes(w)
    OBVIOUS
  <2>1. nodes \in Seq(PP!Node) /\ \A i \in 1..Len(nodes) : nodes[i].name \in Nat
    BY <1>2, CurrentFacts
  <2>2. nodes # <<>> => nodes[1].name \in Nat
    BY <2>1
  <2>3. DOMAIN w = ViewFields
    BY <1>2 DEF ViewOK
  <2> QED
    BY <1>2, <2>2, <2>3 DEF PP!NormalizeNode, CursorOK, ViewFields, PP!NoNode
<1>3. CursorOK(PP!NormalizeGroup(v))
  <2> DEFINE w == IF PP!Has(v.groups, v.groupName) THEN v
                  ELSE [v EXCEPT !.groupName = IF v.groups = <<>> THEN PP!NoGroup ELSE v.groups[1].name,
                                 !.nodeName = PP!NoNode, !.page = 0]
  <2>1. SameGroups(v, w)
    BY <1>0 DEF SameGroups, ViewFields
  <2>2. v.groups # <<>> => v.groups[1].name \in STRING
    BY CurrentFacts
  <2>3. CursorOK(w)
    <3> DEFINE first == IF v.groups = <<>> THEN PP!NoGroup ELSE v.groups[1].name
               u == [v EXCEPT !.groupName = first, !.nodeName = PP!NoNode, !.page = 0]
    <3>1. first \in STRING \/ first = PP!NoGroup
      BY <2>2
    <3>2. w = v \/ w = u
      OBVIOUS
    <3> HIDE DEF w, first
    <3>3. u.groupName = first /\ u.nodeName = 0 /\ u.page = 0
      BY <1>0 DEF ViewFields, PP!NoNode
    <3> HIDE DEF u
    <3>4. CursorOK(u)
      BY <3>1, <3>3 DEF CursorOK
    <3> QED
      BY <3>2, <3>4
  <2>4. PP!NormalizeGroup(v) = PP!NormalizeNode(w)
    BY DEF PP!NormalizeGroup
  <2> HIDE DEF w
  <2>5. ViewOK(w)
    BY <2>1, SameGroupsOK
  <2> QED
    BY <1>2, <2>3, <2>4, <2>5
<1>4. CursorOK(PP!SortAndFollow(v, p))
  <2> PICK nodes, sorted : nodes = PP!CurrentNodes(v) /\ sorted = PP!Sorted(nodes)
    OBVIOUS
  <2>1. nodes \in Seq(PP!Node) /\ PP!Named(nodes)
    BY CurrentFacts
  <2>2. sorted \in Seq(PP!Node) /\ PP!Named(sorted)
    BY <2>1, SortedFacts
  <2>3. PP!Has(sorted, v.nodeName) => PP!Index(sorted, v.nodeName) - 1 \in Nat
    BY <2>2, IndexFacts
  <2>4. \A k \in Nat : k \div p \in Nat
    OBVIOUS
  <2>5. \E gs : \E q \in Nat : PP!SortAndFollow(v, p) = [v EXCEPT !.groups = gs, !.page = q]
                               \/ PP!SortAndFollow(v, p) = v
    BY <1>0, <2>3, <2>4 DEF PP!SortAndFollow, CursorOK, ViewFields
  <2> QED
    BY <1>0, <2>5 DEF CursorOK, ViewFields
<1> QED
  BY <1>1, <1>3, <1>4

LEMMA DelaysKeepCursor ==
  ASSUME NEW v, ViewOK(v), CursorOK(v)
  PROVE  /\ \A g, n, d : CursorOK(PP!SetNodeDelay(v, g, n, d))
         /\ \A g : CursorOK(PP!MarkGroupTesting(v, g))
         /\ \A g : CursorOK(PP!ResolveTesting(v, g))
         /\ \A g, d : CursorOK(PP!ApplyDelays(v, g, d))
<1>1. \A g, new : CursorOK(PP!SetDelays(v, g, new))
  BY DEF PP!SetDelays, CursorOK, ViewOK, ViewFields
<1> QED
  BY <1>1 DEF PP!SetNodeDelay, PP!MarkGroupTesting, PP!ResolveTesting, PP!ApplyDelays

view == s1
screen == s2
visible == s4
loading == s5
batches == s7
singles == s8
lost == s9
bounds == s10

USE DEF view, screen, visible, loading, batches, singles, lost, bounds

BatchFields == {"id", "group", "phase"}

TestsOK ==
  /\ screen \in Screens /\ s3 \in {"test", "stop"}
  /\ visible \in BOOLEAN /\ loading \in BOOLEAN /\ s6 \in BOOLEAN
  /\ \A b \in batches : /\ DOMAIN b = BatchFields /\ b.id \in 1..bounds.tests
                        /\ b.phase \in {"testing", "closing"}
  /\ \A t \in singles : t.id \in 1..bounds.tests
  /\ bounds \in [refreshes : 0..MaxRefreshes, tests : 0..MaxTests, moves : 0..MaxMoves]

Excused(g, n) ==
  \/ g \in lost
  \/ \E b \in batches : b.group = g /\ b.phase = "testing"
  \/ \E t \in singles : t.group = g /\ t.node = n

MarksExcused == \A g, n : Mark(view, g, n) => Excused(g, n)

VInv == ViewOK(view) /\ CursorOK(view) /\ TestsOK /\ MarksExcused

LEMMA PageAssumptions ==
  /\ \A s \in Screens : s.perPage \in Nat \ {0} /\ s.perRow \in Nat \ {0}
  /\ \A g \in Answers : /\ g \in PP!Answer /\ PP!Named(g)
                        /\ \A i \in DOMAIN g : PP!Named(g[i].nodes)
  /\ Delays \subseteq Nat
  /\ MaxRefreshes \in Nat /\ MaxTests \in Nat /\ MaxMoves \in Nat
BY SurroundingsAssumption DEF PP!Assumptions

LEMMA BoundsFacts ==
  ASSUME TestsOK
  PROVE  /\ bounds.tests \in 0..MaxTests /\ bounds.moves \in 0..MaxMoves
         /\ bounds.refreshes \in 0..MaxRefreshes
         /\ bounds.refreshes < MaxRefreshes =>
              \A r : r = [bounds EXCEPT !.refreshes = @ + 1] =>
                r \in [refreshes : 0..MaxRefreshes, tests : 0..MaxTests, moves : 0..MaxMoves]
                /\ r.tests = bounds.tests
         /\ bounds.moves < MaxMoves =>
              \A r : r = [bounds EXCEPT !.moves = @ + 1] =>
                r \in [refreshes : 0..MaxRefreshes, tests : 0..MaxTests, moves : 0..MaxMoves]
                /\ r.tests = bounds.tests
         /\ bounds.tests < MaxTests =>
              \A r : r = [bounds EXCEPT !.tests = @ + 1] =>
                r \in [refreshes : 0..MaxRefreshes, tests : 0..MaxTests, moves : 0..MaxMoves]
                /\ r.tests = bounds.tests + 1
<1> DEFINE B == [refreshes : 0..MaxRefreshes, tests : 0..MaxTests, moves : 0..MaxMoves]
<1>1. MaxRefreshes \in Nat /\ MaxTests \in Nat /\ MaxMoves \in Nat /\ bounds \in B
  BY PageAssumptions DEF TestsOK
<1>2. bounds.tests \in 0..MaxTests /\ bounds.moves \in 0..MaxMoves /\ bounds.refreshes \in 0..MaxRefreshes
  BY <1>1
<1>3. ASSUME NEW r, r = [bounds EXCEPT !.refreshes = @ + 1], bounds.refreshes < MaxRefreshes
      PROVE  r \in B /\ r.tests = bounds.tests
  BY <1>1, <1>2, <1>3
<1>4. ASSUME NEW r, r = [bounds EXCEPT !.moves = @ + 1], bounds.moves < MaxMoves
      PROVE  r \in B /\ r.tests = bounds.tests
  BY <1>1, <1>2, <1>4
<1>5. ASSUME NEW r, r = [bounds EXCEPT !.tests = @ + 1], bounds.tests < MaxTests
      PROVE  r \in B /\ r.tests = bounds.tests + 1
  BY <1>1, <1>2, <1>5
<1> QED
  BY <1>2, <1>3, <1>4, <1>5

LEMMA TestsStay ==
  ASSUME TestsOK, UNCHANGED <<batches, singles>>, screen' \in Screens,
         s3' \in {"test", "stop"}, visible' \in BOOLEAN, loading' \in BOOLEAN, s6' \in BOOLEAN,
         \/ bounds' = bounds
         \/ bounds.refreshes < MaxRefreshes /\ bounds' = [bounds EXCEPT !.refreshes = @ + 1]
         \/ bounds.moves < MaxMoves /\ bounds' = [bounds EXCEPT !.moves = @ + 1]
  PROVE  TestsOK'
<1>1. /\ bounds' \in [refreshes : 0..MaxRefreshes, tests : 0..MaxTests, moves : 0..MaxMoves]
      /\ bounds'.tests = bounds.tests
  BY BoundsFacts DEF TestsOK
<1> QED
  BY <1>1 DEF TestsOK

LEMMA RenderFacts ==
  ASSUME NEW v, ViewOK(v), CursorOK(v), NEW p \in Nat \ {0}, NEW r, r = PP!Render(v, p)
  PROVE  ViewOK(r) /\ CursorOK(r) /\ NoNewMarks(v, r)
<1>1. SameGroups(v, r)
  BY CursorFacts DEF ViewOK
<1> QED
  BY <1>1, SameGroupsOK, CursorsOK

LEMMA StaysExcused ==
  ASSUME MarksExcused, NoNewMarks(view, view'), UNCHANGED <<batches, singles, lost>>
  PROVE  MarksExcused'
<1>1. ASSUME NEW g, NEW n, Mark(view', g, n)
      PROVE  Excused(g, n)'
  <2>1. Mark(view, g, n)
    BY <1>1 DEF NoNewMarks
  <2> QED
    BY <2>1 DEF MarksExcused, Excused
<1> QED
  BY <1>1 DEF MarksExcused

LEMMA Moves ==
  ASSUME VInv, NEW v, SameGroups(view, v), CursorOK(v),
         view' = PP!Render(v, screen'.perPage), TestsOK',
         UNCHANGED <<batches, singles, lost>>
  PROVE  VInv'
<1>1. ViewOK(v) /\ NoNewMarks(view, v)
  BY SameGroupsOK DEF VInv
<1>2. screen'.perPage \in Nat \ {0}
  BY PageAssumptions DEF TestsOK
<1>3. ViewOK(view') /\ CursorOK(view') /\ NoNewMarks(v, view')
  BY <1>1, <1>2, RenderFacts
<1>4. NoNewMarks(view, view')
  BY <1>1, <1>3 DEF NoNewMarks
<1>5. MarksExcused'
  BY <1>4, StaysExcused DEF VInv
<1>6. ViewOK(view)' /\ CursorOK(view)'
  BY <1>3
<1> QED
  BY <1>5, <1>6 DEF VInv

LEMMA ViewStays ==
  ASSUME VInv, UNCHANGED <<view, singles, lost>>, TestsOK',
         \A b \in batches : b \in batches' \/ b.phase # "testing"
  PROVE  VInv'
<1>1. ViewOK(view)' /\ CursorOK(view)'
  BY DEF VInv, ViewOK, CursorOK
<1>2. ASSUME NEW g, NEW n, Excused(g, n)
      PROVE  Excused(g, n)'
  BY <1>2 DEF Excused
<1>3. ASSUME NEW g, NEW n, Mark(view', g, n)
      PROVE  Excused(g, n)'
  BY <1>2, <1>3 DEF VInv, MarksExcused
<1>4. MarksExcused'
  BY <1>3 DEF MarksExcused
<1> QED
  BY <1>1, <1>4 DEF VInv

LEMMA QuietPageSteps ==
  ASSUME VInv, PP!Refresh \/ PP!RefreshFails \/ PP!Show \/ PP!Hide
               \/ \E b \in batches : PP!BatchCloses(b)
  PROVE  VInv'
<1>0. MaxRefreshes \in Nat /\ MaxMoves \in Nat /\ TestsOK
  BY PageAssumptions DEF VInv
<1>1. CASE PP!Refresh \/ PP!Show
  <2>1. /\ UNCHANGED <<batches, singles, screen, s3, s6>>
        /\ visible' \in BOOLEAN /\ loading' = TRUE
        /\ \/ bounds' = bounds
           \/ bounds.refreshes < MaxRefreshes /\ bounds' = [bounds EXCEPT !.refreshes = @ + 1]
    BY <1>0, <1>1 DEF TestsOK, PP!Refresh, PP!Show
  <2>2. TestsOK'
    BY <1>0, <2>1, TestsStay DEF TestsOK
  <2> QED
    BY <1>1, <2>2, ViewStays DEF PP!Refresh, PP!Show
<1>2. CASE PP!RefreshFails
  BY <1>0, <1>2, ViewStays DEF TestsOK, PP!RefreshFails
<1>3. CASE PP!Hide
  <2>1. TestsOK'
    BY <1>0, <1>3, TestsStay DEF TestsOK, PP!Hide, PP!Move
  <2> QED
    BY <1>3, <2>1, ViewStays DEF PP!Hide, PP!Move
<1>4. ASSUME NEW b \in batches, PP!BatchCloses(b)
      PROVE  VInv'
  <2>1. TestsOK'
    BY <1>0, <1>4 DEF TestsOK, PP!BatchCloses
  <2> QED
    BY <1>4, <2>1, ViewStays DEF PP!BatchCloses
<1> QED
  BY <1>1, <1>2, <1>3, <1>4

LEMMA RefreshAnswersStep ==
  ASSUME VInv, PP!RefreshAnswers
  PROVE  VInv'
<1>1. TestsOK'
  BY DEF VInv, TestsOK, PP!RefreshAnswers
<1>2. UNCHANGED <<screen, batches, singles, lost>>
  BY DEF PP!RefreshAnswers
<1>3. CASE ~visible
  BY <1>1, <1>2, <1>3, ViewStays DEF PP!RefreshAnswers
<1>4. CASE visible
  <2>1. PICK s \in Answers : view' = PP!Render(PP!ApplyServerGroups(view, s), screen.perPage)
    BY <1>4 DEF PP!RefreshAnswers
  <2> DEFINE gs == [i \in DOMAIN s |-> [s[i] EXCEPT !.nodes =
                      PP!MergeProxyNodes(PP!NodesOf(view, s[i].name), s[i].nodes)]]
             w == [view EXCEPT !.groups = gs]
             n == PP!NormalizeGroup(w)
  <2>2. PP!ApplyServerGroups(view, s) = n
    BY DEF PP!ApplyServerGroups
  <2>3. DOMAIN w = ViewFields /\ w.groups = gs /\ CursorOK(w)
    <3> HIDE DEF gs
    <3>1. DOMAIN view = ViewFields /\ CursorOK(view)
      BY DEF VInv, ViewOK
    <3>2. /\ DOMAIN w = ViewFields /\ w.groups = gs /\ w.groupName = view.groupName
          /\ w.nodeName = view.nodeName /\ w.page = view.page
      BY <3>1 DEF ViewFields
    <3> HIDE DEF w
    <3> QED
      BY <3>1, <3>2 DEF CursorOK
  <2>4. /\ s \in PP!Answer /\ PP!Named(s)
        /\ \A i \in DOMAIN s : PP!Named(s[i].nodes)
    BY PageAssumptions
  <2> HIDE DEF w
  <2>5. ViewOK(w) /\ NoNewMarks(view, w)
    <3>1. gs = [i \in DOMAIN s |-> [s[i] EXCEPT !.nodes =
                      PP!MergeProxyNodes(PP!NodesOf(view, s[i].name), s[i].nodes)]]
      OBVIOUS
    <3> HIDE DEF gs
    <3> QED
      BY <2>3, <2>4, <3>1, AnswerFacts DEF VInv
  <2>6. SameGroups(w, n)
    BY <2>3, CursorFacts
  <2>7. screen.perPage \in Nat \ {0}
    BY PageAssumptions DEF VInv, TestsOK
  <2>8. ViewOK(n) /\ CursorOK(n) /\ NoNewMarks(w, n)
    BY <2>3, <2>5, <2>6, <2>7, SameGroupsOK, CursorsOK
  <2> HIDE DEF n
  <2>9. ViewOK(view') /\ CursorOK(view') /\ NoNewMarks(n, view')
    BY <2>1, <2>2, <2>7, <2>8, RenderFacts
  <2>10. NoNewMarks(view, view')
    BY <2>5, <2>8, <2>9 DEF NoNewMarks
  <2>11. MarksExcused'
    BY <1>2, <2>10, StaysExcused DEF VInv
  <2>12. ViewOK(view)' /\ CursorOK(view)'
    BY <2>9
  <2> QED
    BY <1>1, <2>11, <2>12 DEF VInv
<1> QED
  BY <1>3, <1>4 DEF VInv, TestsOK

LEMMA CursorMoves ==
  ASSUME VInv, PP!Move, visible, UNCHANGED <<visible, loading>>,
         screen' \in Screens,
         NEW v, SameGroups(view, v), CursorOK(v), view' = PP!Render(v, screen'.perPage)
  PROVE  VInv'
<1>1. TestsOK'
  BY TestsStay DEF VInv, TestsOK, PP!Move
<1> QED
  BY <1>1, Moves DEF PP!Move

LEMMA ChooseGroupStep ==
  ASSUME VInv, NEW i \in DOMAIN view.groups, PP!ChooseGroup(i)
  PROVE  VInv'
<1> DEFINE w == [view EXCEPT !.groupName = view.groups[i].name, !.nodeName = PP!NoNode,
                             !.page = 0]
           v == PP!NormalizeGroup(w)
<1>0. ViewOK(view) /\ DOMAIN view = ViewFields /\ screen \in Screens
  BY DEF VInv, ViewOK, TestsOK
<1>1. view.groups[i].name \in STRING
  <2>1. i \in 1..Len(view.groups)
    BY <1>0 DEF ViewOK
  <2> QED
    BY <1>0, <2>1, NodesFacts DEF Group
<1>2. SameGroups(view, w) /\ DOMAIN w = ViewFields
  BY <1>0 DEF SameGroups, ViewFields
<1>3. CursorOK(w)
  BY <1>0, <1>1 DEF CursorOK, ViewFields, PP!NoNode
<1>4. view' = PP!Render(v, screen.perPage) /\ visible /\ PP!Move
      /\ UNCHANGED <<screen, visible, loading>>
  BY DEF PP!ChooseGroup, PP!Shows
<1> HIDE DEF w
<1>5. ViewOK(w)
  BY <1>0, <1>2, SameGroupsOK
<1>6. SameGroups(view, v) /\ CursorOK(v)
  <2>1. 1 \in Nat \ {0}
    OBVIOUS
  <2> QED
    BY <1>2, <1>3, <1>5, <2>1, CursorFacts, CursorsOK DEF SameGroups
<1> HIDE DEF v
<1> QED
  BY <1>0, <1>4, <1>6, CursorMoves

LEMMA SelectNodeStep ==
  ASSUME VInv, NEW i \in DOMAIN PP!CurrentNodes(view), PP!SelectNode(i)
  PROVE  VInv'
<1> DEFINE v == [view EXCEPT !.nodeName = PP!CurrentNodes(view)[i].name]
<1>0. ViewOK(view) /\ DOMAIN view = ViewFields /\ screen \in Screens /\ CursorOK(view)
  BY DEF VInv, ViewOK, TestsOK
<1>1. PP!CurrentNodes(view)[i].name \in Nat
  BY <1>0, CurrentFacts
<1>2. SameGroups(view, v) /\ CursorOK(v)
  BY <1>0, <1>1 DEF SameGroups, CursorOK, ViewFields
<1>3. view' = PP!Render(v, screen.perPage) /\ visible /\ PP!Move
      /\ UNCHANGED <<screen, visible, loading>>
  BY DEF PP!SelectNode, PP!Shows
<1> HIDE DEF v
<1> QED
  BY <1>0, <1>2, <1>3, CursorMoves

LEMMA TurnPageStep ==
  ASSUME VInv, NEW step \in {-1, 1}, PP!TurnPage(step)
  PROVE  VInv'
<1> DEFINE v == [view EXCEPT !.page = @ + step]
<1>0. /\ ViewOK(view) /\ DOMAIN view = ViewFields /\ screen \in Screens /\ CursorOK(view)
      /\ screen.perPage \in Nat \ {0}
  BY PageAssumptions DEF VInv, ViewOK, TestsOK
<1>1. PP!LastPage(view, screen.perPage) \in Nat
  BY <1>0, CurrentFacts
<1>2. view.page + step \in Nat
  BY <1>1 DEF PP!TurnPage
<1>3. SameGroups(view, v) /\ CursorOK(v)
  BY <1>0, <1>2 DEF SameGroups, CursorOK, ViewFields
<1>4. view' = PP!Render(v, screen.perPage) /\ visible /\ PP!Move
      /\ UNCHANGED <<screen, visible, loading>>
  BY DEF PP!TurnPage, PP!Shows
<1> HIDE DEF v
<1> QED
  BY <1>0, <1>3, <1>4, CursorMoves

LEMMA ResizeStep ==
  ASSUME VInv, NEW s \in Screens, PP!Resize(s)
  PROVE  VInv'
<1>1. SameGroups(view, view) /\ CursorOK(view)
  BY DEF VInv, ViewOK, SameGroups
<1>2. view' = PP!Render(view, screen'.perPage) /\ visible /\ PP!Move /\ screen' \in Screens
      /\ UNCHANGED <<visible, loading>>
  BY DEF PP!Resize
<1> QED
  BY <1>1, <1>2, CursorMoves

LEMMA MoveCursorStep ==
  ASSUME VInv, NEW byRow \in BOOLEAN, NEW step, PP!MoveCursor(step, byRow),
         step \in IF byRow THEN {-screen.perRow, screen.perRow} ELSE {-1, 1}
  PROVE  VInv'
<1> DEFINE nodes == PP!CurrentNodes(view)
           next == PP!Index(nodes, view.nodeName) - 1 + step
           first == view.page * screen.perPage
           turns == IF step > 0 THEN next >= first + screen.perPage ELSE next < first
           shown == IF ~turns THEN view.page
                    ELSE IF byRow THEN next \div screen.perPage
                    ELSE view.page + step
           v == [view EXCEPT !.nodeName = nodes[next + 1].name, !.page = shown]
<1>0. /\ ViewOK(view) /\ DOMAIN view = ViewFields /\ screen \in Screens /\ CursorOK(view)
      /\ screen.perPage \in Nat \ {0} /\ screen.perRow \in Nat \ {0}
  BY PageAssumptions DEF VInv, ViewOK, TestsOK
<1>1. /\ next \in 0..Len(nodes) - 1 /\ visible /\ PP!Move
      /\ view' = PP!Render(v, screen.perPage) /\ UNCHANGED <<screen, visible, loading>>
  BY DEF PP!MoveCursor, PP!Shows
<1>2. /\ Len(nodes) \in Nat /\ DOMAIN nodes = 1..Len(nodes)
      /\ \A i \in 1..Len(nodes) : nodes[i].name \in Nat
  BY <1>0, CurrentFacts
<1> HIDE DEF nodes, next
<1>3. next \in Nat /\ nodes[next + 1].name \in Nat
  BY <1>1, <1>2
<1>4. shown \in Nat
  <2>1. view.page \in Nat
    BY <1>0 DEF CursorOK
  <2>2. CASE ~byRow /\ step = -1 /\ turns
    <3>1. next < first
      BY <2>2
    <3>2. view.page # 0
      <4>1. SUFFICES ASSUME view.page = 0 PROVE FALSE
        OBVIOUS
      <4>2. first = 0
        BY <1>0, <4>1
      <4> QED
        BY <1>3, <3>1, <4>2
    <3> QED
      BY <2>1, <2>2, <3>2
  <2>3. \A k \in Nat : k \div screen.perPage \in Nat
    BY <1>0
  <2> HIDE DEF turns
  <2> QED
    BY <1>3, <2>1, <2>2, <2>3
<1> HIDE DEF shown
<1>5. SameGroups(view, v) /\ CursorOK(v)
  BY <1>0, <1>3, <1>4 DEF SameGroups, CursorOK, ViewFields
<1> HIDE DEF v
<1> QED
  BY <1>0, <1>1, <1>5, CursorMoves

LEMMA TestedFacts ==
  ASSUME VInv
  PROVE  /\ ViewOK(view) /\ CursorOK(view) /\ TestsOK /\ MarksExcused
         /\ screen.perPage \in Nat \ {0}
         /\ bounds.tests \in 0..MaxTests /\ MaxTests \in Nat
BY PageAssumptions, BoundsFacts DEF VInv, TestsOK

LEMMA TestSingleNodeStep ==
  ASSUME VInv, NEW i, PP!TestSingleNode(i)
  PROVE  VInv'
<1> PICK node, id : node = PP!CurrentNodes(view)[i].name /\ id = bounds.tests + 1
  OBVIOUS
<1> USE TestedFacts
<1>1. /\ bounds.tests < MaxTests /\ bounds' = [bounds EXCEPT !.tests = id]
      /\ singles' = singles \cup {[id |-> id, group |-> view.groupName, node |-> node]}
      /\ view' = PP!SetNodeDelay(view, view.groupName, node, PP!Testing)
      /\ UNCHANGED <<screen, s3, visible, loading, s6, batches, lost>>
  BY DEF PP!TestSingleNode
<1>2. PP!Testing \in Delay
  BY DEF Delay
<1>3. /\ ViewOK(view')
      /\ \A g, n : Mark(view', g, n) => Mark(view, g, n) \/ (g = view.groupName /\ n = node)
  BY <1>1, <1>2, NodeDelayFacts
<1>4. CursorOK(view')
  BY <1>1, DelaysKeepCursor
<1>5. TestsOK'
  <2>1. /\ bounds' \in [refreshes : 0..MaxRefreshes, tests : 0..MaxTests, moves : 0..MaxMoves]
        /\ bounds'.tests = bounds.tests + 1
    BY <1>1, BoundsFacts
  <2>2. \A k \in 1..bounds.tests : k \in 1..bounds'.tests
    BY <2>1
  <2>3. \A t \in singles' : t \in singles \/ t.id = id
    BY <1>1
  <2>4. id \in 1..bounds'.tests
    BY <2>1
  <2> QED
    BY <1>1, <2>1, <2>2, <2>3, <2>4 DEF TestsOK
<1>6. ASSUME NEW g, NEW n, Mark(view', g, n) PROVE Excused(g, n)'
  <2>1. CASE Mark(view, g, n)
    BY <1>1, <2>1 DEF MarksExcused, Excused
  <2>2. CASE g = view.groupName /\ n = node
    <3> DEFINE t == [id |-> id, group |-> view.groupName, node |-> node]
    <3>1. t \in singles' /\ t.group = g /\ t.node = n
      BY <1>1, <2>2
    <3> QED
      BY <3>1 DEF Excused
  <2> QED
    BY <1>3, <1>6, <2>1, <2>2
<1>7. MarksExcused'
  BY <1>6 DEF MarksExcused
<1> QED
  BY <1>3, <1>4, <1>5, <1>7 DEF VInv

LEMMA TestAllNodesStep ==
  ASSUME VInv, PP!TestAllNodes
  PROVE  VInv'
<1> PICK group, id : group = view.groups[PP!Current(view)].name /\ id = bounds.tests + 1
  OBVIOUS
<1> USE TestedFacts
<1> DEFINE new == [id |-> id, group |-> group, phase |-> "testing"]
<1>1. /\ bounds.tests < MaxTests /\ bounds' = [bounds EXCEPT !.tests = id]
      /\ batches' = batches \cup {new}
      /\ s6' = TRUE /\ s3' = "stop"
      /\ view' = PP!MarkGroupTesting(view, group)
      /\ UNCHANGED <<screen, visible, loading, singles, lost>>
  BY DEF PP!TestAllNodes
<1>2. DOMAIN new = BatchFields /\ new.id = id /\ new.group = group /\ new.phase = "testing"
  BY DEF BatchFields
<1> HIDE DEF new
<1>3. ViewOK(view') /\ \A g, n : Mark(view', g, n) => g = group \/ Mark(view, g, n)
  BY <1>1, MarkingFacts
<1>4. CursorOK(view')
  BY <1>1, DelaysKeepCursor
<1>5. TestsOK'
  <2>1. /\ bounds' \in [refreshes : 0..MaxRefreshes, tests : 0..MaxTests, moves : 0..MaxMoves]
        /\ bounds'.tests = bounds.tests + 1
    BY <1>1, BoundsFacts
  <2>2. \A k \in 1..bounds.tests : k \in 1..bounds'.tests
    BY <2>1
  <2>3. id \in 1..bounds'.tests
    BY <2>1
  <2> QED
    BY <1>1, <1>2, <2>1, <2>2, <2>3 DEF TestsOK
<1>6. ASSUME NEW g, NEW n, Mark(view', g, n) PROVE Excused(g, n)'
  <2>1. CASE Mark(view, g, n)
    BY <1>1, <2>1 DEF MarksExcused, Excused
  <2>2. CASE g = group
    BY <1>1, <1>2, <2>2 DEF Excused
  <2> QED
    BY <1>3, <1>6, <2>1, <2>2
<1>7. MarksExcused'
  BY <1>6 DEF MarksExcused
<1> QED
  BY <1>3, <1>4, <1>5, <1>7 DEF VInv

LEMMA StopTestStep ==
  ASSUME VInv, PP!StopTest
  PROVE  VInv'
<1> USE TestedFacts
<1>1. /\ s6' = FALSE /\ s3' = "test" /\ view' = PP!ResolveTesting(view, view.groupName)
      /\ UNCHANGED <<screen, visible, loading, batches, singles, lost, bounds>>
  BY DEF PP!StopTest
<1>2. ViewOK(view') /\ NoNewMarks(view, view')
  BY <1>1, ResolvingFacts DEF NoNewMarks
<1>3. CursorOK(view')
  BY <1>1, DelaysKeepCursor
<1>4. TestsOK'
  BY <1>1, TestsStay DEF TestsOK
<1>5. MarksExcused'
  BY <1>1, <1>2, StaysExcused
<1> QED
  BY <1>2, <1>3, <1>4, <1>5 DEF VInv

LEMMA SortAndRender ==
  ASSUME NEW v, ViewOK(v), CursorOK(v), NEW p \in Nat \ {0},
         NEW r, r = PP!Render(PP!SortAndFollow(v, p), p)
  PROVE  ViewOK(r) /\ CursorOK(r) /\ NoNewMarks(v, r)
<1> PICK u : u = PP!SortAndFollow(v, p)
  OBVIOUS
<1>1. ViewOK(u) /\ NoNewMarks(v, u) /\ CursorOK(u)
  BY SortFacts, CursorsOK
<1>2. ViewOK(r) /\ CursorOK(r) /\ NoNewMarks(u, r)
  BY <1>1, RenderFacts
<1> QED
  BY <1>1, <1>2 DEF NoNewMarks

LEMMA SingleAnswersStep ==
  ASSUME VInv, NEW t \in singles, PP!SingleAnswers(t)
  PROVE  VInv'
<1> USE TestedFacts
<1>1. /\ singles' = singles \ {t}
      /\ lost' = IF visible THEN lost ELSE lost \cup {t.group}
      /\ UNCHANGED <<screen, s3, visible, loading, s6, batches, bounds>>
  BY DEF PP!SingleAnswers
<1>2. TestsOK'
  BY <1>1 DEF TestsOK
<1>3. ASSUME NEW g, NEW n, Mark(view, g, n), visible => ~(g = t.group /\ n = t.node)
      PROVE  Excused(g, n)'
  BY <1>1, <1>3 DEF MarksExcused, Excused
<1>4. /\ ViewOK(view') /\ CursorOK(view')
      /\ \A g, n : Mark(view', g, n) =>
           Mark(view, g, n) /\ (visible => ~(g = t.group /\ n = t.node))
  <2>1. CASE ~visible
    BY <2>1 DEF PP!SingleAnswers
  <2>2. CASE visible /\ ~PP!Has(PP!NodesOf(view, t.group), t.node)
    <3>1. view' = PP!Render(view, screen.perPage)
      BY <2>2 DEF PP!SingleAnswers
    <3>2. ViewOK(view') /\ CursorOK(view') /\ NoNewMarks(view, view')
      BY <3>1, RenderFacts
    <3>3. ~Mark(view, t.group, t.node)
      <4>1. SUFFICES ASSUME NEW i \in 1..Len(view.groups), view.groups[i].name = t.group,
                            NEW j \in 1..Len(view.groups[i].nodes),
                            view.groups[i].nodes[j].name = t.node
                     PROVE  FALSE
        BY DEF Mark
      <4>2. PICK nodes : nodes = PP!NodesOf(view, t.group)
        OBVIOUS
      <4>3. nodes = view.groups[i].nodes /\ nodes \in Seq(PP!Node) /\ PP!Named(nodes)
        BY <4>1, <4>2, NodesFacts
      <4>4. PP!Has(nodes, t.node)
        BY <4>1, <4>3, IndexFacts
      <4> QED
        BY <2>2, <4>2, <4>4
    <3> QED
      BY <3>2, <3>3 DEF NoNewMarks
  <2>3. CASE visible /\ PP!Has(PP!NodesOf(view, t.group), t.node)
    <3>1. PICK d \in Delays :
                 view' = PP!Render(PP!SortAndFollow(PP!SetNodeDelay(view, t.group, t.node,
                           PP!Measured(d)), screen.perPage), screen.perPage)
      BY <2>3 DEF PP!SingleAnswers
    <3>2. PP!Measured(d) \in Delay /\ PP!Measured(d) # PP!Testing
      BY PageAssumptions DEF PP!Measured, Delay, PP!Testing, PP!Timeout
    <3> PICK v : v = PP!SetNodeDelay(view, t.group, t.node, PP!Measured(d))
      OBVIOUS
    <3>3. /\ ViewOK(v)
          /\ \A g, n : Mark(v, g, n) => Mark(view, g, n) /\ ~(g = t.group /\ n = t.node)
      BY <3>2, NodeDelayFacts
    <3>4. CursorOK(v)
      BY DelaysKeepCursor
    <3>5. ViewOK(view') /\ CursorOK(view') /\ NoNewMarks(v, view')
      BY <3>1, <3>3, <3>4, SortAndRender
    <3> QED
      BY <3>3, <3>5 DEF NoNewMarks
  <2> QED
    BY <2>1, <2>2, <2>3
<1>5. \A g, n : Mark(view', g, n) => Excused(g, n)'
  BY <1>3, <1>4
<1>6. MarksExcused'
  BY <1>5 DEF MarksExcused
<1> QED
  BY <1>2, <1>4, <1>6 DEF VInv

LEMMA ResultsOK ==
  ASSUME NEW group, NEW delays \in PP!Results(group)
  PROVE  \E A : delays \in [A -> Nat]
<1> DEFINE names == {PP!NodesOf(view, group)[i].name : i \in DOMAIN PP!NodesOf(view, group)}
<1>1. delays \in UNION {[answered -> Delays] : answered \in SUBSET names}
  BY DEF PP!Results
<1> HIDE DEF names
<1>2. PICK A \in SUBSET names : delays \in [A -> Delays]
  BY <1>1
<1> QED
  BY <1>2, PageAssumptions

LEMMA BatchAnswersStep ==
  ASSUME VInv, NEW b \in batches, PP!BatchAnswers(b)
  PROVE  VInv'
<1> USE TestedFacts
<1> DEFINE over == [b EXCEPT !.phase = "closing"]
<1>1. /\ batches' = (batches \ {b}) \cup {over}
      /\ s6' = FALSE
      /\ lost' = IF visible THEN lost ELSE lost \cup {b.group}
      /\ UNCHANGED <<screen, s3, visible, loading, singles, bounds>>
  BY DEF PP!BatchAnswers
<1>2. DOMAIN over = BatchFields /\ over.id = b.id /\ over.phase = "closing"
  BY DEF TestsOK, BatchFields
<1> HIDE DEF over
<1>3. TestsOK'
  BY <1>1, <1>2 DEF TestsOK
<1>4. ASSUME NEW g, NEW n, Mark(view, g, n), visible => g # b.group
      PROVE  Excused(g, n)'
  BY <1>1, <1>4 DEF MarksExcused, Excused
<1>5. /\ ViewOK(view') /\ CursorOK(view')
      /\ \A g, n : Mark(view', g, n) => Mark(view, g, n) /\ (visible => g # b.group)
  <2>1. CASE ~visible
    BY <2>1 DEF PP!BatchAnswers
  <2>2. CASE view' = PP!ResolveTesting(view, b.group)
    BY <2>2, ResolvingFacts, DelaysKeepCursor
  <2>3. ASSUME NEW delays \in PP!Results(b.group),
               view' = PP!Render(PP!SortAndFollow(PP!ResolveTesting(PP!ApplyDelays(
                         view, b.group, delays), b.group), screen.perPage), screen.perPage)
        PROVE  /\ ViewOK(view') /\ CursorOK(view')
               /\ \A g, n : Mark(view', g, n) => Mark(view, g, n) /\ (visible => g # b.group)
    <3> PICK v, w : v = PP!ApplyDelays(view, b.group, delays)
                    /\ w = PP!ResolveTesting(v, b.group)
      OBVIOUS
    <3>1. PICK A : delays \in [A -> Nat]
      BY ResultsOK
    <3>2. ViewOK(v) /\ (\A g, n : Mark(v, g, n) => Mark(view, g, n)) /\ CursorOK(v)
      BY <3>1, ResultsFacts, DelaysKeepCursor
    <3>3. /\ ViewOK(w) /\ CursorOK(w)
          /\ \A g, n : Mark(w, g, n) => g # b.group /\ Mark(v, g, n)
      BY <3>2, ResolvingFacts, DelaysKeepCursor
    <3>4. ViewOK(view') /\ CursorOK(view') /\ NoNewMarks(w, view')
      BY <2>3, <3>3, SortAndRender
    <3> QED
      BY <3>2, <3>3, <3>4 DEF NoNewMarks
  <2> QED
    BY <2>1, <2>2, <2>3 DEF PP!BatchAnswers
<1>6. \A g, n : Mark(view', g, n) => Excused(g, n)'
  BY <1>4, <1>5
<1>7. MarksExcused'
  BY <1>6 DEF MarksExcused
<1> QED
  BY <1>3, <1>5, <1>7 DEF VInv

LEMMA PageInvariant == Spec => [](part = "page" => VInv)
<1>1. Init => (part = "page" => VInv)
  <2>1. SUFFICES ASSUME Init, part = "page" PROVE VInv
    OBVIOUS
  <2>2. PP!Init
    BY <2>1 DEF Init
  <2>3. /\ view = [groups |-> <<>>, groupName |-> PP!NoGroup, nodeName |-> 0, page |-> 0]
        /\ screen \in Screens /\ s3 = "test" /\ visible = TRUE /\ loading = FALSE /\ s6 = FALSE
        /\ batches = {} /\ singles = {} /\ lost = {}
        /\ bounds = [refreshes |-> 0, tests |-> 0, moves |-> 0]
    BY <2>2 DEF PP!Init, PP!NoNode
  <2>4. ViewOK(view)
    <3>1. <<>> \in Seq(Group) /\ PP!Named(<<>>) /\ Len(<<>>) = 0
      BY DEF PP!Named
    <3>2. DOMAIN view = ViewFields /\ view.groups = <<>>
      BY <2>3 DEF ViewFields
    <3> QED
      BY <3>1, <3>2 DEF ViewOK
  <2>5. CursorOK(view)
    BY <2>3 DEF CursorOK
  <2>6. TestsOK
    <3>1. 0 \in 0..MaxRefreshes /\ 0 \in 0..MaxTests /\ 0 \in 0..MaxMoves
      BY PageAssumptions
    <3>2. bounds \in [refreshes : 0..MaxRefreshes, tests : 0..MaxTests, moves : 0..MaxMoves]
      BY <2>3, <3>1
    <3>3. /\ s3 \in {"test", "stop"} /\ screen \in Screens
          /\ visible \in BOOLEAN /\ loading \in BOOLEAN /\ s6 \in BOOLEAN
      BY <2>3
    <3>4. batches = {} /\ singles = {}
      BY <2>3
    <3> QED
      BY <3>2, <3>3, <3>4 DEF TestsOK
  <2>7. MarksExcused
    <3>1. Len(view.groups) = 0
      BY <2>3
    <3> QED
      BY <3>1 DEF MarksExcused, Mark
  <2> QED
    BY <2>4, <2>5, <2>6, <2>7 DEF VInv
<1>2. (part = "page" => VInv) /\ [Next]_state => (part = "page" => VInv)'
  <2>1. SUFFICES ASSUME part = "page" => VInv, [Next]_state, part' = "page"
                 PROVE  VInv'
    OBVIOUS
  <2>2. CASE UNCHANGED state
    <3>1. VInv /\ UNCHANGED <<s1, s2, s3, s4, s5, s6, s7, s8, s9, s10>>
      BY <2>1, <2>2 DEF state
    <3> QED
      BY <3>1 DEF VInv, ViewOK, CursorOK, TestsOK, MarksExcused, Excused, Mark
  <2>3. CASE Next
    <3>1. VInv /\ PP!Next
      BY <2>1, <2>3 DEF Next
    <3> QED
      BY <3>1, QuietPageSteps, RefreshAnswersStep, TestAllNodesStep, StopTestStep,
         BatchAnswersStep, SingleAnswersStep, TestSingleNodeStep, SelectNodeStep,
         ChooseGroupStep, TurnPageStep, MoveCursorStep, ResizeStep
      DEF PP!Next
  <2> QED
    BY <2>1, <2>2, <2>3
<1> QED
  BY <1>1, <1>2, PTL DEF Spec

(* A node that the page shows as being tested is being tested, in whatever  *)
(* order stops, new tests, refreshes, results and changes of group come,    *)
(* for any groups the kernel answers and any number of tests; groups a      *)
(* result of which came while the page was hidden are left out.             *)
THEOREM MarksDoEnd == Spec => []MarksEnd
<1>1. (part = "page" => VInv) => MarksEnd
  <2>1. SUFFICES ASSUME VInv, NEW i \in DOMAIN view.groups,
                        NEW j \in DOMAIN view.groups[i].nodes,
                        view.groups[i].nodes[j].delay = PP!Testing
                 PROVE  Excused(view.groups[i].name, view.groups[i].nodes[j].name)
    BY DEF MarksEnd, PP!MarksEnd, Excused
  <2>2. ViewOK(view) /\ MarksExcused
    BY <2>1 DEF VInv
  <2>3. i \in 1..Len(view.groups)
    BY <2>2 DEF ViewOK
  <2>4. view.groups[i].nodes \in Seq(PP!Node)
    BY <2>2, <2>3, NodesFacts
  <2>5. j \in 1..Len(view.groups[i].nodes)
    BY <2>4
  <2>6. Mark(view, view.groups[i].name, view.groups[i].nodes[j].name)
    BY <2>1, <2>3, <2>5 DEF Mark
  <2> QED
    BY <2>2, <2>6 DEF MarksExcused
<1> QED
  BY <1>1, PageInvariant, PTL

(* A refresh that finds the group gone goes to the first; the cursor and    *)
(* the page stay if what they name is there.                                *)
LEMMA RefreshCursor ==
  ASSUME NEW w, ViewOK(w), CursorOK(w), NEW p \in Nat \ {0},
         NEW r, r = PP!Render(PP!NormalizeGroup(w), p), PP!Has(r.groups, w.groupName)
  PROVE  /\ r.groupName = w.groupName
         /\ PP!Has(PP!CurrentNodes(r), w.nodeName) => r.nodeName = w.nodeName
         /\ w.page <= PP!LastPage(r, p) => r.page = w.page
<1> PICK u : u = PP!NormalizeNode(w)
  OBVIOUS
<1>0. DOMAIN w = ViewFields
  BY DEF ViewOK
<1>1. SameGroups(w, u)
  BY <1>0, CursorFacts
<1>2. r.groups = w.groups
  <2>1. SameGroups(w, PP!NormalizeGroup(w))
    BY <1>0, CursorFacts
  <2> QED
    BY <2>1, CursorFacts DEF SameGroups
<1>3. PP!NormalizeGroup(w) = u
  BY <1>2 DEF PP!NormalizeGroup
<1>4. /\ u.groupName = w.groupName /\ u.page = w.page
      /\ PP!Has(PP!CurrentNodes(w), w.nodeName) => u = w
  BY <1>0 DEF PP!NormalizeNode, ViewFields
<1>5. ViewOK(u) /\ CursorOK(u)
  BY <1>1, <1>3, SameGroupsOK, CursorsOK
<1>6. r.groupName = u.groupName /\ r.nodeName = u.nodeName /\ (r = u \/ u.page > PP!LastPage(u, p))
  BY <1>3, <1>1 DEF PP!Render, SameGroups, ViewFields
<1>7. PP!CurrentNodes(r) = PP!CurrentNodes(u) /\ PP!CurrentNodes(u) = PP!CurrentNodes(w)
  BY <1>1, <1>2, <1>4, <1>6 DEF PP!CurrentNodes, PP!Current, SameGroups
<1>8. PP!LastPage(r, p) = PP!LastPage(u, p)
  BY <1>7 DEF PP!LastPage
<1>9. PP!LastPage(u, p) \in Nat /\ u.page \in Nat
  BY <1>5, CurrentFacts DEF CursorOK
<1> QED
  BY <1>4, <1>6, <1>7, <1>8, <1>9

(* A refresh keeps the order of the cards, their marks, the group, the      *)
(* cursor and the page, for any answers of the kernel.                      *)
THEOREM NothingMoves == Spec => RefreshMovesNothing
<1>1. (part = "page" => VInv) /\ [Next]_state => [part = "page" => PP!RefreshStep]_state
  <2>1. SUFFICES ASSUME VInv, part = "page", Next, loading, ~loading', view'.groups # view.groups
                 PROVE  PP!RefreshStep
    BY DEF PP!RefreshStep
  <2>2. PP!Next
    BY <2>1 DEF Next
  <2>3. PP!RefreshAnswers
    <3>1. view' # view
      BY <2>1
    <3> QED
      BY <2>1, <2>2, <3>1 DEF PP!Next, PP!Refresh, PP!RefreshFails, PP!TestAllNodes, PP!StopTest,
         PP!BatchAnswers, PP!BatchCloses, PP!SingleAnswers, PP!TestSingleNode, PP!SelectNode,
         PP!ChooseGroup, PP!TurnPage, PP!MoveCursor, PP!Hide, PP!Show, PP!Resize, PP!Shows
  <2>4. PICK s \in Answers : view' = PP!Render(PP!ApplyServerGroups(view, s), screen.perPage)
    BY <2>1, <2>3 DEF PP!RefreshAnswers
  <2> DEFINE gs == [i \in DOMAIN s |-> [s[i] EXCEPT !.nodes =
                      PP!MergeProxyNodes(PP!NodesOf(view, s[i].name), s[i].nodes)]]
             w == [view EXCEPT !.groups = gs]
  <2>5. view' = PP!Render(PP!NormalizeGroup(w), screen.perPage)
    BY <2>4 DEF PP!ApplyServerGroups
  <2>6. ViewOK(view) /\ DOMAIN view = ViewFields /\ CursorOK(view) /\ screen.perPage \in Nat \ {0}
    BY <2>1, PageAssumptions DEF VInv, ViewOK, TestsOK
  <2>7. gs = [i \in DOMAIN s |-> [s[i] EXCEPT !.nodes =
               PP!MergeProxyNodes(PP!NodesOf(view, s[i].name), s[i].nodes)]]
    OBVIOUS
  <2> HIDE DEF gs
  <2>8. /\ DOMAIN w = ViewFields /\ w.groups = gs /\ w.groupName = view.groupName
        /\ w.nodeName = view.nodeName /\ w.page = view.page
    BY <2>6 DEF ViewFields
  <2> HIDE DEF w
  <2>9. CursorOK(w)
    BY <2>6, <2>8 DEF CursorOK
  <2>10. SameGroups(w, view')
    <3>1. SameGroups(w, PP!NormalizeGroup(w))
      BY <2>8, CursorFacts
    <3> QED
      BY <2>5, <3>1, CursorFacts DEF SameGroups
  <2>11. /\ s \in PP!Answer /\ PP!Named(s)
         /\ \A i \in DOMAIN s : PP!Named(s[i].nodes)
    BY PageAssumptions
  <2>12. ViewOK(w)
    BY <2>6, <2>7, <2>8, <2>11, AnswerFacts
  <2>13. DOMAIN view' = ViewFields /\ view'.groups = gs
    BY <2>8, <2>10 DEF SameGroups
  <2>14. \A g : PP!Has(gs, g) => \E n \in Seq(Fetched) :
           PP!Named(n) /\ PP!NodesOf(view', g) = PP!MergeProxyNodes(PP!NodesOf(view, g), n)
    BY <2>6, <2>7, <2>11, <2>13, AnswerFacts
  <2>15. ASSUME NEW i \in DOMAIN view.groups, NEW e, e = view.groups[i].nodes,
                PP!Has(view'.groups, view.groups[i].name),
                NEW after, after = PP!NodesOf(view', view.groups[i].name),
                NEW j \in DOMAIN e, NEW k \in DOMAIN e,
                PP!Has(after, e[j].name), PP!Has(after, e[k].name)
         PROVE  /\ j < k => PP!Index(after, e[j].name) < PP!Index(after, e[k].name)
                /\ e[j].delay = PP!Testing =>
                     after[PP!Index(after, e[j].name)].delay = PP!Testing
    <3>1. i \in 1..Len(view.groups)
      BY <2>6 DEF ViewOK
    <3>2. e = PP!NodesOf(view, view.groups[i].name) /\ e \in Seq(PP!Node) /\ PP!Named(e)
      BY <2>6, <2>15, <3>1, NodesFacts
    <3>3. PICK n \in Seq(Fetched) : PP!Named(n) /\ after = PP!MergeProxyNodes(e, n)
      BY <2>13, <2>14, <2>15, <3>2
    <3>4. j \in 1..Len(e) /\ k \in 1..Len(e)
      BY <2>15, <3>2
    <3> QED
      BY <2>15, <3>2, <3>3, <3>4, MergeFacts
  <2>16. PP!Has(view'.groups, view.groupName) =>
           /\ view'.groupName = view.groupName
           /\ PP!Has(PP!CurrentNodes(view'), view.nodeName) => view'.nodeName = view.nodeName
           /\ view.page <= PP!LastPage(view', screen.perPage) => view'.page = view.page
    BY <2>5, <2>6, <2>8, <2>9, <2>12, RefreshCursor
  <2> QED
    BY <2>15, <2>16 DEF PP!RefreshStep
<1> QED
  BY <1>1, PageInvariant, PTL DEF Spec, RefreshMovesNothing
-----------------------------------------------------------------------------
(* The parts together.  *)
LEMMA OnePart ==
  Spec => [](part \in {"proxy", "daemon", "install", "rules", "page"})
<1>1. Init => part \in {"proxy", "daemon", "install", "rules", "page"}
  BY DEF Init
<1>2. /\ part \in {"proxy", "daemon", "install", "rules", "page"}
      /\ [Next]_state
      => (part \in {"proxy", "daemon", "install", "rules", "page"})'
  BY DEF Next, state
<1> QED
  BY <1>1, <1>2, PTL DEF Spec

(* Every variable of every part keeps its type; in particular the daemon    *)
(* never has a configuration that Validate refuses, and a process that is   *)
(* not there has no operation under way.                                    *)
THEOREM TypesHold == Spec => []TypesOK
<1>1. ASSUME PInv, TInv, YInv PROVE SP!TypeOK
  BY <1>1, ProxyFacts DEF PInv, ProxyTypes, TInv, FilesOK, YInv, SettingsOK, DownIsDown,
     SP!TypeOK, pref, procs, tasks, wish, late, rc, hurt
<1>2. ASSUME DInv PROVE DA!TypeOK
  BY <1>2 DEF DInv, DaemonTypes, TuiRecord, Paths, Phases, Places, DA!TypeOK, user, phase,
     socket, tui, calm, wronged
<1>3. IInv => SI!TypeOK
  BY DEF IInv, InstallTypes
<1>4. TypedRules => KR!TypeOK
  BY DEF TypedRules
<1>5. ASSUME VInv PROVE PP!TypeOK
  <2>1. /\ bounds.refreshes \in 0..MaxRefreshes /\ bounds.tests \in 0..MaxTests
        /\ bounds.moves \in 0..MaxMoves
    BY <1>5, BoundsFacts DEF VInv
  <2> QED
    BY <1>5, <2>1 DEF VInv, ViewOK, CursorOK, TestsOK, Group, PP!TypeOK
<1>6. /\ part \in {"proxy", "daemon", "install", "rules", "page"}
      /\ part = "proxy" => PInv
      /\ part = "proxy" => TInv
      /\ part = "proxy" => YInv
      /\ part = "daemon" => DInv
      /\ part = "install" => IInv
      /\ part = "rules" => TypedRules
      /\ part = "page" => VInv
      => TypesOK
  BY <1>1, <1>2, <1>3, <1>4, <1>5 DEF TypesOK
<1> QED
  BY <1>6, OnePart, ProxyInvariant, TextsInvariant, ProxyTyped, DaemonInvariant,
     InstallInvariant, RulesTyped, PageInvariant, PTL
=============================================================================
