------------------------ MODULE SubscriptionPoolsProofs ------------------------
(* Proofs about SubscriptionPools. *)
EXTENDS SubscriptionPools, FiniteSetTheorems, SequenceTheorems,
        WellFoundedInduction, TLAPS
-----------------------------------------------------------------------------
(* Sublist.  What it computes follows by induction over the list; the least *)
(* number of a set of naturals takes the place of an induction theorem.     *)

(* Induction over an interval: a set that holds 0, and with a number below n *)
(* the next, holds all numbers up to n.                                      *)
LEMMA UpTo ==
  ASSUME NEW n \in Nat, NEW T,
         0 \in T, \A i \in 0..n : i \in T /\ i < n => i + 1 \in T
  PROVE  \A i \in 0..n : i \in T
<1> DEFINE R == OpToRel(<, Nat)
           Bad == {i \in 0..n : i \notin T}
<1>1. SUFFICES ASSUME Bad # {} PROVE FALSE
  OBVIOUS
<1>2. IsWellFoundedOn(R, Nat)
  BY NatLessThanWellFounded
<1>3. \A i, j \in Nat : i < j => <<i, j>> \in R
  BY DEF OpToRel
<1> HIDE DEF R
<1>a. Bad \subseteq Nat
  OBVIOUS
<1> HIDE DEF Bad
<1>4. PICK i \in Bad : \A j \in Bad : <<j, i>> \notin R
  BY <1>1, <1>2, <1>a, WFMin
<1>5. i # 0 /\ i \in 0..n
  BY <1>4 DEF Bad
<1>6. /\ i - 1 \in 0..n /\ i - 1 < n /\ (i - 1) + 1 = i
      /\ i \in Nat /\ i - 1 \in Nat /\ i - 1 < i
  BY <1>5
<1>7. i - 1 \notin Bad
  BY <1>3, <1>4, <1>6
<1> QED
  BY <1>4, <1>6, <1>7 DEF Bad

(* What first[n] of Sublist is made from. *)
Longer(list, keep, f, n) ==
  IF n = 0 THEN <<>>
  ELSE IF list[n] \in keep THEN Append(f[n - 1], list[n])
  ELSE f[n - 1]

LEMMA FirstExists ==
  ASSUME NEW S, NEW list \in Seq(S), NEW keep
  PROVE  \E f : f = [n \in 0..Len(list) |-> Longer(list, keep, f, n)]
<1> DEFINE N == Len(list)
           T == {k \in 0..N : \E f : f = [n \in 0..k |-> Longer(list, keep, f, n)]}
<1>0. N \in Nat
  OBVIOUS
<1> HIDE DEF N
<1>1. 0 \in T
  <2> DEFINE f == [n \in 0..0 |-> <<>>]
  <2>1. f = [n \in 0..0 |-> Longer(list, keep, f, n)]
    BY DEF Longer
  <2> QED
    BY <1>0, <2>1
<1>2. \A k \in 0..N : k \in T /\ k < N => k + 1 \in T
  <2> SUFFICES ASSUME NEW k \in 0..N, k \in T, k < N PROVE k + 1 \in T
    OBVIOUS
  <2>1. PICK f : f = [n \in 0..k |-> Longer(list, keep, f, n)]
    OBVIOUS
  <2> DEFINE g == [n \in 0..k + 1 |-> IF n = k + 1 THEN Longer(list, keep, f, n)
                                      ELSE f[n]]
  <2>2. \A n \in 0..k : g[n] = f[n]
    BY <1>0
  <2>3. \A n \in 0..k + 1 : Longer(list, keep, f, n) = Longer(list, keep, g, n)
    <3> SUFFICES ASSUME NEW n \in 0..k + 1
                 PROVE  Longer(list, keep, f, n) = Longer(list, keep, g, n)
      OBVIOUS
    <3>1. CASE n = 0
      BY <3>1 DEF Longer
    <3>2. CASE n # 0
      <4>1. n - 1 \in 0..k
        BY <1>0, <3>2
      <4>2. g[n - 1] = f[n - 1]
        BY <2>2, <4>1
      <4> HIDE DEF g
      <4> QED
        BY <4>2 DEF Longer
    <3> QED
      BY <3>1, <3>2
  <2>4. \A n \in 0..k : f[n] = Longer(list, keep, f, n)
    BY <2>1
  <2>5. \A n \in 0..k + 1 : g[n] = Longer(list, keep, g, n)
    BY <1>0, <2>3, <2>4
  <2>6. g = [n \in 0..k + 1 |-> g[n]]
    OBVIOUS
  <2> HIDE DEF g
  <2>7. g = [n \in 0..k + 1 |-> Longer(list, keep, g, n)]
    BY <2>5, <2>6
  <2> QED
    BY <1>0, <2>7
<1> HIDE DEF T
<1>3. \A k \in 0..N : k \in T
  BY <1>0, <1>1, <1>2, UpTo
<1>4. N \in T
  BY <1>0, <1>3
<1> QED
  BY <1>4 DEF T, N

(* Sublist is the last of a row of lists, each made from the one before. *)
LEMMA SublistSteps ==
  ASSUME NEW S, NEW list \in Seq(S), NEW keep
  PROVE  \E f : /\ f[0] = <<>>
                /\ \A n \in 0..Len(list) : n # 0 =>
                     f[n] = IF list[n] \in keep THEN Append(f[n - 1], list[n])
                            ELSE f[n - 1]
                /\ Sublist(list, keep) = f[Len(list)]
<1> DEFINE Is(f) == f = [n \in 0..Len(list) |->
                           IF n = 0 THEN <<>>
                           ELSE IF list[n] \in keep THEN Append(f[n - 1], list[n])
                           ELSE f[n - 1]]
<1>1. \E f : Is(f)
  BY FirstExists DEF Longer
<1> DEFINE f == CHOOSE f : Is(f)
<1>2. Is(f)
  BY <1>1
<1>3. Sublist(list, keep) = f[Len(list)]
  BY DEF Sublist
<1> HIDE DEF f
<1>a. Len(list) \in Nat
  OBVIOUS
<1>b. f = [n \in 0..Len(list) |->
             IF n = 0 THEN <<>>
             ELSE IF list[n] \in keep THEN Append(f[n - 1], list[n]) ELSE f[n - 1]]
  BY <1>2
<1> HIDE DEF Is
<1>4. f[0] = <<>> /\ \A n \in 0..Len(list) : n # 0 =>
                     f[n] = IF list[n] \in keep THEN Append(f[n - 1], list[n])
                            ELSE f[n - 1]
  <2> DEFINE N == Len(list)
  <2>1. N \in Nat /\ f = [n \in 0..N |->
                          IF n = 0 THEN <<>>
                          ELSE IF list[n] \in keep THEN Append(f[n - 1], list[n])
                          ELSE f[n - 1]]
    BY <1>a, <1>b
  <2> HIDE DEF N
  <2>2. 0 \in 0..N
    BY <2>1
  <2>3. f[0] = <<>>
    BY <2>1, <2>2, Zenon
  <2>4. ASSUME NEW n \in 0..N, n # 0
        PROVE  f[n] = IF list[n] \in keep THEN Append(f[n - 1], list[n])
                      ELSE f[n - 1]
    BY <2>1, <2>4, Zenon
  <2> QED
    BY <2>3, <2>4 DEF N
<1> QED
  BY <1>3, <1>4

LEMMA Appended ==
  ASSUME NEW S, NEW list \in Seq(S), NEW e \in S
  PROVE  /\ Append(list, e) \in Seq(S)
         /\ ToSet(Append(list, e)) = ToSet(list) \cup {e}
         /\ IsInjective(list) /\ e \notin ToSet(list) =>
              IsInjective(Append(list, e))
<1> DEFINE new == Append(list, e)
           N == Len(list)
<1>1. /\ new \in Seq(S) /\ N \in Nat /\ DOMAIN list = 1..N
      /\ DOMAIN new = 1..N + 1 /\ new[N + 1] = e
      /\ \A i \in 1..N : new[i] = list[i]
  OBVIOUS
<1> HIDE DEF new, N
<1>2. ToSet(new) = ToSet(list) \cup {e}
  <2>1. \A x \in ToSet(new) : x \in ToSet(list) \cup {e}
    BY <1>1 DEF ToSet
  <2>2. \A x \in ToSet(list) : x \in ToSet(new)
    BY <1>1 DEF ToSet
  <2>3. N + 1 \in DOMAIN new
    BY <1>1
  <2>4. e \in ToSet(new)
    BY <1>1, <2>3 DEF ToSet
  <2> QED
    BY <2>1, <2>2, <2>4
<1>3. ASSUME IsInjective(list), e \notin ToSet(list),
             NEW i \in DOMAIN new, NEW j \in DOMAIN new, new[i] = new[j]
      PROVE  i = j
  <2>1. \A k \in 1..N : new[k] # e
    BY <1>1, <1>3 DEF ToSet
  <2>2. CASE i \in 1..N /\ j \in 1..N
    BY <1>1, <1>3, <2>2 DEF IsInjective
  <2>3. CASE i \in 1..N /\ j = N + 1
    BY <1>1, <1>3, <2>1, <2>3
  <2>4. CASE i = N + 1 /\ j \in 1..N
    BY <1>1, <1>3, <2>1, <2>4
  <2> QED
    BY <1>1, <2>2, <2>3, <2>4
<1> QED
  BY <1>1, <1>2, <1>3 DEF new, IsInjective

(* Sublist keeps what is to be kept, each as often as it was there. *)
LEMMA SublistFacts ==
  ASSUME NEW S, NEW list \in Seq(S), NEW keep
  PROVE  /\ Sublist(list, keep) \in Seq(S)
         /\ ToSet(Sublist(list, keep)) = ToSet(list) \cap keep
         /\ IsInjective(list) => IsInjective(Sublist(list, keep))
<1> DEFINE N == Len(list)
           Seen(n) == {list[i] : i \in 1..n}
<1>1. PICK f : /\ f[0] = <<>>
               /\ \A n \in 0..N : n # 0 =>
                    f[n] = IF list[n] \in keep THEN Append(f[n - 1], list[n])
                           ELSE f[n - 1]
               /\ Sublist(list, keep) = f[N]
  BY SublistSteps
<1>2. N \in Nat /\ DOMAIN list = 1..N /\ \A i \in 1..N : list[i] \in S
  OBVIOUS
<1> HIDE DEF N
<1> DEFINE T == {n \in 0..N : /\ f[n] \in Seq(S)
                              /\ ToSet(f[n]) = Seen(n) \cap keep
                              /\ IsInjective(list) => IsInjective(f[n])}
<1>3. 0 \in T
  <2>1. f[0] \in Seq(S) /\ ToSet(f[0]) = {} /\ IsInjective(f[0])
    BY <1>1 DEF ToSet, IsInjective
  <2>2. Seen(0) = {}
    OBVIOUS
  <2> QED
    BY <1>2, <2>1, <2>2
<1>4. ASSUME NEW k \in 0..N, k \in T, k < N
      PROVE  k + 1 \in T
  <2> DEFINE e == list[k + 1]
  <2>1. k + 1 \in 0..N /\ k + 1 # 0 /\ (k + 1) - 1 = k /\ k + 1 \in 1..N
    BY <1>2, <1>4
  <2>2. f[k + 1] = IF e \in keep THEN Append(f[k], e) ELSE f[k]
    BY <1>1, <2>1
  <2>3. e \in S
    BY <1>2, <2>1
  <2>4. Seen(k + 1) = Seen(k) \cup {e}
    <3>1. \A i : i \in 1..k + 1 <=> i \in 1..k \/ i = k + 1
      BY <1>4
    <3> QED
      BY <3>1
  <2>5. ASSUME IsInjective(list) PROVE e \notin Seen(k)
    <3>1. \A i \in 1..k : i \in 1..N /\ i # k + 1
      BY <1>2, <1>4
    <3> QED
      BY <1>2, <2>1, <2>5, <3>1 DEF IsInjective
  <2>6. /\ f[k] \in Seq(S) /\ ToSet(f[k]) = Seen(k) \cap keep
        /\ IsInjective(list) => IsInjective(f[k])
    BY <1>4
  <2> HIDE DEF e, Seen
  <2>7. CASE e \in keep
    <3>1. f[k + 1] = Append(f[k], e)
      BY <2>2, <2>7
    <3>2. f[k + 1] \in Seq(S)
      BY <2>3, <2>6, <3>1, Appended
    <3>3. ToSet(f[k + 1]) = ToSet(f[k]) \cup {e}
      BY <2>3, <2>6, <3>1, Appended
    <3>4. ToSet(f[k + 1]) = Seen(k + 1) \cap keep
      BY <2>4, <2>6, <2>7, <3>3
    <3>5. ASSUME IsInjective(list) PROVE IsInjective(f[k + 1])
      <4>1. e \notin ToSet(f[k])
        BY <2>5, <2>6, <3>5
      <4> QED
        BY <2>3, <2>6, <3>1, <3>5, <4>1, Appended
    <3> QED
      BY <2>1, <3>2, <3>4, <3>5
  <2>8. CASE e \notin keep
    <3>1. f[k + 1] = f[k]
      BY <2>2, <2>8
    <3>2. Seen(k + 1) \cap keep = Seen(k) \cap keep
      BY <2>4, <2>8
    <3> QED
      BY <2>1, <2>6, <3>1, <3>2
  <2> QED
    BY <2>7, <2>8
<1> HIDE DEF T
<1>5. \A n \in 0..N : n \in T
  BY <1>2, <1>3, <1>4, UpTo
<1>6. N \in T
  BY <1>2, <1>5
<1>7. Seen(N) = ToSet(list)
  BY <1>2 DEF ToSet
<1> QED
  BY <1>1, <1>6, <1>7 DEF T

LEMMA HeadIsThere ==
  ASSUME NEW S, NEW list \in Seq(S), list # <<>>
  PROVE  Head(list) \in ToSet(list) /\ Head(list) \in S
BY DEF ToSet

-----------------------------------------------------------------------------
(* The functions on pools. *)

(* What Validate asks of one pool by itself, and that it has an active       *)
(* member, which Validate does not ask for.                                  *)
HasActive(p) == p.members # <<>> => p.active # None

Whole(p) ==
  /\ IsInjective(p.members)
  /\ p.enabled => p.members # <<>>
  /\ p.active \in ToSet(p.members) \cup {None}
  /\ HasActive(p)

LEMMA MembersAreSubs ==
  ASSUME NEW p \in PoolRecords
  PROVE  p.members \in Seq(Subs) /\ ToSet(p.members) \subseteq Subs
BY DEF PoolRecords, ToSet

LEMMA WithoutFacts ==
  ASSUME NEW p \in PoolRecords, NEW out, NEW new, new = Without(p, out)
  PROVE  /\ new \in PoolRecords
         /\ new.mode = p.mode /\ new.enabled = p.enabled
         /\ ToSet(new.members) = ToSet(p.members) \ out
         /\ p.active \notin out => new.active = p.active
         /\ IsInjective(p.members) => IsInjective(new.members)
         /\ p.active \in ToSet(p.members) \cup {None} =>
              new.active \in ToSet(new.members) \cup {None}
         /\ HasActive(p) => HasActive(new)
<1> DEFINE kept == Sublist(p.members, Subs \ out)
           chosen == IF p.active \notin out THEN p.active
                     ELSE IF kept = <<>> THEN None ELSE Head(kept)
<1>1. p.members \in Seq(Subs) /\ ToSet(p.members) \subseteq Subs
  BY MembersAreSubs
<1>2. /\ kept \in Seq(Subs)
      /\ ToSet(kept) = ToSet(p.members) \cap (Subs \ out)
      /\ IsInjective(p.members) => IsInjective(kept)
  BY <1>1, SublistFacts
<1>3. ToSet(kept) = ToSet(p.members) \ out
  BY <1>1, <1>2
<1>4. kept # <<>> => Head(kept) \in ToSet(kept) /\ Head(kept) \in Subs
  BY <1>2, HeadIsThere
<1>5. new = [p EXCEPT !.members = kept, !.active = chosen]
  BY DEF Without
<1> HIDE DEF kept
<1>6. chosen \in Subs \cup {None}
  BY <1>4 DEF PoolRecords
<1> HIDE DEF chosen
<1>7. /\ new \in PoolRecords
      /\ new.mode = p.mode /\ new.enabled = p.enabled
      /\ new.members = kept /\ new.active = chosen
  BY <1>2, <1>5, <1>6 DEF PoolRecords
<1>8. p.active \notin out => chosen = p.active
  BY DEF chosen
<1>9. ASSUME p.active \in ToSet(p.members) \cup {None}
      PROVE  chosen \in ToSet(kept) \cup {None}
  BY <1>3, <1>4, <1>9 DEF chosen
<1>10. ASSUME HasActive(p), kept # <<>> PROVE chosen # None
  <2>1. None \notin Subs
    BY PoolAssumption
  <2>2. p.members # <<>>
    <3>1. ToSet(p.members) # {}
      BY <1>3, <1>4, <1>10
    <3>2. ToSet(<<>>) = {}
      BY DEF ToSet
    <3> QED
      BY <3>1, <3>2
  <2> QED
    BY <1>4, <1>10, <2>1, <2>2 DEF chosen, HasActive
<1> QED
  BY <1>2, <1>3, <1>7, <1>8, <1>9, <1>10 DEF HasActive

LEMMA EmptiedFacts ==
  ASSUME NEW p \in PoolRecords
  PROVE  /\ Emptied(p) \in PoolRecords
         /\ Emptied(p).mode = p.mode /\ Emptied(p).enabled = FALSE
         /\ Emptied(p).members = p.members /\ Emptied(p).active = p.active
BY DEF Emptied, PoolRecords

LEMMA NoMembers ==
  ASSUME NEW p \in PoolRecords
  PROVE  p.members = <<>> <=> ToSet(p.members) = {}
<1>1. p.members \in Seq(Subs)
  BY MembersAreSubs
<1>2. p.members # <<>> => Head(p.members) \in ToSet(p.members)
  BY <1>1, HeadIsThere
<1>3. ToSet(<<>>) = {}
  BY DEF ToSet
<1> QED
  BY <1>2, <1>3

(* Config.RemoveSubscription leaves a pool that is whole. *)
LEMMA RemovedIsWhole ==
  ASSUME NEW p \in PoolRecords, Whole(p), NEW s, NEW new, new = RemovedFrom(p, s)
  PROVE  /\ new \in PoolRecords /\ Whole(new) /\ new.mode = p.mode
         /\ ToSet(new.members) = ToSet(p.members) \ {s}
         /\ new.enabled => p.enabled
         /\ p.enabled /\ new.members # <<>> => new.enabled
         /\ p.active # s => new.active = p.active
<1> DEFINE out == {s}
           rest == Without(p, out)
<1>0. new = IF rest.members = <<>> THEN Emptied(rest) ELSE rest
  BY DEF RemovedFrom
<1> HIDE DEF out
<1>1. /\ rest \in PoolRecords
      /\ rest.mode = p.mode /\ rest.enabled = p.enabled
      /\ ToSet(rest.members) = ToSet(p.members) \ out
      /\ p.active \notin out => rest.active = p.active
      /\ IsInjective(rest.members)
      /\ rest.active \in ToSet(rest.members) \cup {None}
      /\ HasActive(rest)
  BY WithoutFacts DEF Whole
<1>2. out = {s}
  BY DEF out
<1> HIDE DEF rest
<1>3. CASE rest.members = <<>>
  BY <1>0, <1>1, <1>2, <1>3, EmptiedFacts DEF Whole, HasActive
<1>4. CASE rest.members # <<>>
  BY <1>0, <1>1, <1>2, <1>4 DEF Whole
<1> QED
  BY <1>3, <1>4

(* So does assignPoolMembers: a pool that loses all its members loses its    *)
(* active one with them, and only that is what the code looks at.            *)
LEMMA RobbedIsWhole ==
  ASSUME NEW p \in PoolRecords, Whole(p), NEW out, NEW new, new = Robbed(p, out)
  PROVE  /\ new \in PoolRecords /\ Whole(new)
         /\ ToSet(new.members) = ToSet(p.members) \ out
<1> DEFINE rest == Without(p, out)
<1>1. /\ rest \in PoolRecords
      /\ rest.mode = p.mode /\ rest.enabled = p.enabled
      /\ ToSet(rest.members) = ToSet(p.members) \ out
      /\ p.active \notin out => rest.active = p.active
      /\ IsInjective(rest.members)
      /\ rest.active \in ToSet(rest.members) \cup {None}
      /\ HasActive(rest)
  BY WithoutFacts DEF Whole
<1>2. new = IF p.active \in out /\ rest.members = <<>> THEN Emptied(rest) ELSE rest
  BY DEF Robbed
<1> HIDE DEF rest
<1>3. CASE p.active \in out /\ rest.members = <<>>
  BY <1>1, <1>2, <1>3, EmptiedFacts DEF Whole, HasActive
<1>4. CASE ~(p.active \in out /\ rest.members = <<>>)
  <2>1. p.enabled /\ rest.members = <<>> => p.active \in out
    <3>1. rest.members = <<>> => ToSet(p.members) \subseteq out
      BY <1>1, NoMembers
    <3> QED
      BY <3>1 DEF Whole, HasActive
  <2> QED
    BY <1>1, <1>2, <1>4, <2>1 DEF Whole
<1> QED
  BY <1>3, <1>4

(* And failoverSubscription changes nothing but the active member. *)
LEMMA SwitchedIsWhole ==
  ASSUME NEW c, NEW s, NEW p \in PoolRecords, NEW new, new = Switched(c, s, p)
  PROVE  /\ new \in PoolRecords
         /\ new.mode = p.mode /\ new.enabled = p.enabled /\ new.members = p.members
         /\ Whole(p) => Whole(new)
<1> DEFINE next == Sublist(p.members, {m \in Subs : Candidate(c, s, m)})
<1>1. p.members \in Seq(Subs)
  BY MembersAreSubs
<1>2. next \in Seq(Subs) /\ ToSet(next) \subseteq ToSet(p.members)
  BY <1>1, SublistFacts
<1>3. next # <<>> => Head(next) \in ToSet(p.members) /\ Head(next) \in Subs
  BY <1>2, HeadIsThere
<1>4. new = IF next = <<>> THEN [p EXCEPT !.degraded = TRUE]
            ELSE [p EXCEPT !.active = Head(next), !.degraded = FALSE]
  BY DEF Switched
<1> DEFINE head == Head(next)
<1> HIDE DEF next
<1>5. CASE next = <<>>
  <2>1. /\ new \in PoolRecords
        /\ new.mode = p.mode /\ new.enabled = p.enabled /\ new.members = p.members
        /\ new.active = p.active
    BY <1>4, <1>5 DEF PoolRecords
  <2> QED
    BY <2>1 DEF Whole, HasActive
<1>6. CASE next # <<>>
  <2>1. head \in ToSet(p.members) /\ head \in Subs
    BY <1>3, <1>6
  <2>2. new = [p EXCEPT !.active = head, !.degraded = FALSE]
    BY <1>4, <1>6
  <2> HIDE DEF head
  <2>3. /\ new \in PoolRecords
        /\ new.mode = p.mode /\ new.enabled = p.enabled /\ new.members = p.members
        /\ new.active = head
    BY <2>1, <2>2 DEF PoolRecords
  <2>4. head # None
    BY <2>1, PoolAssumption
  <2> QED
    BY <2>1, <2>3, <2>4 DEF Whole, HasActive
<1> QED
  BY <1>5, <1>6

-----------------------------------------------------------------------------
(* The functions on configurations. *)
Configs == [subs : [Subs -> Sub \cup {None}], pools : [Pools -> PoolRecords \cup {None}]]

(* Validate accepts c, and every pool with members has an active one. *)
Right(c) == Valid(c) /\ \A q \in PoolsOf(c) : HasActive(c.pools[q])

LEMMA RightParts ==
  ASSUME NEW c \in Configs
  PROVE  Right(c) <=>
           /\ \A q \in PoolsOf(c) :
                Whole(c.pools[q]) /\ \A s \in ToSet(c.pools[q].members) : Exists(c, s)
           /\ \A q, r \in PoolsOf(c) : q # r =>
                ToSet(c.pools[q].members) \cap ToSet(c.pools[r].members) = {}
BY DEF Right, Valid, ValidPool, Whole

LEMMA PoolsAreRecords ==
  ASSUME NEW c \in Configs, NEW q \in PoolsOf(c)
  PROVE  q \in Pools /\ c.pools[q] \in PoolRecords
BY DEF Configs, PoolsOf

LEMMA SubsAreRecords ==
  ASSUME NEW c \in Configs, NEW s \in Subs, Exists(c, s)
  PROVE  c.subs[s] \in Sub
BY DEF Configs, Exists

(* What a commit about one subscription leaves as it is. *)
LEMMA WithSubFacts ==
  ASSUME NEW c \in Configs, NEW s \in Subs, NEW sub \in Sub, NEW d, d = WithSub(c, s, sub)
  PROVE  /\ d \in Configs /\ d.pools = c.pools
         /\ d.subs[s] = sub
         /\ \A o \in Subs : o # s => d.subs[o] = c.subs[o]
<1> DEFINE new == [c.subs EXCEPT ![s] = sub]
<1>1. new \in [Subs -> Sub \cup {None}] /\ new[s] = sub
      /\ \A o \in Subs : o # s => new[o] = c.subs[o]
  BY DEF Configs
<1>2. d = [c EXCEPT !.subs = new]
  BY DEF WithSub, Configs
<1> HIDE DEF new
<1>3. d \in Configs /\ d.pools = c.pools /\ d.subs = new
  BY <1>1, <1>2 DEF Configs
<1> QED
  BY <1>1, <1>3 DEF new

LEMMA FailedFacts ==
  ASSUME NEW c \in Configs, NEW s \in Subs, Exists(c, s)
  PROVE  \E sub \in Sub : /\ Failed(c, s) = WithSub(c, s, sub)
                          /\ sub.digest = c.subs[s].digest
                          /\ sub.disabled = c.subs[s].disabled
<1> DEFINE old == c.subs[s]
           sub == [old EXCEPT !.failures = IF @ < Threshold THEN @ + 1 ELSE @]
<1>1. old \in Sub
  BY SubsAreRecords
<1>2. sub \in Sub /\ sub.digest = old.digest /\ sub.disabled = old.disabled
  <2>1. Threshold \in Nat
    BY PoolAssumption
  <2> HIDE DEF old
  <2> QED
    BY <1>1, <2>1 DEF Sub
<1>3. Failed(c, s) = WithSub(c, s, sub)
  BY DEF Failed, WithSub, Configs
<1> QED
  BY <1>2, <1>3

LEMMA RefreshedFacts ==
  ASSUME NEW c \in Configs, NEW s \in Subs, Exists(c, s), NEW content \in 0..MaxContent
  PROVE  \E sub \in Sub : /\ Refreshed(c, s, content) = WithSub(c, s, sub)
                          /\ sub.digest = content
                          /\ sub.disabled = c.subs[s].disabled
<1> DEFINE old == c.subs[s]
           sub == [old EXCEPT !.failures = 0, !.digest = content]
<1>1. old \in Sub
  BY SubsAreRecords
<1>2. sub \in Sub /\ sub.digest = content /\ sub.disabled = old.disabled
  <2> HIDE DEF old
  <2>1. 0 \in 0..Threshold
    BY PoolAssumption
  <2>2. sub \in Sub
    BY <1>1, <2>1 DEF Sub
  <2>3. sub.digest = content
    BY <1>1 DEF Sub
  <2>4. sub.disabled = old.disabled
    BY <1>1 DEF Sub
  <2> QED
    BY <2>2, <2>3, <2>4
<1>3. Refreshed(c, s, content) = WithSub(c, s, sub)
  BY DEF Refreshed, WithSub, Configs
<1> QED
  BY <1>2, <1>3

(* A record that comes or changes does no harm to a pool. *)
LEMMA WithSubIsRight ==
  ASSUME NEW c \in Configs, Right(c), NEW s \in Subs, NEW sub \in Sub,
         NEW d, d = WithSub(c, s, sub)
  PROVE  Right(d)
<1>1. /\ d \in Configs /\ d.pools = c.pools /\ d.subs[s] = sub
      /\ \A o \in Subs : o # s => d.subs[o] = c.subs[o]
  BY WithSubFacts
<1>2. sub # None
  BY PoolAssumption
<1>3. \A o \in Subs : Exists(c, o) => Exists(d, o)
  BY <1>1, <1>2 DEF Exists
<1>4. PoolsOf(d) = PoolsOf(c)
  BY <1>1 DEF PoolsOf
<1>5. ASSUME NEW q \in PoolsOf(d)
      PROVE  Whole(d.pools[q]) /\ \A o \in ToSet(d.pools[q].members) : Exists(d, o)
  <2>1. ToSet(c.pools[q].members) \subseteq Subs
    BY <1>4, PoolsAreRecords, MembersAreSubs
  <2> QED
    BY <1>1, <1>3, <1>4, <2>1, RightParts
<1> QED
  BY <1>1, <1>4, <1>5, RightParts

(* RemoveSubscription, whose result Validate accepts without being asked. *)
LEMMA RemovedIsRight ==
  ASSUME NEW c \in Configs, Right(c), NEW s \in Subs, NEW d, d = Removed(c, s)
  PROVE  /\ d \in Configs /\ Right(d) /\ PoolsOf(d) = PoolsOf(c)
         /\ \A q \in PoolsOf(c) : d.pools[q] = RemovedFrom(c.pools[q], s)
         /\ d.subs = [c.subs EXCEPT ![s] = None]
<1>1. \A q \in PoolsOf(c) :
        c.pools[q] \in PoolRecords /\ Whole(c.pools[q]) /\ q \in Pools
  BY PoolsAreRecords, RightParts
<1>2. d.subs = [c.subs EXCEPT ![s] = None]
  BY DEF Removed
<1>3. d.pools = [q \in Pools |-> IF q \in PoolsOf(c) THEN RemovedFrom(c.pools[q], s)
                                                     ELSE None]
  BY DEF Removed
<1>4. \A q \in PoolsOf(c) : /\ d.pools[q] = RemovedFrom(c.pools[q], s)
                            /\ d.pools[q] \in PoolRecords /\ Whole(d.pools[q])
                            /\ ToSet(d.pools[q].members) =
                                 ToSet(c.pools[q].members) \ {s}
  <2> TAKE q \in PoolsOf(c)
  <2> DEFINE old == c.pools[q]
             new == d.pools[q]
  <2>1. new = RemovedFrom(old, s)
    BY <1>1, <1>3
  <2>2. old \in PoolRecords /\ Whole(old)
    BY <1>1
  <2> HIDE DEF old, new
  <2>3. new \in PoolRecords /\ Whole(new) /\ ToSet(new.members) = ToSet(old.members) \ {s}
    BY <2>1, <2>2, RemovedIsWhole
  <2> QED
    BY <2>1, <2>3 DEF old, new
<1>5. \A q \in Pools : d.pools[q] \in PoolRecords \cup {None}
  BY <1>3, <1>4
<1>6. d \in Configs
  <2>1. d.subs \in [Subs -> Sub \cup {None}]
    BY <1>2 DEF Configs
  <2>2. d.pools \in [Pools -> PoolRecords \cup {None}]
    BY <1>3, <1>5
  <2>3. d = [subs |-> d.subs, pools |-> d.pools]
    BY DEF Removed
  <2> QED
    BY <2>1, <2>2, <2>3 DEF Configs
<1>7. PoolsOf(d) = PoolsOf(c)
  <2>1. None \notin PoolRecords
    BY PoolAssumption
  <2> QED
    BY <1>1, <1>3, <1>4, <2>1 DEF PoolsOf
<1>8. \A o \in Subs : o # s /\ Exists(c, o) => Exists(d, o)
  BY <1>2 DEF Exists, Configs
<1>9. ASSUME NEW q \in PoolsOf(d)
      PROVE  Whole(d.pools[q]) /\ \A o \in ToSet(d.pools[q].members) : Exists(d, o)
  <2>1. ToSet(c.pools[q].members) \subseteq Subs
    BY <1>1, <1>7, MembersAreSubs
  <2>2. \A o \in ToSet(c.pools[q].members) : Exists(c, o)
    BY <1>7, RightParts
  <2> QED
    BY <1>4, <1>7, <1>8, <2>1, <2>2
<1>10. ASSUME NEW q \in PoolsOf(d), NEW r \in PoolsOf(d), q # r
       PROVE  ToSet(d.pools[q].members) \cap ToSet(d.pools[r].members) = {}
  <2>1. ToSet(c.pools[q].members) \cap ToSet(c.pools[r].members) = {}
    BY <1>7, <1>10, RightParts
  <2> QED
    BY <1>4, <1>7, <2>1
<1>11. Right(d)
  BY <1>6, <1>9, <1>10, RightParts
<1> QED
  BY <1>2, <1>4, <1>6, <1>7, <1>11

(* failoverSubscription. *)
LEMMA FailedOverIsRight ==
  ASSUME NEW c \in Configs, Right(c), NEW s \in Subs, NEW d, d = FailedOver(c, s)
  PROVE  /\ d \in Configs /\ Right(d) /\ d.subs = c.subs /\ PoolsOf(d) = PoolsOf(c)
         /\ \A q \in PoolsOf(c) : /\ d.pools[q].mode = c.pools[q].mode
                                  /\ d.pools[q].enabled = c.pools[q].enabled
                                  /\ d.pools[q].members = c.pools[q].members
<1> DEFINE new == [q \in Pools |-> IF FailsOver(c, s, q) THEN Switched(c, s, c.pools[q])
                                   ELSE c.pools[q]]
<1>1. \A q \in PoolsOf(c) :
        c.pools[q] \in PoolRecords /\ Whole(c.pools[q]) /\ q \in Pools
  BY PoolsAreRecords, RightParts
<1>2. \A q \in PoolsOf(c) : /\ new[q] \in PoolRecords /\ Whole(new[q])
                            /\ new[q].mode = c.pools[q].mode
                            /\ new[q].enabled = c.pools[q].enabled
                            /\ new[q].members = c.pools[q].members
  <2> TAKE q \in PoolsOf(c)
  <2> DEFINE old == c.pools[q]
             now == new[q]
  <2>1. old \in PoolRecords /\ Whole(old)
    BY <1>1
  <2>2. now = Switched(c, s, old) \/ now = old
    BY <1>1
  <2> HIDE DEF old, now
  <2>3. /\ now \in PoolRecords /\ Whole(now) /\ now.mode = old.mode
        /\ now.enabled = old.enabled /\ now.members = old.members
    BY <2>1, <2>2, SwitchedIsWhole
  <2> QED
    BY <2>3 DEF old, now
<1>3. \A q \in Pools : q \notin PoolsOf(c) => new[q] = None
  BY DEF PoolsOf, FailsOver, Enabled
<1>4. new \in [Pools -> PoolRecords \cup {None}]
  BY <1>2, <1>3
<1>5. d = [c EXCEPT !.pools = new]
  BY DEF FailedOver
<1> HIDE DEF new
<1>6. d \in Configs /\ d.pools = new /\ d.subs = c.subs
  BY <1>4, <1>5 DEF Configs
<1>7. PoolsOf(d) = PoolsOf(c)
  <2>1. None \notin PoolRecords
    BY PoolAssumption
  <2> QED
    BY <1>1, <1>2, <1>3, <1>6, <2>1 DEF PoolsOf
<1>8. \A o : Exists(d, o) <=> Exists(c, o)
  BY <1>6 DEF Exists
<1>9. ASSUME NEW q \in PoolsOf(d)
      PROVE  Whole(d.pools[q]) /\ \A o \in ToSet(d.pools[q].members) : Exists(d, o)
  BY <1>2, <1>6, <1>7, <1>8, RightParts
<1>10. ASSUME NEW q \in PoolsOf(d), NEW r \in PoolsOf(d), q # r
       PROVE  ToSet(d.pools[q].members) \cap ToSet(d.pools[r].members) = {}
  <2>1. ToSet(c.pools[q].members) \cap ToSet(c.pools[r].members) = {}
    BY <1>7, <1>10, RightParts
  <2> QED
    BY <1>2, <1>6, <1>7, <2>1
<1>11. Right(d)
  BY <1>6, <1>9, <1>10, RightParts
<1> QED
  BY <1>2, <1>6, <1>7, <1>11

LEMMA MemberListsAreSeqs ==
  MemberLists \subseteq Seq(Subs)
<1> SUFFICES ASSUME NEW l \in MemberLists PROVE l \in Seq(Subs)
  OBVIOUS
<1>1. PICK m \in 0..MaxMembers : l \in [1..m -> Subs]
  BY DEF MemberLists, SeqOf
<1>2. m \in Nat
  BY PoolAssumption
<1> QED
  BY <1>1, <1>2

(* The pool that a request asks for. *)
LEMMA TargetFacts ==
  ASSUME NEW c \in Configs, NEW q \in Pools, NEW r \in Requests,
         NEW new, new = Target(c, q, r)
  PROVE  /\ new \in PoolRecords
         /\ new.members = r.members /\ new.enabled = r.enabled
         /\ HasActive(new)
         /\ r.active \in ToSet(r.members) \cup {None} =>
              new.active \in ToSet(new.members) \cup {None}
<1> DEFINE degraded == q \in PoolsOf(c) /\ c.pools[q].degraded
           first == IF r.active = None /\ r.members # <<>> THEN Head(r.members)
                    ELSE r.active
<1>1. r.members \in Seq(Subs)
  BY MemberListsAreSeqs DEF Requests
<1>2. r.members # <<>> => Head(r.members) \in ToSet(r.members) /\ Head(r.members) \in Subs
  BY <1>1, HeadIsThere
<1>3. first \in Subs \cup {None}
  BY <1>2 DEF Requests
<1>4. r.members # <<>> => first # None
  BY <1>2, PoolAssumption
<1>5. r.active \in ToSet(r.members) \cup {None} => first \in ToSet(r.members) \cup {None}
  BY <1>2
<1>6. degraded \in BOOLEAN
  <2>1. q \in PoolsOf(c) => c.pools[q].degraded \in BOOLEAN
    BY PoolsAreRecords DEF PoolRecords
  <2> QED
    BY <2>1
<1>7. new = Pool([r EXCEPT !.active = first], degraded)
  BY DEF Target
<1> HIDE DEF first, degraded
<1> DEFINE asked == [r EXCEPT !.active = first]
<1>8. /\ asked.mode = r.mode /\ asked.members = r.members /\ asked.enabled = r.enabled
      /\ asked.active = first
  BY DEF Requests
<1>9. r.mode \in {"failover", "merge"} /\ r.enabled \in BOOLEAN
  BY DEF Requests
<1>10. new = Pool(asked, degraded)
  BY <1>7
<1> HIDE DEF asked
<1>11. new = [mode |-> r.mode, members |-> r.members, active |-> first,
              enabled |-> r.enabled, degraded |-> degraded]
  BY <1>8, <1>10 DEF Pool
<1>12. new \in PoolRecords
  BY <1>1, <1>3, <1>6, <1>9, <1>11 DEF PoolRecords
<1> QED
  BY <1>4, <1>5, <1>11, <1>12 DEF HasActive

(* The handlers of POST and PUT. *)
LEMMA SavedFacts ==
  ASSUME NEW c \in Configs, Right(c), NEW q \in Pools, NEW r \in Requests,
         NEW d, d = Saved(c, q, r)
  PROVE  /\ d \in Configs /\ d.subs = c.subs /\ PoolsOf(d) = PoolsOf(c) \cup {q}
         /\ d.pools[q] = Target(c, q, r)
         /\ \A o \in PoolsOf(c) : o # q =>
              /\ Whole(d.pools[o])
              /\ ToSet(d.pools[o].members) =
                   ToSet(c.pools[o].members) \ ToSet(r.members)
<1> DEFINE new == [o \in Pools |-> IF o = q THEN Target(c, q, r)
                                   ELSE IF o \in PoolsOf(c)
                                     THEN Robbed(c.pools[o], ToSet(r.members))
                                   ELSE None]
<1>1. \A o \in PoolsOf(c) :
        c.pools[o] \in PoolRecords /\ Whole(c.pools[o]) /\ o \in Pools
  BY PoolsAreRecords, RightParts
<1>2. \A o \in PoolsOf(c) : o # q =>
        /\ new[o] \in PoolRecords /\ Whole(new[o])
        /\ ToSet(new[o].members) = ToSet(c.pools[o].members) \ ToSet(r.members)
  <2> SUFFICES ASSUME NEW o \in PoolsOf(c), o # q
               PROVE  /\ new[o] \in PoolRecords /\ Whole(new[o])
                      /\ ToSet(new[o].members) =
                           ToSet(c.pools[o].members) \ ToSet(r.members)
    OBVIOUS
  <2> DEFINE old == c.pools[o]
             now == new[o]
             out == ToSet(r.members)
  <2>1. old \in PoolRecords /\ Whole(old)
    BY <1>1
  <2>2. now = Robbed(old, out)
    BY <1>1
  <2> HIDE DEF old, now, out
  <2>3. /\ now \in PoolRecords /\ Whole(now)
        /\ ToSet(now.members) = ToSet(old.members) \ out
    BY <2>1, <2>2, RobbedIsWhole
  <2> QED
    BY <2>3 DEF old, now, out
<1>3. new[q] = Target(c, q, r) /\ new[q] \in PoolRecords
  BY TargetFacts
<1>4. \A o \in Pools : o \notin PoolsOf(c) /\ o # q => new[o] = None
  OBVIOUS
<1>5. new \in [Pools -> PoolRecords \cup {None}]
  BY <1>2, <1>3, <1>4
<1>6. d = [c EXCEPT !.pools = new]
  BY DEF Saved
<1> HIDE DEF new
<1>7. d \in Configs /\ d.pools = new /\ d.subs = c.subs
  BY <1>5, <1>6 DEF Configs
<1>8. PoolsOf(d) = PoolsOf(c) \cup {q}
  <2>1. None \notin PoolRecords
    BY PoolAssumption
  <2> QED
    <3>1. \A o \in PoolsOf(c) \cup {q} : new[o] # None
      BY <1>2, <1>3, <2>1
    <3>2. \A o \in Pools : d.pools[o] # None <=> o \in PoolsOf(c) \cup {q}
      BY <1>4, <1>7, <3>1
    <3>3. PoolsOf(c) \cup {q} \subseteq Pools
      BY DEF PoolsOf
    <3>4. PoolsOf(d) = {o \in Pools : d.pools[o] # None}
      BY DEF PoolsOf
    <3> QED
      BY <3>2, <3>3, <3>4, Zenon
<1> QED
  BY <1>2, <1>3, <1>7, <1>8

(* A request that is right in itself leads to a right configuration: the      *)
(* members it takes from other pools are gone there.                          *)
LEMMA SavedIsRight ==
  ASSUME NEW c \in Configs, Right(c), NEW q \in Pools, NEW r \in Proper,
         \A s \in ToSet(r.members) : Exists(c, s), NEW d, d = Saved(c, q, r)
  PROVE  Right(d)
<1>1. /\ r \in Requests /\ IsInjective(r.members)
      /\ r.active \in ToSet(r.members) \cup {None}
      /\ r.enabled => r.members # <<>>
  BY DEF Proper
<1>2. /\ d \in Configs /\ d.subs = c.subs /\ PoolsOf(d) = PoolsOf(c) \cup {q}
      /\ d.pools[q] = Target(c, q, r)
      /\ \A o \in PoolsOf(c) : o # q =>
           /\ Whole(d.pools[o])
           /\ ToSet(d.pools[o].members) = ToSet(c.pools[o].members) \ ToSet(r.members)
  <2>1. r \in Requests
    BY <1>1
  <2> QED
    BY <2>1, SavedFacts, SMTT(60)
<1>3. Whole(d.pools[q]) /\ d.pools[q].members = r.members
  <2> DEFINE new == d.pools[q]
  <2>1. new = Target(c, q, r)
    BY <1>2
  <2> HIDE DEF new
  <2>2. /\ new.members = r.members /\ new.enabled = r.enabled /\ HasActive(new)
        /\ new.active \in ToSet(new.members) \cup {None}
    BY <1>1, <2>1, TargetFacts
  <2>3. Whole(new) /\ new.members = r.members
    BY <1>1, <2>2 DEF Whole
  <2> QED
    BY <2>3 DEF new
<1>4. \A o : Exists(d, o) <=> Exists(c, o)
  BY <1>2 DEF Exists
<1>5. ASSUME NEW o \in PoolsOf(d)
      PROVE  Whole(d.pools[o]) /\ \A s \in ToSet(d.pools[o].members) : Exists(d, s)
  <2>1. CASE o = q
    BY <1>3, <1>4, <2>1
  <2>2. CASE o # q
    BY <1>2, <1>4, <2>2, RightParts
  <2> QED
    BY <2>1, <2>2
<1>6. ASSUME NEW o \in PoolsOf(d), NEW n \in PoolsOf(d), o # n
      PROVE  ToSet(d.pools[o].members) \cap ToSet(d.pools[n].members) = {}
  <2>1. CASE o # q /\ n # q
    <3>1. ToSet(c.pools[o].members) \cap ToSet(c.pools[n].members) = {}
      BY <1>2, <1>6, <2>1, RightParts
    <3> QED
      BY <1>2, <2>1, <3>1
  <2>2. CASE o = q
    BY <1>2, <1>3, <1>6, <2>2
  <2>3. CASE n = q
    BY <1>2, <1>3, <1>6, <2>3
  <2> QED
    BY <2>1, <2>2, <2>3
<1> QED
  BY <1>2, <1>5, <1>6, RightParts

-----------------------------------------------------------------------------
(* What the pools hand to the kernel. *)

LEMMA SameSupply ==
  ASSUME NEW c, NEW d, NEW files, NEW new, Enabled(d) = Enabled(c),
         \A q \in Enabled(c) : Sources(d, d.pools[q]) = Sources(c, c.pools[q]),
         \A q \in Enabled(c) : \A s \in Sources(c, c.pools[q]) : new[s] = files[s]
  PROVE  /\ HasSources(d) <=> HasSources(c)
         /\ PoolProviders(d, new) = PoolProviders(c, files)
<1>1. HasSources(d) <=> HasSources(c)
  BY DEF HasSources
<1>2. ASSUME NEW s \in Subs
      PROVE  PoolProviders(d, new)[s] = PoolProviders(c, files)[s]
  <2>1. (\E q \in Enabled(d) : s \in Sources(d, d.pools[q])) <=>
        (\E q \in Enabled(c) : s \in Sources(c, c.pools[q]))
    OBVIOUS
  <2>2. CASE \E q \in Enabled(c) : s \in Sources(c, c.pools[q])
    BY <2>1, <2>2 DEF PoolProviders
  <2>3. CASE ~ \E q \in Enabled(c) : s \in Sources(c, c.pools[q])
    BY <2>1, <2>3 DEF PoolProviders
  <2> QED
    BY <2>2, <2>3
<1> QED
  BY <1>1, <1>2 DEF PoolProviders

(* One record changes: the kernel's sources stay the same if the record says *)
(* as much about its cache as before, or if no pool uses the subscription.   *)
LEMMA WithSubSupply ==
  ASSUME NEW c \in Configs, NEW s \in Subs, NEW sub \in Sub,
         NEW d, d = WithSub(c, s, sub), NEW files, NEW new,
         \A o \in Subs : o # s => new[o] = files[o],
         \/ ~Affects(d, s)
         \/ /\ Exists(c, s) /\ new[s] = files[s]
            /\ sub.digest = c.subs[s].digest /\ sub.disabled = c.subs[s].disabled
  PROVE  /\ HasSources(d) <=> HasSources(c)
         /\ PoolProviders(d, new) = PoolProviders(c, files)
<1>1. /\ d \in Configs /\ d.pools = c.pools /\ d.subs[s] = sub
      /\ \A o \in Subs : o # s => d.subs[o] = c.subs[o]
  BY WithSubFacts
<1>2. Enabled(d) = Enabled(c) /\ PoolsOf(d) = PoolsOf(c)
  BY <1>1 DEF Enabled, PoolsOf
<1>3. \A o \in Subs : o # s => (Available(d, o) <=> Available(c, o))
  BY <1>1 DEF Available, Exists
<1>4. sub # None
  BY PoolAssumption
<1>5. ASSUME NEW q \in Enabled(c)
      PROVE  /\ Sources(d, d.pools[q]) = Sources(c, c.pools[q])
             /\ \A o \in Sources(c, c.pools[q]) : new[o] = files[o]
  <2> DEFINE p == c.pools[q]
             Asked == IF p.mode = "merge" THEN ToSet(p.members)
                      ELSE {p.active} \ {None}
  <2>1. q \in PoolsOf(c) /\ p.enabled
    BY DEF Enabled
  <2>2. p \in PoolRecords
    BY <2>1, PoolsAreRecords
  <2>3. ToSet(p.members) \subseteq Subs /\ p.active \in Subs \cup {None}
        /\ p.mode \in {"failover", "merge"}
    BY <2>2, MembersAreSubs DEF PoolRecords
  <2>4. Asked \subseteq Subs
    BY <2>3
  <2>5. /\ Sources(c, p) = {o \in Asked : Available(c, o)}
        /\ Sources(d, p) = {o \in Asked : Available(d, o)}
    BY DEF Sources
  <2>6. CASE ~Affects(d, s)
    <3>1. s \notin Asked
      BY <1>1, <1>2, <2>1, <2>3, <2>6 DEF Affects
    <3> QED
      BY <1>1, <1>3, <2>4, <2>5, <3>1
  <2>7. CASE /\ Exists(c, s) /\ new[s] = files[s]
             /\ sub.digest = c.subs[s].digest /\ sub.disabled = c.subs[s].disabled
    <3>1. Available(d, s) <=> Available(c, s)
      BY <1>1, <1>4, <2>7 DEF Available, Exists
    <3>2. \A o \in Subs : (Available(d, o) <=> Available(c, o)) /\ new[o] = files[o]
      BY <1>3, <2>7, <3>1
    <3> QED
      BY <1>1, <2>4, <2>5, <3>2
  <2> QED
    BY <2>6, <2>7
<1> QED
  BY <1>2, <1>5, SameSupply

(* A failover that finds no other member changes no source. *)
LEMMA FailedOverSupply ==
  ASSUME NEW c \in Configs, Right(c), NEW s \in Subs, NEW d, d = FailedOver(c, s),
         \A q \in PoolsOf(c) : d.pools[q].active = c.pools[q].active, NEW files
  PROVE  /\ HasSources(d) <=> HasSources(c)
         /\ PoolProviders(d, files) = PoolProviders(c, files)
<1>1. /\ d.subs = c.subs /\ PoolsOf(d) = PoolsOf(c)
      /\ \A q \in PoolsOf(c) : /\ d.pools[q].mode = c.pools[q].mode
                               /\ d.pools[q].enabled = c.pools[q].enabled
                               /\ d.pools[q].members = c.pools[q].members
  BY FailedOverIsRight
<1>2. Enabled(d) = Enabled(c)
  BY <1>1 DEF Enabled
<1>3. \A o : Available(d, o) <=> Available(c, o)
  BY <1>1 DEF Available, Exists
<1>4. \A q \in Enabled(c) : Sources(d, d.pools[q]) = Sources(c, c.pools[q])
  BY <1>1, <1>3 DEF Sources, Enabled
<1> QED
  BY <1>2, <1>4, SameSupply

(* RemoveSubscription of one that no enabled pool uses: such a pool has an    *)
(* active member, so it does not end up empty and disabled.                   *)
LEMMA RemovedSupply ==
  ASSUME NEW c \in Configs, Right(c), NEW s \in Subs, ~Affects(c, s),
         NEW d, d = Removed(c, s), NEW files
  PROVE  /\ HasSources(d) <=> HasSources(c)
         /\ PoolProviders(d, files) = PoolProviders(c, files)
<1>1. /\ d \in Configs /\ PoolsOf(d) = PoolsOf(c)
      /\ \A q \in PoolsOf(c) : d.pools[q] = RemovedFrom(c.pools[q], s)
      /\ d.subs = [c.subs EXCEPT ![s] = None]
  BY RemovedIsRight
<1>2. \A o \in Subs : o # s => (Available(d, o) <=> Available(c, o))
  <2>1. \A o \in Subs : o # s => d.subs[o] = c.subs[o]
    BY <1>1 DEF Configs
  <2> QED
    BY <2>1 DEF Available, Exists
<1>3. ASSUME NEW q \in PoolsOf(c)
      PROVE  /\ d.pools[q].enabled <=> c.pools[q].enabled
             /\ c.pools[q].enabled => Sources(d, d.pools[q]) = Sources(c, c.pools[q])
  <2> DEFINE p == c.pools[q]
             new == d.pools[q]
  <2>1. p \in PoolRecords /\ Whole(p)
    BY PoolsAreRecords, RightParts
  <2>2. new = RemovedFrom(p, s)
    BY <1>1
  <2>3. p.enabled => /\ p.mode = "merge" => s \notin ToSet(p.members)
                     /\ p.mode = "failover" => s # p.active
    BY DEF Affects
  <2> HIDE DEF p, new
  <2>4. /\ new \in PoolRecords /\ Whole(new) /\ new.mode = p.mode
        /\ ToSet(new.members) = ToSet(p.members) \ {s}
        /\ new.enabled => p.enabled
        /\ p.enabled /\ new.members # <<>> => new.enabled
        /\ p.active # s => new.active = p.active
    BY <2>1, <2>2, RemovedIsWhole
  <2>5. /\ ToSet(p.members) \subseteq Subs /\ p.active \in Subs \cup {None}
        /\ p.mode \in {"failover", "merge"}
    BY <2>1, MembersAreSubs DEF PoolRecords
  <2>6. (new.enabled <=> p.enabled) /\ (p.enabled => Sources(d, new) = Sources(c, p))
    <3>1. CASE ~p.enabled
      BY <2>4, <3>1
    <3>2. CASE p.enabled
      <4>0. p.active # None /\ p.active \in ToSet(p.members) /\ ToSet(p.members) # {}
        BY <2>1, <3>2, NoMembers DEF Whole, HasActive
      <4>1. CASE p.mode = "merge"
        <5>1. ToSet(new.members) = ToSet(p.members) /\ s \notin ToSet(p.members)
          BY <2>3, <2>4, <3>2, <4>1
        <5>2. new.members # <<>>
          BY <2>4, <4>0, <5>1, NoMembers
        <5>3. \A o \in ToSet(p.members) : Available(d, o) <=> Available(c, o)
          BY <1>2, <2>5, <5>1
        <5> QED
          BY <2>4, <3>2, <4>1, <5>1, <5>2, <5>3 DEF Sources
      <4>2. CASE p.mode = "failover"
        <5>1. new.active = p.active /\ p.active # s
          BY <2>3, <2>4, <3>2, <4>2
        <5>2. new.members # <<>>
          BY <2>4, <4>0, <5>1, NoMembers
        <5>3. Available(d, p.active) <=> Available(c, p.active)
          BY <1>2, <2>5, <4>0, <5>1
        <5> QED
          BY <2>4, <3>2, <4>2, <5>1, <5>2, <5>3 DEF Sources
      <4> QED
        BY <2>5, <4>1, <4>2
    <3> QED
      BY <3>1, <3>2
  <2> QED
    BY <2>6 DEF p, new
<1>4. Enabled(d) = Enabled(c)
  BY <1>1, <1>3 DEF Enabled
<1>5. \A q \in Enabled(c) : Sources(d, d.pools[q]) = Sources(c, c.pools[q])
  BY <1>3 DEF Enabled
<1> QED
  BY <1>4, <1>5, SameSupply

-----------------------------------------------------------------------------
(* The inductive invariant: types; what Validate accepts, with active members;  *)
(* a process in the middle of something knows with which subscription; the   *)
(* records' caches; and what the kernel uses, unless somebody will apply it. *)
ProcRecords == [pc : {"refresh", "commit", "failover", "apply", "import"},
                todo : Seq(Subs), got : 0..MaxContent, kind : {"url", "local"}]

UnderWay(w) ==
  /\ w.pc \in {"commit", "failover", "import"} => w.todo # <<>>
  /\ w.pc = "import" => w.got # 0

ProcsAreRight ==
  /\ procs \in [Procs -> ProcRecords]
  /\ \A p \in Procs : UnderWay(procs[p])

FilesAreTyped ==
  /\ cache \in [Subs -> 0..MaxContent]
  /\ loaded \in [Subs -> Uses]
  /\ remote \in [Subs -> 0..MaxContent]
  /\ used \subseteq Subs

CachesExist ==
  \A s \in Subs : subs[s] # None =>
    s \in used /\ (subs[s].digest # 0 => cache[s] # 0)

PInv ==
  /\ Config \in Configs /\ FilesAreTyped /\ ProcsAreRight
  /\ Right(Config)
  /\ CachesExist
  /\ DigestMatchesCache
  /\ RuntimeFollowsPools

LEMMA ConfigFacts ==
  ASSUME Config \in Configs
  PROVE  /\ subs \in [Subs -> Sub \cup {None}]
         /\ pools \in [Pools -> PoolRecords \cup {None}]
         /\ Config.subs = subs /\ Config.pools = pools
         /\ \A s \in Subs : Exists(Config, s) <=> subs[s] # None
BY DEF Config, Configs, Exists

(* UpdateGlobalConfig leaves the configuration that it was given. *)
LEMMA Published ==
  ASSUME NEW c \in Configs, Publish(c)
  PROVE  Config' = c
BY DEF Publish, Config, Configs

LEMMA GotoFacts ==
  ASSUME ProcsAreRight, NEW p \in Procs, NEW pc \in {"commit", "failover", "apply"},
         procs[p].todo # <<>> \/ pc = "apply", Goto(p, pc)
  PROVE  /\ ProcsAreRight' /\ procs'[p].pc = pc
         /\ \A o \in Procs : o # p => procs'[o] = procs[o]
<1> DEFINE w == procs[p]
           new == [w EXCEPT !.pc = pc]
<1>1. w \in ProcRecords
  BY DEF ProcsAreRight
<1>2. procs' = [procs EXCEPT ![p] = new]
  BY DEF Goto
<1> HIDE DEF w
<1>3. new \in ProcRecords /\ new.pc = pc /\ new.todo = w.todo
  BY <1>1 DEF ProcRecords
<1> HIDE DEF new
<1>4. UnderWay(new)
  BY <1>3 DEF UnderWay, w
<1>5. procs'[p] = new /\ \A o \in Procs : o # p => procs'[o] = procs[o]
  BY <1>2 DEF ProcsAreRight
<1>6. procs' \in [Procs -> ProcRecords]
  BY <1>2, <1>3 DEF ProcsAreRight
<1>7. ASSUME NEW o \in Procs PROVE UnderWay(procs'[o])
  BY <1>4, <1>5 DEF ProcsAreRight
<1> QED
  BY <1>3, <1>5, <1>6, <1>7 DEF ProcsAreRight

LEMMA IdleIsRecord ==
  ASSUME NEW list \in Seq(Subs)
  PROVE  /\ [Idle EXCEPT !.todo = list] \in ProcRecords
         /\ [Idle EXCEPT !.todo = list].pc = "refresh"
<1>1. [Idle EXCEPT !.todo = list] = [pc |-> "refresh", todo |-> list, got |-> 0,
                                     kind |-> "url"]
  BY DEF Idle
<1>2. 0 \in 0..MaxContent
  BY PoolAssumption
<1> QED
  BY <1>1, <1>2 DEF ProcRecords

(* A process gets another list. *)
LEMMA ListFacts ==
  ASSUME ProcsAreRight, NEW p \in Procs, NEW list \in Seq(Subs),
         procs' = [procs EXCEPT ![p] = [Idle EXCEPT !.todo = list]]
  PROVE  /\ ProcsAreRight' /\ procs'[p].pc = "refresh"
         /\ \A o \in Procs : o # p => procs'[o] = procs[o]
<1> DEFINE new == [Idle EXCEPT !.todo = list]
<1>1. new \in ProcRecords /\ new.pc = "refresh"
  BY IdleIsRecord
<1> HIDE DEF new
<1>2. UnderWay(new)
  BY <1>1 DEF UnderWay
<1>3. procs' = [procs EXCEPT ![p] = new]
  BY DEF new
<1>4. procs'[p] = new /\ \A o \in Procs : o # p => procs'[o] = procs[o]
  BY <1>3 DEF ProcsAreRight
<1>5. procs' \in [Procs -> ProcRecords]
  BY <1>1, <1>3 DEF ProcsAreRight
<1>6. ASSUME NEW o \in Procs PROVE UnderWay(procs'[o])
  BY <1>2, <1>4 DEF ProcsAreRight
<1> QED
  BY <1>1, <1>4, <1>5, <1>6 DEF ProcsAreRight

LEMMA DoneFacts ==
  ASSUME ProcsAreRight, NEW p \in Procs, Done(p)
  PROVE  /\ ProcsAreRight' /\ procs'[p].pc = "refresh"
         /\ \A o \in Procs : o # p => procs'[o] = procs[o]
<1> DEFINE todo == procs[p].todo
           list == IF todo = <<>> THEN todo ELSE Tail(todo)
<1>1. todo \in Seq(Subs)
  BY DEF ProcsAreRight, ProcRecords
<1>2. list \in Seq(Subs)
  <2> HIDE DEF todo
  <2> QED
    BY <1>1
<1>3. procs' = [procs EXCEPT ![p] = [Idle EXCEPT !.todo = list]]
  BY DEF Done
<1> HIDE DEF list
<1> QED
  BY <1>2, <1>3, ListFacts

(* The subscription that a process works on. *)
LEMMA HeadIsSub ==
  ASSUME ProcsAreRight, NEW p \in Procs, procs[p].todo # <<>>
  PROVE  Head(procs[p].todo) \in Subs
<1>1. procs[p].todo \in Seq(Subs)
  BY DEF ProcsAreRight, ProcRecords
<1> QED
  BY <1>1, HeadIsThere

LEMMA SpendFacts ==
  ASSUME NEW what, Spend(what)
  PROVE  /\ intact' => intact
         /\ switched => switched'
         /\ what = "faults" => ~intact'
         /\ what = "disables" => switched'
BY DEF Spend

(* Nobody applies anything, and the pools hand the kernel what they did. *)
LEMMA RuntimeKept ==
  ASSUME RuntimeFollowsPools, intact' => intact, switched => switched',
         Settled' => Settled, loaded' = loaded,
         HasSources(Config') <=> HasSources(Config),
         PoolProviders(Config', cache') = PoolProviders(Config, cache)
  PROVE  RuntimeFollowsPools'
BY DEF RuntimeFollowsPools

(* A step that changes the processes' lists and the providers only. *)
LEMMA QuietStep ==
  ASSUME PInv, UNCHANGED <<subs, pools, cache, loaded, used>>, ProcsAreRight',
         remote' \in [Subs -> 0..MaxContent], intact' => intact, switched => switched',
         Settled' => Settled
  PROVE  PInv'
<1>1. Config' = Config
  BY DEF Config
<1>2. (Config \in Configs)' /\ Right(Config)'
  BY <1>1 DEF PInv
<1>3. FilesAreTyped' /\ CachesExist'
  BY DEF PInv, FilesAreTyped, CachesExist
<1>4. DigestMatchesCache'
  BY DEF PInv, DigestMatchesCache
<1>5. RuntimeFollowsPools'
  BY <1>1, RuntimeKept DEF PInv
<1> QED
  BY <1>2, <1>3, <1>4, <1>5 DEF PInv

(* Only p's state of work has changed, and it applies nothing now or then. *)
LEMMA SettledBefore ==
  ASSUME NEW p \in Procs, \A o \in Procs : o # p => procs'[o] = procs[o],
         procs[p].pc # "apply"
  PROVE  Settled' => Settled
BY DEF Settled

(* A commit about one record, with its cache. *)
LEMMA RecordStep ==
  ASSUME PInv, NEW s \in Subs, NEW sub \in Sub, NEW content \in 0..MaxContent,
         Publish(WithSub(Config, s, sub)),
         cache' = [cache EXCEPT ![s] = content],
         sub.digest # 0 => content # 0,
         intact' /\ sub.digest # 0 => content = sub.digest,
         used' = used \cup {s}, UNCHANGED <<loaded, remote>>, ProcsAreRight',
         intact' => intact, switched => switched',
         \/ switched' \/ ~Settled'
         \/ /\ Settled' => Settled
            /\ \/ ~Affects(WithSub(Config, s, sub), s)
               \/ /\ Exists(Config, s) /\ content = cache[s]
                  /\ sub.digest = subs[s].digest /\ sub.disabled = subs[s].disabled
  PROVE  PInv'
<1> DEFINE c == WithSub(Config, s, sub)
<1>0. Config \in Configs /\ Right(Config) /\ FilesAreTyped
  BY DEF PInv
<1>1. /\ c \in Configs /\ c.pools = Config.pools /\ c.subs[s] = sub
      /\ \A o \in Subs : o # s => c.subs[o] = Config.subs[o]
  BY <1>0, WithSubFacts
<1>2. Config' = c
  BY <1>1, Published
<1>3. Right(c)
  BY <1>0, WithSubIsRight
<1>4. /\ subs'[s] = sub /\ \A o \in Subs : o # s => subs'[o] = subs[o]
      /\ cache'[s] = content /\ \A o \in Subs : o # s => cache'[o] = cache[o]
  <2>1. Config.subs = subs
    BY <1>0, ConfigFacts
  <2>2. subs' = c.subs
    BY DEF Publish
  <2> HIDE DEF c
  <2>3. subs'[s] = sub /\ \A o \in Subs : o # s => subs'[o] = subs[o]
    BY <1>1, <2>1, <2>2
  <2>4. cache'[s] = content /\ \A o \in Subs : o # s => cache'[o] = cache[o]
    BY <1>0 DEF FilesAreTyped
  <2> QED
    BY <2>3, <2>4
<1>5. FilesAreTyped'
  BY <1>0 DEF FilesAreTyped
<1>6. CachesExist'
  <2> SUFFICES ASSUME NEW o \in Subs, subs'[o] # None
               PROVE  o \in used' /\ (subs'[o].digest # 0 => cache'[o] # 0)
    BY DEF CachesExist
  <2>1. CASE o = s
    BY <1>4, <2>1
  <2>2. CASE o # s
    BY <1>4, <2>2 DEF PInv, CachesExist
  <2> QED
    BY <2>1, <2>2
<1>7. DigestMatchesCache'
  <2> SUFFICES ASSUME intact', NEW o \in Subs, subs'[o] # None, subs'[o].digest # 0
               PROVE  cache'[o] = subs'[o].digest
    BY DEF DigestMatchesCache
  <2>1. CASE o = s
    BY <1>4, <2>1
  <2>2. CASE o # s
    BY <1>4, <2>2 DEF PInv, DigestMatchesCache
  <2> QED
    BY <2>1, <2>2
<1>8. RuntimeFollowsPools'
  <2>1. CASE switched' \/ ~Settled'
    BY <2>1 DEF RuntimeFollowsPools
  <2>2. CASE /\ Settled' => Settled
             /\ \/ ~Affects(c, s)
                \/ /\ Exists(Config, s) /\ content = cache[s]
                   /\ sub.digest = subs[s].digest /\ sub.disabled = subs[s].disabled
    <3>1. Config.subs = subs
      BY <1>0, ConfigFacts
    <3> HIDE DEF c
    <3>2. c = WithSub(Config, s, sub)
      BY DEF c
    <3>3. /\ HasSources(c) <=> HasSources(Config)
          /\ PoolProviders(c, cache') = PoolProviders(Config, cache)
      <4>1. \A o \in Subs : o # s => cache'[o] = cache[o]
        BY <1>4
      <4>2. \/ ~Affects(c, s)
            \/ /\ Exists(Config, s) /\ cache'[s] = cache[s]
               /\ sub.digest = Config.subs[s].digest
               /\ sub.disabled = Config.subs[s].disabled
        BY <1>4, <2>2, <3>1
      <4> QED
        <5>1. Config \in Configs
          BY <1>0
        <5>2. ASSUME NEW d, d = WithSub(Config, s, sub), NEW new,
                     \A o \in Subs : o # s => new[o] = cache[o],
                     \/ ~Affects(d, s)
                     \/ /\ Exists(Config, s) /\ new[s] = cache[s]
                        /\ sub.digest = Config.subs[s].digest
                        /\ sub.disabled = Config.subs[s].disabled
              PROVE  /\ HasSources(d) <=> HasSources(Config)
                     /\ PoolProviders(d, new) = PoolProviders(Config, cache)
          BY <5>1, <5>2, WithSubSupply
        <5> QED
          BY <3>2, <4>1, <4>2, <5>2
    <3> QED
      BY <1>2, <2>2, <3>3, RuntimeKept DEF PInv
  <2> QED
    BY <2>1, <2>2
<1> QED
  BY <1>1, <1>2, <1>3, <1>5, <1>6, <1>7, <1>8 DEF PInv

(* A commit that cannot be written, after a cache file perhaps was. *)
LEMMA UnwrittenStep ==
  ASSUME PInv, NEW p \in Procs, Unwritten(p), NEW s \in Subs,
         NEW content \in 1..MaxContent,
         cache' = cache \/ cache' = [cache EXCEPT ![s] = content],
         used \subseteq used', used' \subseteq Subs, UNCHANGED <<loaded, remote>>
  PROVE  PInv'
<1>1. ~intact' /\ UNCHANGED <<subs, pools>> /\ ProcsAreRight'
  BY SpendFacts, DoneFacts DEF Unwritten, PInv
<1>2. Config' = Config
  BY <1>1 DEF Config
<1>3. (Config \in Configs)' /\ Right(Config)'
  BY <1>2 DEF PInv
<1>4. content # 0 /\ content \in 0..MaxContent
  OBVIOUS
<1>5. \A o \in Subs : cache'[o] = cache[o] \/ cache'[o] = content
  BY DEF PInv, FilesAreTyped
<1>6. FilesAreTyped'
  BY <1>4 DEF PInv, FilesAreTyped
<1>7. CachesExist'
  BY <1>1, <1>4, <1>5 DEF PInv, CachesExist
<1>8. DigestMatchesCache' /\ RuntimeFollowsPools'
  BY <1>1 DEF DigestMatchesCache, RuntimeFollowsPools
<1> QED
  BY <1>1, <1>3, <1>6, <1>7, <1>8 DEF PInv

(* A commit that changes pools or removes records. *)
LEMMA PoolStep ==
  ASSUME PInv, NEW c \in Configs, Right(c), Publish(c),
         \A s \in Subs : c.subs[s] \in {None, subs[s]},
         UNCHANGED <<cache, loaded, remote, used>>, ProcsAreRight',
         intact' => intact, switched => switched',
         \/ ~Settled'
         \/ /\ Settled' => Settled
            /\ HasSources(c) <=> HasSources(Config)
            /\ PoolProviders(c, cache) = PoolProviders(Config, cache)
  PROVE  PInv'
<1>1. Config' = c
  BY Published
<1>2. subs' = c.subs
  BY DEF Publish
<1>3. \A s \in Subs : subs'[s] # None => subs'[s] = subs[s]
  BY <1>2
<1>4. FilesAreTyped' /\ CachesExist'
  BY <1>3 DEF PInv, FilesAreTyped, CachesExist
<1>5. DigestMatchesCache'
  BY <1>3 DEF PInv, DigestMatchesCache
<1>6. RuntimeFollowsPools'
  <2>1. CASE ~Settled'
    BY <2>1 DEF RuntimeFollowsPools
  <2>2. CASE /\ Settled' => Settled
             /\ HasSources(c) <=> HasSources(Config)
             /\ PoolProviders(c, cache) = PoolProviders(Config, cache)
    BY <1>1, <2>2, RuntimeKept DEF PInv
  <2> QED
    BY <2>1, <2>2
<1> QED
  BY <1>1, <1>4, <1>5, <1>6 DEF PInv

-----------------------------------------------------------------------------
(* The invariant at the start. *)
LEMMA InitInv ==
  Init => PInv
<1> SUFFICES ASSUME Init PROVE PInv
  OBVIOUS
<1> DEFINE made == [kind |-> "url", digest |-> 1, failures |-> 0, disabled |-> FALSE]
<1>1. 1 \in 0..MaxContent /\ 0 \in 0..MaxContent /\ 0 \in 0..Threshold /\ 1 \in 1..MaxContent
  BY PoolAssumption
<1>2. made \in Sub /\ made # None /\ made.digest = 1
  <2>1. made \in Sub
    BY <1>1 DEF Sub
  <2> QED
    BY <2>1, PoolAssumption
<1> HIDE DEF made
<1>3. PICK case \in Cases : pools = case.pools
  BY DEF Init
<1>4. /\ pools \in [Pools -> PoolRecords \cup {None}]
      /\ \A q \in Pools : pools[q] # None => HasActive(pools[q])
  BY <1>3, PoolAssumption DEF HasActive
<1>5. subs = [s \in Subs |-> IF s \in Known THEN made ELSE None]
  BY DEF Init, made
<1>6. subs \in [Subs -> Sub \cup {None}]
  BY <1>2, <1>5
<1>7. Config \in Configs /\ Config.pools = pools /\ Config.subs = subs
  BY <1>4, <1>6 DEF Config, Configs
<1>8. Right(Config)
  BY <1>4, <1>7 DEF Init, Right, PoolsOf
<1>9. Known \subseteq Subs
  <2> SUFFICES ASSUME NEW q \in Pools, pools[q] # None
               PROVE  ToSet(pools[q].members) \subseteq Subs
    BY DEF Known
  <2>1. pools[q] \in PoolRecords
    BY <1>4
  <2> QED
    BY <2>1, MembersAreSubs
<1>10. cache = [s \in Subs |-> IF s \in Known THEN 1 ELSE 0]
  BY DEF Init
<1>11. FilesAreTyped
  <2>1. cache \in [Subs -> 0..MaxContent] /\ remote \in [Subs -> 0..MaxContent]
    BY <1>1, <1>10 DEF Init
  <2>2. loaded \in [Subs -> Uses]
    <3>1. \A s \in Subs : cache[s] \in Uses \/ s \notin Known
      BY <1>1, <1>10 DEF Uses
    <3>2. ASSUME NEW s \in Subs, NEW q \in Enabled(Config),
                 s \in Sources(Config, Config.pools[q])
          PROVE  s \in Known
      <4>1. Available(Config, s)
        BY <3>2 DEF Sources
      <4> QED
        BY <1>5, <1>7, <4>1 DEF Available, Exists
    <3>3. \A s \in Subs : PoolProviders(Config, cache)[s] \in Uses
      BY <3>1, <3>2 DEF PoolProviders, Uses, Unused
    <3>4. PoolProviders(Config, cache) \in [Subs -> Uses]
      BY <3>3 DEF PoolProviders
    <3>5. [s \in Subs |-> Unused] \in [Subs -> Uses]
      BY DEF Uses
    <3> QED
      BY <3>4, <3>5 DEF Init
  <2> QED
    BY <1>9, <2>1, <2>2 DEF Init, FilesAreTyped
<1>12. ProcsAreRight
  <2>1. Idle = [Idle EXCEPT !.todo = <<>>]
    BY DEF Idle
  <2>2. Idle \in ProcRecords /\ Idle.pc = "refresh"
    <3>1. <<>> \in Seq(Subs)
      OBVIOUS
    <3> QED
      BY <2>1, <3>1, IdleIsRecord
  <2>3. \A p \in Procs : procs[p] = Idle
    BY DEF Init
  <2> QED
    BY <2>2, <2>3 DEF Init, ProcsAreRight, UnderWay
<1>13. CachesExist /\ DigestMatchesCache
  BY <1>2, <1>5, <1>10 DEF Init, CachesExist, DigestMatchesCache
<1>14. RuntimeFollowsPools
  BY DEF Init, RuntimeFollowsPools
<1> QED
  BY <1>7, <1>8, <1>11, <1>12, <1>13, <1>14 DEF PInv
-----------------------------------------------------------------------------
(* The invariant in every step. *)

LEMMA FetchStep ==
  ASSUME PInv, NEW p \in Procs, Fetch(p)
  PROVE  PInv'
<1>1. ProcsAreRight /\ FilesAreTyped /\ Config \in Configs
  BY DEF PInv
<1> DEFINE s == Head(procs[p].todo)
<1>2. /\ procs[p].pc = "refresh" /\ procs[p].todo # <<>>
      /\ UNCHANGED <<subs, pools, cache, loaded, remote, used, intact, switched>>
  BY DEF Fetch, counters
<1>3. s \in Subs
  BY <1>1, <1>2, HeadIsSub
<1>4. ProcsAreRight' /\ \A o \in Procs : o # p => procs'[o] = procs[o]
  <2>1. CASE ~Refreshable(s)
    <3>1. Done(p)
      BY <2>1 DEF Fetch
    <3> QED
      BY <1>1, <3>1, DoneFacts
  <2>2. CASE Refreshable(s)
    <3> DEFINE w == procs[p]
               got == Fetched(s)
               new == [w EXCEPT !.pc = "commit", !.got = got]
    <3>1. procs' = [procs EXCEPT ![p] = new]
      BY <2>2 DEF Fetch
    <3>2. w \in ProcRecords /\ w.todo # <<>>
      BY <1>1, <1>2 DEF ProcsAreRight
    <3>3. got \in 0..MaxContent
      BY <1>1, <1>3, PoolAssumption DEF Fetched, FilesAreTyped
    <3> HIDE DEF w, got
    <3>4. new \in ProcRecords
      BY <3>2, <3>3 DEF ProcRecords
    <3>5. new.pc = "commit"
      BY <3>2 DEF ProcRecords
    <3>6. new.todo = w.todo
      BY <3>2 DEF ProcRecords
    <3> HIDE DEF new
    <3>7. UnderWay(new)
      BY <3>2, <3>5, <3>6 DEF UnderWay
    <3>8. procs'[p] = new /\ \A o \in Procs : o # p => procs'[o] = procs[o]
      BY <1>1, <3>1 DEF ProcsAreRight
    <3>9. procs' \in [Procs -> ProcRecords]
      BY <1>1, <3>1, <3>4 DEF ProcsAreRight
    <3>10. ASSUME NEW o \in Procs PROVE UnderWay(procs'[o])
      BY <1>1, <3>7, <3>8 DEF ProcsAreRight
    <3> QED
      BY <3>8, <3>9, <3>10 DEF ProcsAreRight
  <2> QED
    BY <2>1, <2>2
<1>5. Settled' => Settled
  BY <1>2, <1>4, SettledBefore
<1>6. remote' \in [Subs -> 0..MaxContent]
  BY <1>1, <1>2 DEF FilesAreTyped
<1> QED
  BY <1>2, <1>4, <1>5, <1>6, QuietStep

LEMMA CommitContentStep ==
  ASSUME PInv, NEW p \in Procs, CommitContent(p)
  PROVE  PInv'
<1>1. ProcsAreRight /\ FilesAreTyped /\ Config \in Configs /\ CachesExist
  BY DEF PInv
<1> DEFINE s == Head(procs[p].todo)
           got == procs[p].got
<1>2. procs[p].pc = "commit" /\ procs[p].todo # <<>>
  BY <1>1 DEF CommitContent, ProcsAreRight, UnderWay
<1>3. s \in Subs
  BY <1>1, <1>2, HeadIsSub
<1>4. got \in 0..MaxContent /\ got # 0
  BY <1>1 DEF CommitContent, ProcsAreRight, ProcRecords
<1>5. got \in 1..MaxContent
  BY <1>4
<1>6. /\ Exists(Config, s) /\ cache' = [cache EXCEPT ![s] = got]
      /\ UNCHANGED <<loaded, remote, used>>
  BY DEF CommitContent, WriteCache
<1>7. s \in used
  BY <1>1, <1>3, <1>6 DEF Exists, CachesExist, Config
<1>8. PICK sub \in Sub : /\ Refreshed(Config, s, got) = WithSub(Config, s, sub)
                         /\ sub.digest = got
  BY <1>1, <1>3, <1>4, <1>6, RefreshedFacts
<1> DEFINE c == WithSub(Config, s, sub)
<1>9. \/ /\ Publish(c)
         /\ IF Affects(c, s) THEN Goto(p, "apply") ELSE Done(p)
         /\ UNCHANGED counters
      \/ Unwritten(p)
  BY <1>8 DEF CommitContent
<1> HIDE DEF c, s, got
<1>10. CASE Unwritten(p)
  <2>1. used \subseteq used' /\ used' \subseteq Subs
    BY <1>1, <1>6 DEF FilesAreTyped
  <2> QED
    BY <1>3, <1>5, <1>6, <1>10, <2>1, UnwrittenStep
<1>11. CASE /\ Publish(c)
            /\ IF Affects(c, s) THEN Goto(p, "apply") ELSE Done(p)
            /\ UNCHANGED counters
  <2>1. /\ ProcsAreRight' /\ \A o \in Procs : o # p => procs'[o] = procs[o]
        /\ Affects(c, s) => procs'[p].pc = "apply"
    BY <1>1, <1>11, GotoFacts, DoneFacts
  <2>2. ~Settled' \/ ((Settled' => Settled) /\ ~Affects(c, s))
    <3>1. Settled' => Settled
      BY <1>2, <2>1, SettledBefore
    <3>2. Affects(c, s) => ~Settled'
      BY <2>1 DEF Settled
    <3> QED
      BY <3>1, <3>2
  <2>3. intact' = intact /\ switched' = switched
    BY <1>11 DEF counters
  <2>4. Publish(WithSub(Config, s, sub)) /\ c = WithSub(Config, s, sub)
    BY <1>11 DEF c
  <2>5. used' = used \cup {s}
    BY <1>6, <1>7
  <2> QED
    BY <1>3, <1>4, <1>6, <1>8, <2>1, <2>2, <2>3, <2>4, <2>5, RecordStep
<1> QED
  BY <1>9, <1>10, <1>11

LEMMA CommitFailureStep ==
  ASSUME PInv, NEW p \in Procs, CommitFailure(p)
  PROVE  PInv'
<1>1. ProcsAreRight /\ FilesAreTyped /\ Config \in Configs /\ CachesExist
  BY DEF PInv
<1> DEFINE s == Head(procs[p].todo)
<1>2. procs[p].pc = "commit" /\ procs[p].todo # <<>>
  BY <1>1 DEF CommitFailure, ProcsAreRight, UnderWay
<1>3. s \in Subs
  BY <1>1, <1>2, HeadIsSub
<1>4. Exists(Config, s) /\ UNCHANGED <<cache, loaded, remote, used>>
  BY DEF CommitFailure
<1>5. Config.subs = subs /\ subs[s] # None
  BY <1>1, <1>3, <1>4, ConfigFacts
<1>6. s \in used /\ cache[s] \in 0..MaxContent /\ (subs[s].digest # 0 => cache[s] # 0)
  BY <1>1, <1>3, <1>5 DEF CachesExist, FilesAreTyped
<1>7. PICK sub \in Sub : /\ Failed(Config, s) = WithSub(Config, s, sub)
                         /\ sub.digest = subs[s].digest
                         /\ sub.disabled = subs[s].disabled
  BY <1>1, <1>3, <1>4, <1>5, FailedFacts
<1> DEFINE c == WithSub(Config, s, sub)
<1>8. \/ Publish(c) /\ Goto(p, "failover") /\ UNCHANGED counters
      \/ Unwritten(p)
  BY <1>7 DEF CommitFailure
<1> HIDE DEF c, s
<1>9. CASE Unwritten(p)
  <2>1. used \subseteq used' /\ used' \subseteq Subs
    BY <1>1, <1>4 DEF FilesAreTyped
  <2>2. 1 \in 1..MaxContent
    BY PoolAssumption
  <2> QED
    BY <1>3, <1>4, <1>9, <2>1, <2>2, UnwrittenStep
<1>10. CASE Publish(c) /\ Goto(p, "failover") /\ UNCHANGED counters
  <2>1. /\ ProcsAreRight' /\ \A o \in Procs : o # p => procs'[o] = procs[o]
    BY <1>1, <1>2, <1>10, GotoFacts
  <2>2. Settled' => Settled
    BY <1>2, <2>1, SettledBefore
  <2>3. intact' = intact /\ switched' = switched
    BY <1>10 DEF counters
  <2>4. Publish(WithSub(Config, s, sub))
    BY <1>10 DEF c
  <2>5. used' = used \cup {s}
    BY <1>4, <1>6
  <2> DEFINE content == cache[s]
  <2>6. cache' = [cache EXCEPT ![s] = content]
    BY <1>1, <1>4 DEF FilesAreTyped
  <2>7. content \in 0..MaxContent /\ (sub.digest # 0 => content # 0)
    BY <1>6, <1>7
  <2>8. intact' /\ sub.digest # 0 => content = sub.digest
    BY <1>3, <1>5, <1>7, <2>3 DEF PInv, DigestMatchesCache
  <2>9. /\ Exists(Config, s) /\ content = cache[s]
        /\ sub.digest = subs[s].digest /\ sub.disabled = subs[s].disabled
    BY <1>4, <1>7
  <2> HIDE DEF content
  <2> QED
    BY <1>3, <1>4, <2>1, <2>2, <2>3, <2>4, <2>5, <2>6, <2>7, <2>8, <2>9, RecordStep
<1> QED
  BY <1>8, <1>9, <1>10

LEMMA CommitNothingStep ==
  ASSUME PInv, NEW p \in Procs, CommitNothing(p)
  PROVE  PInv'
<1>1. ProcsAreRight /\ FilesAreTyped
  BY DEF PInv
<1>2. /\ procs[p].pc = "commit" /\ Done(p)
      /\ UNCHANGED <<subs, pools, cache, loaded, remote, used, intact, switched>>
  BY DEF CommitNothing, counters
<1>3. ProcsAreRight' /\ \A o \in Procs : o # p => procs'[o] = procs[o]
  BY <1>1, <1>2, DoneFacts
<1>4. Settled' => Settled
  BY <1>2, <1>3, SettledBefore
<1>5. remote' \in [Subs -> 0..MaxContent]
  BY <1>1, <1>2 DEF FilesAreTyped
<1> QED
  BY <1>2, <1>3, <1>4, <1>5, QuietStep

LEMMA FailoverStep ==
  ASSUME PInv, NEW p \in Procs, Failover(p)
  PROVE  PInv'
<1>1. ProcsAreRight /\ FilesAreTyped /\ Config \in Configs /\ Right(Config)
  BY DEF PInv
<1> DEFINE s == Head(procs[p].todo)
           c == FailedOver(Config, s)
           Moved == \E q \in PoolsOf(c) : c.pools[q].active # pools[q].active
<1>2. procs[p].pc = "failover" /\ procs[p].todo # <<>>
  BY <1>1 DEF Failover, ProcsAreRight, UnderWay
<1>3. s \in Subs
  BY <1>1, <1>2, HeadIsSub
<1>4. \/ /\ Publish(c)
         /\ IF Moved THEN Goto(p, "apply") ELSE Done(p)
         /\ UNCHANGED counters
      \/ Unwritten(p)
  BY DEF Failover
<1>5. UNCHANGED <<cache, loaded, remote, used>>
  BY DEF Failover
<1>6. c \in Configs /\ Right(c) /\ c.subs = Config.subs /\ PoolsOf(c) = PoolsOf(Config)
  BY <1>1, <1>3, FailedOverIsRight
<1>7. Config.subs = subs /\ Config.pools = pools
  BY <1>1, ConfigFacts
<1>8. ~Moved => /\ HasSources(c) <=> HasSources(Config)
                /\ PoolProviders(c, cache) = PoolProviders(Config, cache)
  <2> SUFFICES ASSUME ~Moved
               PROVE  /\ HasSources(c) <=> HasSources(Config)
                      /\ PoolProviders(c, cache) = PoolProviders(Config, cache)
    OBVIOUS
  <2>1. \A q \in PoolsOf(Config) : c.pools[q].active = Config.pools[q].active
    BY <1>6, <1>7
  <2>2. c = FailedOver(Config, s)
    OBVIOUS
  <2> HIDE DEF c, s
  <2> QED
    BY <1>1, <1>3, <2>1, <2>2, FailedOverSupply
<1> HIDE DEF c, s, Moved
<1>9. CASE Unwritten(p)
  <2>1. used \subseteq used' /\ used' \subseteq Subs
    BY <1>1, <1>5 DEF FilesAreTyped
  <2>2. 1 \in 1..MaxContent
    BY PoolAssumption
  <2> QED
    BY <1>3, <1>5, <1>9, <2>1, <2>2, UnwrittenStep
<1>10. CASE /\ Publish(c)
            /\ IF Moved THEN Goto(p, "apply") ELSE Done(p)
            /\ UNCHANGED counters
  <2>1. /\ ProcsAreRight' /\ \A o \in Procs : o # p => procs'[o] = procs[o]
        /\ Moved => procs'[p].pc = "apply"
    BY <1>1, <1>10, GotoFacts, DoneFacts
  <2>2. Settled' => Settled
    BY <1>2, <2>1, SettledBefore
  <2>3. Moved => ~Settled'
    BY <2>1 DEF Settled
  <2>4. intact' = intact /\ switched' = switched
    BY <1>10 DEF counters
  <2>5. \A o \in Subs : c.subs[o] \in {None, subs[o]}
    BY <1>6, <1>7
  <2> QED
    BY <1>5, <1>6, <1>8, <1>10, <2>1, <2>2, <2>3, <2>4, <2>5, PoolStep
<1> QED
  BY <1>4, <1>9, <1>10

LEMMA ApplyStep ==
  ASSUME PInv, NEW p \in Procs, Apply(p)
  PROVE  PInv'
<1>1. ProcsAreRight /\ FilesAreTyped /\ Config \in Configs /\ CachesExist
  BY DEF PInv
<1>2. /\ Done(p)
      /\ UNCHANGED <<subs, pools, cache, remote, used, intact, switched>>
      /\ loaded' = IF Providers(Config, cache) = None THEN loaded
                   ELSE Providers(Config, cache)
  BY DEF Apply, counters
<1>3. Config' = Config
  BY <1>2 DEF Config
<1>4. ProcsAreRight'
  BY <1>1, <1>2, DoneFacts
<1>5. PoolProviders(Config, cache) \in [Subs -> Uses]
  <2>1. ASSUME NEW s \in Subs, NEW q \in Enabled(Config),
               s \in Sources(Config, Config.pools[q])
        PROVE  cache[s] \in 1..MaxContent
    <3>1. Available(Config, s)
      BY <2>1 DEF Sources
    <3>2. Config.subs = subs
      BY <1>1, ConfigFacts
    <3>3. subs[s] # None /\ subs[s].digest # 0
      BY <3>1, <3>2 DEF Available, Exists
    <3>4. cache[s] # 0 /\ cache[s] \in 0..MaxContent
      BY <1>1, <3>3 DEF CachesExist, FilesAreTyped
    <3> QED
      BY <3>4
  <2>2. \A s \in Subs : PoolProviders(Config, cache)[s] \in Uses
    BY <2>1 DEF PoolProviders, Uses, Unused
  <2> QED
    BY <2>2 DEF PoolProviders
<1>6. PoolProviders(Config, cache) # None
  BY <1>5, PoolAssumption
<1>7. HasSources(Config) => loaded' = PoolProviders(Config, cache)
  BY <1>2, <1>6 DEF Providers
<1>8. loaded' \in [Subs -> Uses]
  <2>1. [s \in Subs |-> IF s \in Legacy(Config) THEN FromUrl ELSE Unused] \in [Subs -> Uses]
    BY DEF Uses
  <2> QED
    BY <1>1, <1>2, <1>5, <2>1 DEF Providers, FilesAreTyped
<1>9. FilesAreTyped' /\ CachesExist' /\ DigestMatchesCache'
  BY <1>2, <1>8 DEF PInv, FilesAreTyped, CachesExist, DigestMatchesCache
<1>10. RuntimeFollowsPools'
  BY <1>2, <1>3, <1>7 DEF RuntimeFollowsPools
<1> QED
  BY <1>3, <1>4, <1>9, <1>10 DEF PInv

LEMMA BeginRefreshStep ==
  ASSUME PInv, NEW p \in Procs, NEW list \in Seq(Subs), BeginRefresh(p, list)
  PROVE  PInv'
<1>1. ProcsAreRight /\ FilesAreTyped
  BY DEF PInv
<1>2. /\ procs[p].pc = "refresh"
      /\ procs' = [procs EXCEPT ![p] = [Idle EXCEPT !.todo = list]]
      /\ UNCHANGED <<subs, pools, cache, loaded, remote, used, intact, switched>>
  BY DEF BeginRefresh, Free, counters
<1>3. ProcsAreRight' /\ \A o \in Procs : o # p => procs'[o] = procs[o]
  BY <1>1, <1>2, ListFacts
<1>4. Settled' => Settled
  BY <1>2, <1>3, SettledBefore
<1>5. remote' \in [Subs -> 0..MaxContent]
  BY <1>1, <1>2 DEF FilesAreTyped
<1> QED
  BY <1>2, <1>3, <1>4, <1>5, QuietStep

LEMMA RefreshSteps ==
  ASSUME PInv, NEW p \in Procs,
         \/ \E s \in Subs : RefreshOne(p, s)
         \/ \E q \in Pools : RefreshPool(p, q)
  PROVE  PInv'
<1>1. CASE \E s \in Subs : RefreshOne(p, s)
  <2>1. PICK s \in Subs : BeginRefresh(p, <<s>>)
    BY <1>1 DEF RefreshOne
  <2>2. <<s>> \in Seq(Subs)
    OBVIOUS
  <2> QED
    BY <2>1, <2>2, BeginRefreshStep
<1>2. CASE \E q \in Pools : RefreshPool(p, q)
  <2>1. PICK q \in Pools : q \in PoolsOf(Config) /\ BeginRefresh(p, pools[q].members)
    BY <1>2 DEF RefreshPool
  <2>2. Config.pools[q] \in PoolRecords /\ Config.pools = pools
    BY <2>1, ConfigFacts, PoolsAreRecords DEF PInv
  <2>3. pools[q].members \in Seq(Subs)
    BY <2>2 DEF PoolRecords
  <2> QED
    BY <2>1, <2>3, BeginRefreshStep
<1> QED
  BY <1>1, <1>2

LEMMA TickStep ==
  ASSUME PInv, NEW due \in SUBSET Due, Tick(due)
  PROVE  PInv'
<1>1. Due \subseteq Subs
  <2> SUFFICES ASSUME NEW q \in Enabled(Config)
               PROVE  ToSet(pools[q].members) \subseteq Subs
    BY DEF Due
  <2>1. Config.pools = pools /\ q \in PoolsOf(Config) /\ Config.pools[q] \in PoolRecords
    BY ConfigFacts, PoolsAreRecords DEF PInv, Enabled
  <2> QED
    BY <2>1, MembersAreSubs
<1>2. Cardinality(due) \in Nat
  BY <1>1, FS_Subset, FS_CardinalityType, PoolAssumption
<1>3. PICK list \in SetToSeqs(due) : BeginRefresh(Scheduler, list)
  BY DEF Tick
<1>4. list \in [1..Cardinality(due) -> due]
  BY DEF SetToSeqs
<1>5. list \in Seq(due)
  BY <1>2, <1>4
<1>6. list \in Seq(Subs)
  BY <1>1, <1>5
<1>7. Scheduler \in Procs
  BY DEF Procs
<1> QED
  BY <1>3, <1>6, <1>7, BeginRefreshStep

LEMMA BeginImportStep ==
  ASSUME PInv, NEW p \in Procs, NEW s \in Subs, NEW kind \in {"url", "local"},
         BeginImport(p, s, kind)
  PROVE  PInv'
<1>1. ProcsAreRight /\ FilesAreTyped
  BY DEF PInv
<1>2. PICK content \in IF kind = "url" THEN {remote[s]} \ {0} ELSE 1..MaxContent :
        procs' = [procs EXCEPT ![p] = [pc |-> "import", todo |-> <<s>>,
                                       got |-> content, kind |-> kind]]
  BY DEF BeginImport
<1> DEFINE new == [pc |-> "import", todo |-> <<s>>, got |-> content, kind |-> kind]
<1>3. content \in 0..MaxContent /\ content # 0
  <2>1. remote[s] \in 0..MaxContent
    BY <1>1 DEF FilesAreTyped
  <2>2. \A n \in 1..MaxContent : n \in 0..MaxContent /\ n # 0
    BY PoolAssumption
  <2> QED
    BY <1>2, <2>1, <2>2
<1>4. new \in ProcRecords
  BY <1>3 DEF ProcRecords
<1>5. UnderWay(new)
  BY <1>3 DEF UnderWay
<1>6. procs' = [procs EXCEPT ![p] = new]
  BY <1>2
<1> HIDE DEF new
<1>7. procs'[p] = new /\ \A o \in Procs : o # p => procs'[o] = procs[o]
  BY <1>1, <1>6 DEF ProcsAreRight
<1>8. ProcsAreRight'
  <2>1. procs' \in [Procs -> ProcRecords]
    BY <1>1, <1>4, <1>6 DEF ProcsAreRight
  <2>2. ASSUME NEW o \in Procs PROVE UnderWay(procs'[o])
    BY <1>1, <1>5, <1>7 DEF ProcsAreRight
  <2> QED
    BY <2>1, <2>2 DEF ProcsAreRight
<1>9. /\ procs[p].pc = "refresh" /\ Spend("edits")
      /\ UNCHANGED <<subs, pools, cache, loaded, remote, used>>
  BY DEF BeginImport, Free
<1>10. Settled' => Settled
  BY <1>7, <1>9, SettledBefore
<1>11. (intact' => intact) /\ (switched => switched')
  BY <1>9, SpendFacts
<1>12. remote' \in [Subs -> 0..MaxContent]
  BY <1>1, <1>9 DEF FilesAreTyped
<1> QED
  BY <1>8, <1>9, <1>10, <1>11, <1>12, QuietStep

(* A subscription without a record is in no pool. *)
LEMMA NewIsUnused ==
  ASSUME NEW c \in Configs, Right(c), NEW s \in Subs, ~Exists(c, s), NEW sub \in Sub,
         NEW d, d = WithSub(c, s, sub)
  PROVE  ~Affects(d, s)
<1>1. d.pools = c.pools
  BY WithSubFacts
<1>2. PoolsOf(d) = PoolsOf(c)
  BY <1>1 DEF PoolsOf
<1>3. \A q \in PoolsOf(c) : s \notin ToSet(c.pools[q].members)
  BY RightParts
<1>4. \A q \in PoolsOf(c) : s # c.pools[q].active
  <2>1. s # None
    BY PoolAssumption
  <2> QED
    BY <1>3, <2>1, RightParts DEF Whole
<1> QED
  BY <1>1, <1>2, <1>3, <1>4 DEF Affects

LEMMA CommitImportStep ==
  ASSUME PInv, NEW p \in Procs, CommitImport(p)
  PROVE  PInv'
<1>1. ProcsAreRight /\ FilesAreTyped /\ Config \in Configs /\ CachesExist
  BY DEF PInv
<1> DEFINE got == procs[p].got
           kind == procs[p].kind
           Sub1 == [kind |-> kind, digest |-> got, failures |-> 0, disabled |-> FALSE]
<1>2. procs[p].pc = "import" /\ procs[p].todo # <<>> /\ got # 0
  BY <1>1 DEF CommitImport, ProcsAreRight, UnderWay
<1>3. got \in 0..MaxContent /\ kind \in {"url", "local"}
  BY <1>1 DEF ProcsAreRight, ProcRecords
<1>4. Head(procs[p].todo) \in Subs
  BY <1>1, <1>2, HeadIsSub
<1>5. PICK s \in ImportIds(Head(procs[p].todo)) :
        /\ WriteCache(s, got)
        /\ used' = used \cup {s}
        /\ \/ /\ Publish(Imported(Config, s, kind, got))
              /\ IF Affects(Imported(Config, s, kind, got), s)
                   THEN Goto(p, "apply") ELSE Done(p)
              /\ UNCHANGED counters
           \/ Unwritten(p)
  BY DEF CommitImport
<1>6. s \in Subs
  BY <1>4, <1>5 DEF ImportIds
<1>7. Sub1 \in Sub
  <2>1. 0 \in 0..Threshold
    BY PoolAssumption
  <2> QED
    BY <1>3, <2>1 DEF Sub
<1> DEFINE c == Imported(Config, s, kind, got)
<1>8. c = WithSub(Config, s, Sub1) /\ Sub1.digest = got
  BY DEF Imported
<1>9. cache' = [cache EXCEPT ![s] = got] /\ UNCHANGED <<loaded, remote>>
  BY <1>5 DEF WriteCache, CommitImport
<1>10. got \in 1..MaxContent
  BY <1>2, <1>3
<1>11. \/ /\ Publish(c)
          /\ IF Affects(c, s) THEN Goto(p, "apply") ELSE Done(p)
          /\ UNCHANGED counters
       \/ Unwritten(p)
  BY <1>5
<1> HIDE DEF c, got, Sub1
<1>12. CASE Unwritten(p)
  <2>1. used \subseteq used' /\ used' \subseteq Subs
    BY <1>1, <1>5, <1>6 DEF FilesAreTyped
  <2> QED
    BY <1>6, <1>9, <1>10, <1>12, <2>1, UnwrittenStep
<1>13. CASE /\ Publish(c)
            /\ IF Affects(c, s) THEN Goto(p, "apply") ELSE Done(p)
            /\ UNCHANGED counters
  <2>1. /\ ProcsAreRight' /\ \A o \in Procs : o # p => procs'[o] = procs[o]
        /\ Affects(c, s) => procs'[p].pc = "apply"
    BY <1>1, <1>13, GotoFacts, DoneFacts
  <2>2. ~Settled' \/ ((Settled' => Settled) /\ ~Affects(c, s))
    <3>1. Settled' => Settled
      BY <1>2, <2>1, SettledBefore
    <3>2. Affects(c, s) => ~Settled'
      BY <2>1 DEF Settled
    <3> QED
      BY <3>1, <3>2
  <2>3. intact' = intact /\ switched' = switched
    BY <1>13 DEF counters
  <2>4. Publish(WithSub(Config, s, Sub1))
    BY <1>8, <1>13
  <2>5. used' = used \cup {s}
    BY <1>5
  <2> QED
    BY <1>2, <1>3, <1>6, <1>7, <1>8, <1>9, <2>1, <2>2, <2>3, <2>4, <2>5, RecordStep
<1> QED
  BY <1>11, <1>12, <1>13

LEMMA DropImportStep ==
  ASSUME PInv, NEW p \in Procs, DropImport(p)
  PROVE  PInv'
<1>1. ProcsAreRight /\ FilesAreTyped
  BY DEF PInv
<1>2. /\ procs[p].pc = "import" /\ Done(p)
      /\ UNCHANGED <<subs, pools, cache, loaded, remote, used, intact, switched>>
  BY DEF DropImport, counters
<1>3. ProcsAreRight' /\ \A o \in Procs : o # p => procs'[o] = procs[o]
  BY <1>1, <1>2, DoneFacts
<1>4. Settled' => Settled
  BY <1>2, <1>3, SettledBefore
<1>5. remote' \in [Subs -> 0..MaxContent]
  BY <1>1, <1>2 DEF FilesAreTyped
<1> QED
  BY <1>2, <1>3, <1>4, <1>5, QuietStep

(* What all edits have in common. *)
LEMMA EditFacts ==
  ASSUME PInv, NEW p \in Procs, NEW c, NEW applies \in BOOLEAN, Edit(p, c, applies)
  PROVE  /\ Valid(c) /\ Publish(c) /\ UNCHANGED <<cache, loaded, remote>>
         /\ ProcsAreRight'
         /\ Settled' => Settled
         /\ applies => ~Settled'
         /\ intact' => intact
         /\ switched => switched'
<1>1. ProcsAreRight
  BY DEF PInv
<1>2. /\ procs[p].pc = "refresh" /\ Spend("edits")
      /\ IF applies THEN Goto(p, "apply") ELSE UNCHANGED procs
      /\ Valid(c) /\ Publish(c) /\ UNCHANGED <<cache, loaded, remote>>
  BY DEF Edit, Free
<1>3. (intact' => intact) /\ (switched => switched')
  BY <1>2, SpendFacts
<1>4. CASE applies
  <2>1. /\ ProcsAreRight' /\ procs'[p].pc = "apply"
    BY <1>1, <1>2, <1>4, GotoFacts
  <2>2. ~Settled'
    BY <2>1 DEF Settled
  <2> QED
    BY <1>2, <1>3, <2>1, <2>2
<1>5. CASE ~applies
  <2>1. ProcsAreRight' /\ (Settled' => Settled)
    BY <1>1, <1>2, <1>5 DEF ProcsAreRight, Settled
  <2> QED
    BY <1>2, <1>3, <1>5, <2>1
<1> QED
  BY <1>4, <1>5

LEMMA CreateManualStep ==
  ASSUME PInv, NEW p \in Procs, CreateManual(p)
  PROVE  PInv'
<1>1. Right(Config) /\ FilesAreTyped /\ Config \in Configs /\ CachesExist
  BY DEF PInv
<1> DEFINE sub == [kind |-> "manual", digest |-> 0, failures |-> 0, disabled |-> FALSE]
<1>2. PICK s \in Subs \ used :
        Edit(p, WithSub(Config, s, sub), FALSE) /\ used' = used \cup {s}
  BY DEF CreateManual
<1>3. sub \in Sub /\ sub.digest = 0
  <2>1. 0 \in 0..Threshold /\ 0 \in 0..MaxContent
    BY PoolAssumption
  <2> QED
    BY <2>1 DEF Sub
<1> HIDE DEF sub
<1> DEFINE c == WithSub(Config, s, sub)
           content == cache[s]
<1>4. /\ Publish(c) /\ UNCHANGED <<cache, loaded, remote>> /\ ProcsAreRight'
      /\ Settled' => Settled
      /\ intact' => intact
      /\ switched => switched'
  BY <1>2, EditFacts
<1>5. ~Exists(Config, s)
  BY <1>1, <1>2, ConfigFacts DEF CachesExist
<1>6. ~Affects(c, s)
  BY <1>1, <1>2, <1>3, <1>5, NewIsUnused
<1>7. cache' = [cache EXCEPT ![s] = content] /\ content \in 0..MaxContent
  BY <1>1, <1>2, <1>4 DEF FilesAreTyped
<1> HIDE DEF content
<1> QED
  BY <1>2, <1>3, <1>4, <1>6, <1>7, RecordStep

LEMMA DisableStep ==
  ASSUME PInv, NEW p \in Procs, NEW s \in Subs, Disable(p, s)
  PROVE  PInv'
<1>1. ProcsAreRight /\ FilesAreTyped /\ Config \in Configs /\ CachesExist
  BY DEF PInv
<1>2. /\ Exists(Config, s) /\ Spend("disables")
      /\ subs' = [subs EXCEPT ![s].disabled = ~@]
      /\ UNCHANGED <<pools, cache, loaded, remote, procs, used>>
  BY DEF Disable
<1> DEFINE old == subs[s]
           sub == [old EXCEPT !.disabled = ~@]
           content == cache[s]
<1>3. old \in Sub /\ old # None /\ Config.subs = subs /\ Config.pools = pools
  BY <1>1, <1>2, ConfigFacts
<1>4. sub \in Sub /\ sub.digest = old.digest
  <2>1. old.disabled \in BOOLEAN
    BY <1>3 DEF Sub
  <2> HIDE DEF old
  <2>2. sub \in Sub
    BY <1>3, <2>1 DEF Sub
  <2>3. sub.digest = old.digest
    BY <1>3 DEF Sub
  <2> QED
    BY <2>2, <2>3
<1>5. subs' = [subs EXCEPT ![s] = sub]
  BY <1>2
<1>6. Publish(WithSub(Config, s, sub))
  <2> HIDE DEF sub
  <2>1. WithSub(Config, s, sub).subs = [subs EXCEPT ![s] = sub]
        /\ WithSub(Config, s, sub).pools = pools
    BY DEF WithSub, Config
  <2> QED
    BY <1>2, <1>5, <2>1 DEF Publish
<1>7. switched' /\ (intact' => intact)
  BY <1>2, SpendFacts
<1>8. cache' = [cache EXCEPT ![s] = content] /\ content \in 0..MaxContent
  BY <1>1, <1>2 DEF FilesAreTyped
<1>9. s \in used /\ (old.digest # 0 => content # 0)
  BY <1>1, <1>3 DEF CachesExist
<1>10. intact' /\ old.digest # 0 => content = old.digest
  BY <1>3, <1>7 DEF PInv, DigestMatchesCache
<1>11. ProcsAreRight'
  BY <1>1, <1>2 DEF ProcsAreRight
<1>12. used' = used \cup {s} /\ UNCHANGED <<loaded, remote>>
  BY <1>2, <1>9
<1> HIDE DEF content, sub, old
<1> QED
  BY <1>4, <1>6, <1>7, <1>8, <1>9, <1>10, <1>11, <1>12, RecordStep

LEMMA DeleteStep ==
  ASSUME PInv, NEW p \in Procs, NEW s \in Subs, Delete(p, s)
  PROVE  PInv'
<1>1. Right(Config) /\ Config \in Configs
  BY DEF PInv
<1> DEFINE c == Removed(Config, s)
           applies == Affects(Config, s)
<1>2. Edit(p, c, applies) /\ used' = used
  BY DEF Delete
<1>3. applies \in BOOLEAN
  BY DEF Affects
<1>4. c \in Configs /\ Right(c) /\ c.subs = [Config.subs EXCEPT ![s] = None]
  BY <1>1, RemovedIsRight
<1>5. \A o \in Subs : c.subs[o] \in {None, subs[o]}
  BY <1>1, <1>4, ConfigFacts
<1>6. ~applies => /\ HasSources(c) <=> HasSources(Config)
                  /\ PoolProviders(c, cache) = PoolProviders(Config, cache)
  BY <1>1, RemovedSupply
<1> HIDE DEF c, applies
<1>7. /\ Publish(c) /\ UNCHANGED <<cache, loaded, remote>> /\ ProcsAreRight'
      /\ Settled' => Settled
      /\ applies => ~Settled'
      /\ intact' => intact
      /\ switched => switched'
  BY <1>2, <1>3, EditFacts
<1> QED
  BY <1>2, <1>4, <1>5, <1>6, <1>7, PoolStep

LEMMA SavePoolStep ==
  ASSUME PInv, NEW p \in Procs, NEW q \in Pools, NEW r \in Requests, SavePool(p, q, r)
  PROVE  PInv'
<1>1. Right(Config) /\ Config \in Configs
  BY DEF PInv
<1> DEFINE c == Saved(Config, q, r)
<1>2. Edit(p, c, TRUE) /\ used' = used
  BY DEF SavePool
<1>3. /\ c \in Configs /\ c.subs = Config.subs /\ PoolsOf(c) = PoolsOf(Config) \cup {q}
      /\ c.pools[q] = Target(Config, q, r)
      /\ \A o \in PoolsOf(Config) : o # q => Whole(c.pools[o])
  BY <1>1, SavedFacts
<1> HIDE DEF c
<1>4. /\ Valid(c) /\ Publish(c) /\ UNCHANGED <<cache, loaded, remote>>
      /\ ProcsAreRight' /\ ~Settled'
      /\ intact' => intact
      /\ switched => switched'
  BY <1>2, EditFacts
<1>5. \A o \in PoolsOf(c) : HasActive(c.pools[o])
  <2>1. HasActive(c.pools[q])
    BY <1>1, <1>3, TargetFacts
  <2> QED
    BY <1>3, <2>1 DEF Whole
<1>6. Right(c)
  BY <1>4, <1>5 DEF Right
<1>7. \A o \in Subs : c.subs[o] \in {None, subs[o]}
  BY <1>1, <1>3, ConfigFacts
<1> QED
  BY <1>2, <1>3, <1>4, <1>6, <1>7, PoolStep

LEMMA DeletePoolStep ==
  ASSUME PInv, NEW p \in Procs, NEW q \in Pools, DeletePool(p, q)
  PROVE  PInv'
<1>1. Right(Config) /\ Config \in Configs
  BY DEF PInv
<1> DEFINE c == [Config EXCEPT !.pools[q] = None]
<1>2. Edit(p, c, TRUE) /\ used' = used
  BY DEF DeletePool
<1>3. Config.pools = pools /\ Config.subs = subs /\ pools \in [Pools -> PoolRecords \cup {None}]
  BY <1>1, ConfigFacts
<1>4. c.subs = subs /\ c.pools = [pools EXCEPT ![q] = None]
      /\ c = [subs |-> subs, pools |-> [pools EXCEPT ![q] = None]]
  BY DEF Config
<1>5. c \in Configs
  <2>1. subs \in [Subs -> Sub \cup {None}]
    BY <1>1, ConfigFacts
  <2>2. [pools EXCEPT ![q] = None] \in [Pools -> PoolRecords \cup {None}]
    BY <1>3
  <2> QED
    BY <1>4, <2>1, <2>2 DEF Configs
<1> HIDE DEF c
<1>6. /\ Valid(c) /\ Publish(c) /\ UNCHANGED <<cache, loaded, remote>>
      /\ ProcsAreRight' /\ ~Settled'
      /\ intact' => intact
      /\ switched => switched'
  BY <1>2, EditFacts
<1>7. \A o \in PoolsOf(c) : o \in PoolsOf(Config) /\ c.pools[o] = Config.pools[o]
  BY <1>3, <1>4 DEF PoolsOf
<1>8. Right(c)
  BY <1>1, <1>6, <1>7 DEF Right
<1> QED
  BY <1>2, <1>4, <1>5, <1>6, <1>8, PoolStep

LEMMA ServeStep ==
  ASSUME PInv, NEW s \in Subs, NEW content \in 0..MaxContent, Serve(s, content)
  PROVE  PInv'
<1>1. /\ Spend("outages") /\ remote' = [remote EXCEPT ![s] = content]
      /\ UNCHANGED <<subs, pools, cache, loaded, procs, used>>
  BY DEF Serve
<1>2. (intact' => intact) /\ (switched => switched')
  BY <1>1, SpendFacts
<1>3. remote' \in [Subs -> 0..MaxContent]
  BY <1>1 DEF PInv, FilesAreTyped
<1>4. ProcsAreRight' /\ (Settled' => Settled)
  BY <1>1 DEF PInv, ProcsAreRight, Settled
<1> QED
  BY <1>1, <1>2, <1>3, <1>4, QuietStep

LEMMA NextInv ==
  PInv /\ [Next]_vars => PInv'
<1> SUFFICES ASSUME PInv, [Next]_vars PROVE PInv'
  OBVIOUS
<1>1. Handlers \subseteq Procs
  BY DEF Procs
<1>2. CASE UNCHANGED vars
  <2>1. UNCHANGED <<subs, pools, cache, loaded, remote, procs, used, intact, switched>>
    BY <1>2 DEF vars, counters
  <2>2. ProcsAreRight' /\ (Settled' => Settled) /\ remote' \in [Subs -> 0..MaxContent]
    BY <2>1 DEF PInv, ProcsAreRight, Settled, FilesAreTyped
  <2> QED
    BY <2>1, <2>2, QuietStep
<1>3. ASSUME NEW p \in Procs, Work(p) PROVE PInv'
  BY <1>3, FetchStep, CommitContentStep, CommitFailureStep, CommitNothingStep,
     FailoverStep, ApplyStep DEF Work
<1>4. CASE \E due \in SUBSET Due : Tick(due)
  BY <1>4, TickStep
<1>5. ASSUME NEW p \in Handlers, NEW s \in Subs,
             RefreshOne(p, s) \/ Disable(p, s) \/ Delete(p, s)
      PROVE  PInv'
  BY <1>1, <1>5, RefreshSteps, DisableStep, DeleteStep
<1>6. ASSUME NEW p \in Handlers, NEW q \in Pools, RefreshPool(p, q) \/ DeletePool(p, q)
      PROVE  PInv'
  BY <1>1, <1>6, RefreshSteps, DeletePoolStep
<1>7. ASSUME NEW p \in Handlers, NEW q \in Pools, NEW r \in Requests, SavePool(p, q, r)
      PROVE  PInv'
  BY <1>1, <1>7, SavePoolStep
<1>8. ASSUME NEW p \in Handlers, NEW s \in Subs, NEW kind \in {"url", "local"},
             BeginImport(p, s, kind)
      PROVE  PInv'
  BY <1>1, <1>8, BeginImportStep
<1>9. ASSUME NEW p \in Handlers, CommitImport(p) \/ DropImport(p) \/ CreateManual(p)
      PROVE  PInv'
  BY <1>1, <1>9, CommitImportStep, DropImportStep, CreateManualStep
<1>10. ASSUME NEW s \in Subs, NEW content \in 0..MaxContent, Serve(s, content)
       PROVE  PInv'
  BY <1>10, ServeStep
<1> QED
  BY <1>2, <1>3, <1>4, <1>5, <1>6, <1>7, <1>8, <1>9, <1>10 DEF Next
-----------------------------------------------------------------------------
(* The inductive invariant of the subscriptions and their pools. *)
THEOREM Inductive ==
  Spec => []PInv
BY InitInv, NextInv, PTL DEF Spec

(* Whatever refreshes, imports, edits and failovers overlap, Validate accepts *)
(* the configuration in force, and each record's cache file is there and,     *)
(* while commits can be written, holds the content that the record names.     *)
THEOREM TrueRecords ==
  Spec => []RecordsAreTrue
<1>1. PInv => RecordsAreTrue
  <2> SUFFICES ASSUME PInv PROVE RecordsAreTrue
    OBVIOUS
  <2>1. subs \in [Subs -> Sub \cup {None}] /\ pools \in [Pools -> PoolRecords \cup {None}]
    BY ConfigFacts DEF PInv
  <2>2. DOMAIN procs = Procs
    BY DEF PInv, ProcsAreRight
  <2> QED
    BY <2>1, <2>2 DEF PInv, FilesAreTyped, CachesExist, Right, TypeOK, RecordsAreTrue
<1> QED
  BY <1>1, Inductive, PTL

(* subscriptionAffectsRuntime and the handlers' choice of when to reconcile  *)
(* miss nothing, for any number of subscriptions, pools and handlers: when no *)
(* reconciliation is on its way, the kernel uses exactly what the pools ask   *)
(* for.                                                                       *)
THEOREM RuntimeFollows ==
  Spec => []RuntimeFollowsPools
<1>1. PInv => RuntimeFollowsPools
  BY DEF PInv
<1> QED
  BY <1>1, Inductive, PTL

(* No sequence of edits, imports, deletions and failovers leaves pools that    *)
(* refuse a right edit, or a pool that has members and no active one.          *)
THEOREM UsablePools ==
  Spec => []PoolsStayUsable
<1>1. PInv => PoolsStayUsable
  <2> SUFFICES ASSUME PInv PROVE PoolsStayUsable
    OBVIOUS
  <2>1. Config \in Configs /\ Right(Config) /\ Config.pools = pools
    BY ConfigFacts DEF PInv
  <2>2. PoolsKeepAnActive
    BY <2>1 DEF PoolsKeepAnActive, Right, HasActive
  <2>3. ASSUME NEW q \in Pools, NEW r \in Proper,
               \A s \in ToSet(r.members) : Exists(Config, s)
        PROVE  Valid(Saved(Config, q, r))
    BY <2>1, <2>3, SavedIsRight DEF Right
  <2>4. ASSUME NEW s \in Subs
        PROVE  Valid(Removed(Config, s))
    BY <2>1, RemovedIsRight DEF Right
  <2> QED
    BY <2>2, <2>3, <2>4 DEF PoolsStayUsable, EditsAreAccepted
<1> QED
  BY <1>1, Inductive, PTL
=============================================================================
