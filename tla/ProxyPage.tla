------------------------------ MODULE ProxyPage ------------------------------
(***************************************************************************)
(* The page of the TUI that shows the kernel's proxy groups as cards       *)
(* (ui/proxy.go, ui/proxy_state.go): what a refresh, the delay tests and   *)
(* the user's moves do to the groups, the cursor and the page shown.       *)
(*                                                                         *)
(* Every action but the answers of the kernel runs in the event loop. An   *)
(* answer comes from a goroutine, which hands it to the event loop at any  *)
(* later time and in any order. The kernel is external: any list of groups *)
(* and any delay may come back, and any request may fail. The choice of a  *)
(* node that selectNode sends to the kernel is not shown and is left out.  *)
(***************************************************************************)
EXTENDS Integers, Sequences, SequencesExt, FiniteSets

CONSTANTS Answers,       \* the lists of groups the kernel may answer
          Direct,        \* the nodes of type Direct
          Delays,        \* the results of a test, 0 for none
          Screens,       \* the cards in a row and on a page
          MaxRefreshes,  \* bound: refreshes asked for
          MaxTests,      \* bound: tests started
          MaxMoves       \* bound: moves of the user and resizes

Timeout == -1

Testing == -2

NoGroup == ""

NoNode == 0    \* node names are numbers, in their order as strings

Named(s) == \A i, j \in DOMAIN s : s[i].name = s[j].name => i = j

Answer == Seq([name : STRING,
               nodes : Seq([name : Nat \ {NoNode}, delay : {Timeout, -3} \cup Nat])])

(* The groups come from a map by their names. That a group has no two nodes *)
(* of a name is up to the kernel.                                           *)
Assumptions ==
  /\ Answers \subseteq Answer
  /\ \A groups \in Answers :
       Named(groups) /\ \A i \in DOMAIN groups : Named(groups[i].nodes)
  /\ Screens \subseteq [perRow : Nat \ {0}, perPage : Nat \ {0}]
  /\ Delays \subseteq Nat
  /\ {MaxRefreshes, MaxTests, MaxMoves} \subseteq Nat

VARIABLES
  view,       \* proxyViewState: groups, groupName, nodeName and page
  screen,     \* cardsPerRow and maxPerPage
  label,      \* what testBtn offers, to test or to stop
  visible, loading, isTesting,
  batches,    \* the goroutines of testAllNodes
  singles,    \* the goroutines of testSingleNode, as many as nodeTests
  lost,       \* the groups a result of which came while the page was hidden
  bounds      \* the bounded counters

vars == <<view, screen, label, visible, loading, isTesting, batches, singles,
          lost, bounds>>

Index(s, name) == SelectInSeq(s, LAMBDA x : x.name = name)

Has(s, name) == Index(s, name) # 0

NodesOf(v, groupName) ==
  IF Has(v.groups, groupName) THEN v.groups[Index(v.groups, groupName)].nodes
  ELSE <<>>

(* currentGroup: the first one if the one chosen is gone.                   *)
Current(v) ==
  IF Has(v.groups, v.groupName) THEN Index(v.groups, v.groupName) ELSE 1

CurrentNodes(v) ==
  IF v.groups = <<>> THEN <<>> ELSE v.groups[Current(v)].nodes

NormalizeNode(v) ==
  IF Has(CurrentNodes(v), v.nodeName) THEN v
  ELSE [v EXCEPT !.nodeName = IF CurrentNodes(v) = <<>> THEN NoNode
                              ELSE CurrentNodes(v)[1].name]

NormalizeGroup(v) ==
  NormalizeNode(
    IF Has(v.groups, v.groupName) THEN v
    ELSE [v EXCEPT !.groupName = IF v.groups = <<>> THEN NoGroup ELSE v.groups[1].name,
                   !.nodeName = NoNode, !.page = 0])

LastPage(v, perPage) ==
  IF CurrentNodes(v) = <<>> THEN 0 ELSE (Len(CurrentNodes(v)) - 1) \div perPage

(* render draws nothing, and corrects nothing, for a group without nodes.   *)
Render(v, perPage) ==
  IF CurrentNodes(v) # <<>> /\ v.page > LastPage(v, perPage)
  THEN [v EXCEPT !.page = LastPage(v, perPage)] ELSE v

(* The elements of s at the places I, in the order Before of the places.    *)
Arranged(s, I, Before) ==
  [k \in 1..Cardinality(I) |->
     s[CHOOSE i \in I : Cardinality({j \in I : <<j, i>> \in Before}) = k - 1]]

Chosen(s, I) == Arranged(s, I, {p \in I \X I : p[1] < p[2]})

(* The same in the order of the answer.                                     *)
MergeProxyNodes_TakesOrder(existing, incoming) ==
  [i \in DOMAIN incoming |->
     LET x == incoming[i] IN
     IF Has(existing, x.name) /\ existing[Index(existing, x.name)].delay = Testing
     THEN [x EXCEPT !.delay = Testing] ELSE x]

(* mergeProxyNodes: the order shown is kept, new nodes come last, and a     *)
(* node under test stays so.                                                *)
MergeProxyNodes(existing, incoming) ==
  LET stays == Chosen(existing,
                      {i \in DOMAIN existing : Has(incoming, existing[i].name)})
      news == Chosen(incoming,
                     {i \in DOMAIN incoming : ~Has(existing, incoming[i].name)})
      Fresh(x) == IF x.delay = Testing THEN x
                  ELSE incoming[Index(incoming, x.name)]
  IN [i \in DOMAIN stays |-> Fresh(stays[i])] \o news

ApplyServerGroups(v, incoming) ==
  LET Merged(g) ==
        [g EXCEPT !.nodes = MergeProxyNodes(NodesOf(v, g.name), @)]
  IN NormalizeGroup([v EXCEPT !.groups = [i \in DOMAIN incoming |->
                                            Merged(incoming[i])]])

(* The nodes of a group get new delays, in their order.                     *)
SetDelays(v, groupName, new) ==
  IF ~Has(v.groups, groupName) THEN v
  ELSE [v EXCEPT !.groups[Index(v.groups, groupName)].nodes =
          [j \in DOMAIN @ |-> [@[j] EXCEPT !.delay = new[j]]]]

SetNodeDelay(v, groupName, nodeName, delay) ==
  LET nodes == NodesOf(v, groupName) IN
  SetDelays(v, groupName,
    [j \in DOMAIN nodes |-> IF nodes[j].name = nodeName THEN delay ELSE nodes[j].delay])

MarkGroupTesting(v, groupName) ==
  LET nodes == NodesOf(v, groupName) IN
  SetDelays(v, groupName,
    [j \in DOMAIN nodes |-> IF nodes[j].name \in Direct THEN nodes[j].delay ELSE Testing])

ResolveTesting(v, groupName) ==
  LET nodes == NodesOf(v, groupName) IN
  SetDelays(v, groupName,
    [j \in DOMAIN nodes |-> IF nodes[j].delay = Testing THEN Timeout ELSE nodes[j].delay])

Measured(delay) == IF delay = 0 THEN Timeout ELSE delay

ApplyDelays(v, groupName, delays) ==
  LET nodes == NodesOf(v, groupName) IN
  SetDelays(v, groupName,
    [j \in DOMAIN nodes |-> IF nodes[j].name \in DOMAIN delays
                            THEN Measured(delays[nodes[j].name]) ELSE nodes[j].delay])

DelayLess(x, y) ==
  \/ x.delay = y.delay /\ x.name < y.name
  \/ x.delay >= 0 /\ (y.delay > x.delay \/ y.delay < 0)
  \/ x.delay < 0 /\ y.delay < x.delay

Sorted(nodes) ==
  LET I == DOMAIN nodes
  IN Arranged(nodes, I, {p \in I \X I : DelayLess(nodes[p[1]], nodes[p[2]])})

(* sortAndFollow sorts the group shown, which need not be the one tested.   *)
SortAndFollow(v, perPage) ==
  IF v.groups = <<>> THEN v
  ELSE LET sorted == Sorted(CurrentNodes(v))
       IN [v EXCEPT !.groups[Current(v)].nodes = sorted,
                    !.page = IF v.nodeName = NoNode THEN 0
                             ELSE IF Has(sorted, v.nodeName)
                             THEN (Index(sorted, v.nodeName) - 1) \div perPage
                             ELSE @]
-----------------------------------------------------------------------------
Init ==
  /\ view = [groups |-> <<>>, groupName |-> NoGroup, nodeName |-> NoNode, page |-> 0]
  /\ screen \in Screens
  /\ label = "test" /\ visible = TRUE /\ loading = FALSE /\ isTesting = FALSE
  /\ batches = {} /\ singles = {} /\ lost = {}
  /\ bounds = [refreshes |-> 0, tests |-> 0, moves |-> 0]

(* refreshFromServer, on the button, on r and on every visit of the page.   *)
Refresh ==
  /\ visible /\ ~loading /\ bounds.refreshes < MaxRefreshes
  /\ loading' = TRUE
  /\ bounds' = [bounds EXCEPT !.refreshes = @ + 1]
  /\ UNCHANGED <<view, screen, label, visible, isTesting, batches, singles, lost>>

RefreshFails ==
  /\ loading /\ loading' = FALSE
  /\ UNCHANGED <<view, screen, label, visible, isTesting, batches, singles,
                 lost, bounds>>

RefreshAnswers ==
  /\ loading /\ loading' = FALSE
  /\ \E groups \in Answers :
       view' = IF visible
               THEN Render(ApplyServerGroups(view, groups), screen.perPage)
               ELSE view
  /\ UNCHANGED <<screen, label, visible, isTesting, batches, singles, lost, bounds>>

(* testSingleNode, from the card of a node.                                  *)
TestSingleNode(i) ==
  LET id == bounds.tests + 1
      node == CurrentNodes(view)[i].name
  IN
  /\ visible /\ ~isTesting /\ bounds.tests < MaxTests
  /\ bounds' = [bounds EXCEPT !.tests = id]
  /\ singles' = singles \cup
       {[id |-> id, group |-> view.groupName, node |-> node]}
  /\ view' = SetNodeDelay(view, view.groupName, node, Testing)
  /\ UNCHANGED <<screen, label, visible, loading, isTesting, batches, lost>>

(* A hidden page drops the result, and the node stays marked.               *)
SingleAnswers(t) ==
  /\ singles' = singles \ {t}
  /\ IF visible
     THEN \E d \in Delays :
            LET known == Has(NodesOf(view, t.group), t.node)
                timed == SetNodeDelay(view, t.group, t.node, Measured(d))
            IN view' = Render(IF known THEN SortAndFollow(timed, screen.perPage)
                              ELSE view, screen.perPage)
     ELSE UNCHANGED view
  /\ lost' = IF visible THEN lost ELSE lost \cup {t.group}
  /\ UNCHANGED <<screen, label, visible, loading, isTesting, batches, bounds>>

(* testAllNodes starts a test of the group, unless one of a node is under   *)
(* way ...                                                                  *)
TestAllNodes ==
  LET id == bounds.tests + 1
      group == view.groups[Current(view)].name
  IN
  /\ visible /\ CurrentNodes(view) # <<>>
  /\ ~isTesting /\ singles = {} /\ bounds.tests < MaxTests
  /\ bounds' = [bounds EXCEPT !.tests = id]
  /\ isTesting' = TRUE /\ label' = "stop"
  /\ batches' = batches \cup
       {[id |-> id, group |-> group, phase |-> "testing"]}
  /\ view' = MarkGroupTesting(view, group)
  /\ UNCHANGED <<screen, visible, loading, singles, lost>>

(* ... or stops the one under way, whose goroutine goes on. It resolves the *)
(* group shown, which need not be the one under test.                       *)
StopTest ==
  /\ visible /\ CurrentNodes(view) # <<>> /\ isTesting
  /\ isTesting' = FALSE /\ label' = "test"
  /\ view' = ResolveTesting(view, view.groupName)
  /\ UNCHANGED <<screen, visible, loading, batches, singles, lost, bounds>>

(* The results that a test of a group may end with.                         *)
Results(group) ==
  LET nodes == NodesOf(view, group)
      names == {nodes[i].name : i \in DOMAIN nodes}
  IN UNION {[answered -> Delays] : answered \in SUBSET names}

(* A goroutine that finds its test stopped leaves the marks as they are.    *)
BatchAnswers_StopsEarly(b) ==
  /\ b.phase = "testing"
  /\ batches' = (batches \ {b}) \cup {[b EXCEPT !.phase = "closing"]}
  /\ isTesting' = FALSE
  /\ IF visible /\ isTesting THEN view' = ResolveTesting(view, b.group)
     ELSE UNCHANGED view
  /\ lost' = IF visible THEN lost ELSE lost \cup {b.group}
  /\ UNCHANGED <<screen, label, visible, loading, singles, bounds>>

(* What the goroutine of testAllNodes hands over first: the results, unless *)
(* the page is hidden, or no test is under way, whoever started it.         *)
BatchAnswers(b) ==
  /\ b.phase = "testing"
  /\ batches' = (batches \ {b}) \cup {[b EXCEPT !.phase = "closing"]}
  /\ isTesting' = FALSE
  /\ IF ~visible
     THEN UNCHANGED view /\ lost' = lost \cup {b.group}
     ELSE /\ UNCHANGED lost
          /\ \/ view' = ResolveTesting(view, b.group)
             \/ /\ isTesting
                /\ \E delays \in Results(b.group) :
                     view' = Render(SortAndFollow(ResolveTesting(ApplyDelays(
                               view, b.group, delays), b.group),
                               screen.perPage), screen.perPage)
  /\ UNCHANGED <<screen, label, visible, loading, singles, bounds>>

(* Its deferred second call restores the button if no test is under way.    *)
BatchCloses(b) ==
  /\ b.phase = "closing" /\ batches' = batches \ {b}
  /\ label' = IF isTesting THEN label ELSE "test"
  /\ UNCHANGED <<view, screen, visible, loading, isTesting, singles, lost, bounds>>
-----------------------------------------------------------------------------
Move == /\ bounds.moves < MaxMoves
        /\ bounds' = [bounds EXCEPT !.moves = @ + 1]
        /\ UNCHANGED <<label, isTesting, batches, singles, lost>>

Shows(v) == view' = Render(v, screen.perPage)
            /\ UNCHANGED <<screen, visible, loading>>

(* The user takes a group from the drop-down list.                          *)
ChooseGroup(i) ==
  /\ visible /\ Move
  /\ Shows(NormalizeGroup([view EXCEPT !.groupName = view.groups[i].name,
                                       !.nodeName = NoNode, !.page = 0]))

(* selectNode: a click on a card of the page shown.                         *)
SelectNode(i) ==
  /\ visible /\ Move /\ (i - 1) \div screen.perPage = view.page
  /\ Shows([view EXCEPT !.nodeName = CurrentNodes(view)[i].name])

TurnPage(step) ==
  /\ visible /\ Move /\ view.page + step \in 0..LastPage(view, screen.perPage)
  /\ Shows([view EXCEPT !.page = @ + step])

(* The arrow keys: left and right turn one page at most, up and down move   *)
(* by a row of cards and go to the page of the node.                        *)
MoveCursor(step, byRow) ==
  LET cur == Index(CurrentNodes(view), view.nodeName) - 1
      next == cur + step
      first == view.page * screen.perPage
  IN
  /\ visible /\ Move /\ cur >= 0 /\ next \in 0..Len(CurrentNodes(view)) - 1
  /\ Shows([view EXCEPT
       !.nodeName = CurrentNodes(view)[next + 1].name,
       !.page = IF ~(IF step > 0 THEN next >= first + screen.perPage ELSE next < first)
                THEN @
                ELSE IF byRow THEN next \div screen.perPage ELSE @ + step])

Hide ==
  /\ visible /\ Move /\ visible' = FALSE
  /\ UNCHANGED <<view, screen, loading>>

(* OnShow refreshes, unless a refresh is under way.                         *)
Show ==
  /\ ~visible /\ visible' = TRUE
  /\ loading \/ bounds.refreshes < MaxRefreshes
  /\ loading' = TRUE
  /\ bounds' = [bounds EXCEPT !.refreshes = IF loading THEN @ ELSE @ + 1]
  /\ UNCHANGED <<view, screen, label, isTesting, batches, singles, lost>>

(* The terminal is resized while the page is drawn.                         *)
Resize(s) ==
  /\ visible /\ Move /\ s # screen /\ screen' = s
  /\ view' = Render(view, s.perPage)
  /\ UNCHANGED <<visible, loading>>

Next ==
  \/ Refresh \/ RefreshFails \/ RefreshAnswers
  \/ TestAllNodes \/ StopTest
  \/ \E b \in batches : BatchAnswers(b) \/ BatchCloses(b)
  \/ \E t \in singles : SingleAnswers(t)
  \/ \E i \in DOMAIN CurrentNodes(view) : TestSingleNode(i) \/ SelectNode(i)
  \/ \E i \in DOMAIN view.groups : ChooseGroup(i)
  \/ \E step \in {-1, 1} : TurnPage(step)
  \/ \E step \in {-1, 1} : MoveCursor(step, FALSE)
  \/ \E step \in {-screen.perRow, screen.perRow} : MoveCursor(step, TRUE)
  \/ Hide \/ Show
  \/ \E s \in Screens : Resize(s)

Spec == Init /\ [][Next]_vars
-----------------------------------------------------------------------------
Node == [name : Nat \ {NoNode}, delay : {Testing, Timeout, -3} \cup Nat]

TypeOK ==
  /\ view.groups \in Seq([name : STRING, nodes : Seq(Node)])
  /\ view.groupName \in STRING \/ view.groupName = NoGroup
  /\ view.nodeName \in Nat /\ view.page \in Nat
  /\ screen \in Screens /\ label \in {"test", "stop"}
  /\ {visible, loading, isTesting} \subseteq BOOLEAN
  /\ \A b \in batches : /\ b.id \in 1..bounds.tests
                         /\ b.phase \in {"testing", "closing"}
  /\ \A t \in singles : t.id \in 1..bounds.tests
  /\ bounds.refreshes \in 0..MaxRefreshes /\ bounds.tests \in 0..MaxTests
  /\ bounds.moves \in 0..MaxMoves

(* A node that the page shows as being tested is being tested: no order of  *)
(* stops, new tests, refreshes and changes of group leaves a mark for ever, *)
(* except in a group a result of which came while the page was hidden       *)
(* (resolveTesting, mergeProxyNodes).                                       *)
MarksEnd ==
  \A i \in DOMAIN view.groups : LET g == view.groups[i] IN
    \A j \in DOMAIN g.nodes :
      g.nodes[j].delay = Testing =>
        \/ g.name \in lost
        \/ \E b \in batches : b.group = g.name /\ b.phase = "testing"
        \/ \E t \in singles : t.group = g.name /\ t.node = g.nodes[j].name

(* A refresh moves nothing: nodes that stay keep their order and their      *)
(* marks, and the group, the cursor and the page shown stay what they were, *)
(* unless what they name is gone (proxyViewState).                          *)
RefreshStep ==
  loading /\ ~loading' /\ view'.groups # view.groups =>
    /\ \A i \in DOMAIN view.groups : LET g == view.groups[i] IN
         Has(view'.groups, g.name) =>
           LET after == NodesOf(view', g.name) IN
           \A j, k \in DOMAIN g.nodes :
             LET x == g.nodes[j]  y == g.nodes[k] IN
             Has(after, x.name) /\ Has(after, y.name) =>
               /\ j < k => Index(after, x.name) < Index(after, y.name)
               /\ x.delay = Testing =>
                    after[Index(after, x.name)].delay = Testing
    /\ Has(view'.groups, view.groupName) =>
         /\ view'.groupName = view.groupName
         /\ Has(CurrentNodes(view'), view.nodeName) =>
              view'.nodeName = view.nodeName
         /\ view.page <= LastPage(view', screen.perPage) =>
              view'.page = view.page

RefreshMovesNothing == [][RefreshStep]_vars
=============================================================================
