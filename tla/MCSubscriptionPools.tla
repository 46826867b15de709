-------------------------- MODULE MCSubscriptionPools --------------------------
(* Small instances of SubscriptionPools for TLC. *)
EXTENDS SubscriptionPools

CONSTANTS a, b, p, q

Made(mode, members) ==
  [mode |-> mode, members |-> members, active |-> Head(members),
   enabled |-> TRUE, degraded |-> FALSE]

Case(pool, rest, edits, disables, outages, faults) ==
  [pools |-> [o \in Pools |-> IF o = p THEN pool ELSE rest],
   budget |-> [edits |-> edits, disables |-> disables, outages |-> outages,
               faults |-> faults]]

(* Edits of one and of two pools; a subscription that is imported beside the *)
(* one that is there; a member that is turned off; providers that change     *)
(* under one pool of each mode, with a commit that fails.                    *)
SafetyCases ==
  {Case(Made("failover", <<a, b>>), None, 2, 0, 0, 0),
   Case(Made("failover", <<a>>), Made("merge", <<b>>), 2, 0, 0, 0),
   Case(Made("failover", <<a>>), None, 2, 0, 1, 0),
   Case(Made("failover", <<a, b>>), None, 1, 1, 0, 0),
   Case(Made("failover", <<a, b>>), None, 0, 0, 2, 0),
   Case(Made("merge", <<a, b>>), None, 1, 0, 1, 1)}

(* Providers that go down and come back, a member that is turned off, and a  *)
(* commit that fails.                                                        *)
FailoverCases == {Case(Made("failover", <<a, b>>), None, 0, 1, 3, 1)}
=============================================================================
