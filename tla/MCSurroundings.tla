---------------------------- MODULE MCSurroundings ----------------------------
(* A small instance of Surroundings for TLC. *)
EXTENDS Surroundings

(* SystemProxy: a home with blocks of an older port and with one that has   *)
(* lost its end, and an empty one; two processes.                           *)
SF == INSTANCE ShellFiles

MCCandidates == <<"bash_profile", "profile">>

MCOwner == [k \in {"a1", "b1"} |-> IF k = "b1" THEN "B" ELSE "A"]

MCHomes ==
  {[profile |-> <<"u1", SF!Guard, "u2">> \o SF!Block("port2"),
    bash_profile |-> <<"u1", SF!Start, "u2">>],
   [profile |-> Missing, bash_profile |-> Missing]}

(* Daemon: two TUIs with their daemons.                                     *)
MCChild == [t1 |-> "c1", t2 |-> "c2"]

(* KernelRules: a rule subscription, a literal rule and MATCH, built in.    *)
BuiltIn(id, kind, order, rule, policy) ==
  [id |-> id, kind |-> kind, enabled |-> TRUE, order |-> order, rule |-> rule,
   policy |-> policy]

MCDefaults == <<BuiltIn("gfw", "provider", 1, "url", "Auto"),
                BuiltIn("ssh", "literal", 2, "PORT", "DIRECT"),
                BuiltIn("match", "match", 3, "-", "Auto")>>

MCLegacy == <<<<"a", "DIRECT">>, <<"b", "DIRECT">>>>

MCCustoms == {<<"a", "DIRECT">>, <<"b", "DIRECT">>}

(* ProxyPage: groups and nodes that come, go and change their order.        *)
Node(name, delay) == [name |-> name, delay |-> delay]

Group(name, nodes) == [name |-> name, nodes |-> nodes]

MCAnswers ==
  {<<Group("g1", <<Node(1, -3), Node(2, -3), Node(3, -3)>>),
     Group("g2", <<Node(2, -3)>>)>>,
   <<Group("g1", <<Node(3, 1), Node(1, -3)>>)>>,
   <<Group("g2", <<Node(2, 2), Node(1, -3)>>)>>}

MCScreens == {[perRow |-> 1, perPage |-> 1], [perRow |-> 2, perPage |-> 2]}

=============================================================================
