---------------------------- MODULE AtomicConfig ----------------------------
(***************************************************************************)
(* What the configuration store of the daemon promises its clients: one    *)
(* versioned configuration that is only ever replaced by a valid           *)
(* configuration, one edit at a time, with the version counting the edits. *)
(* A start that cannot read the file ends the promise except for validity. *)
(* ConfigStore, the store the code implements, is shown to implement it.   *)
(***************************************************************************)
EXTENDS Naturals

CONSTANTS Fields,   \* the fields of a configuration
          Values,   \* the values a field may take
          Default,  \* the configuration of a fresh installation
          Valid     \* the configurations Config.Validate accepts

VARIABLES store,    \* the configuration in force and its version
          intact    \* every start so far could read its file

Configs == [Fields -> Values]

Versioned == [ver : Nat, val : Configs]

Fresh == [ver |-> 0, val |-> Default]

Init == store = Fresh /\ intact = TRUE

(* One edit of one field, or a submission that left the values alone. *)
Commit(val) ==
  /\ intact
  /\ val \in Valid
  /\ \/ val = store.val
     \/ \E f \in Fields, v \in Values : val = [store.val EXCEPT ![f] = v]
  /\ store' = [ver |-> store.ver + 1, val |-> val]
  /\ UNCHANGED intact

(* The configuration has been replaced by the default one, or was before.  *)
Lose ==
  /\ ~intact'
  /\ store'.ver \in Nat
  /\ store'.val \in Valid

Next == Lose \/ \E val \in Configs : Commit(val)

Spec == Init /\ [][Next]_<<store, intact>>

=============================================================================
