--------------------------- MODULE MCConfigStore ---------------------------
(***************************************************************************)
(* Small instances of ConfigStore for TLC: a field the sessions edit, the  *)
(* credential of the mihomo API and a path a root daemon keeps to itself.  *)
(***************************************************************************)
EXTENDS ConfigStore

CONSTANTS s1, s2, w1

MCFields == {"mode", "secret", "path"}

MCValues == {0, 1}

MCDefault == [f \in MCFields |-> 0]

(* Two edits that are each valid can be invalid together. *)
MCValid == {c \in [MCFields -> MCValues] : c["mode"] + c["secret"] < 2}

=============================================================================
