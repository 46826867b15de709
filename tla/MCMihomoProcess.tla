--------------------------- MODULE MCMihomoProcess ---------------------------
(* Small instances of MihomoProcess for TLC. *)
EXTENDS MihomoProcess, TLC

(* Callers are interchangeable (used by the runs without liveness). *)
CallerSymmetry == Permutations(Callers)
=============================================================================
