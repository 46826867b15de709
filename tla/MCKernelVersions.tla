--------------------------- MODULE MCKernelVersions ---------------------------
(* Small instances of KernelVersions for TLC. *)
EXTENDS KernelVersions

(* The release list names every version, or it has not been fetched.        *)
AllOrNone == {Versions, {}}
=============================================================================
