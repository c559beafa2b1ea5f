--------------------------- MODULE MCCleanupControl ---------------------------
(* A small instance of CleanupControl: the server, the script and a deployment tool. *)
EXTENDS CleanupControl, TLC

CONSTANTS p1, p2, p3, stale

MCSymmetry == Permutations(Procs)

=============================================================================
