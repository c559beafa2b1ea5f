------------------------------ MODULE MCUploads ------------------------------
(* A small instance of Uploads: the server and the script, uploads of the same content. *)
EXTENDS Uploads, TLC

CONSTANTS p1, p2, u1, u2, o1, o2, c1

MCSymmetry == Permutations(Procs) \cup Permutations(Ids) \cup Permutations(Ops)

=============================================================================
