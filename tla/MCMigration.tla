---------------------------- MODULE MCMigration ----------------------------
(* A small instance of Migration: two processes, and one of three contents has a blocker. *)
EXTENDS Migration, TLC

CONSTANTS p1, p2, c1, c2, c3

MCSymmetry == Permutations(Procs) \cup Permutations(Contents \ Unmappable)

=============================================================================
