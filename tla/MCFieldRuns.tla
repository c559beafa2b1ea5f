---------------------------- MODULE MCFieldRuns ----------------------------
(* A small instance of FieldRuns: two single-request items and a grouped *)
(* one on one resource. *)
EXTENDS FieldRuns, TLC

CONSTANTS e1, e2, e3, e4, e5, r1, r2, a, b, g, room

MCResourceOf == [i \in Items |-> room]
MCSymmetry == Permutations(Events) \cup Permutations(Runs) \cup Permutations(TaskItems)

=============================================================================
