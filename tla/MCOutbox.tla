------------------------------ MODULE MCOutbox ------------------------------
(* Small instances of Outbox for TLC. *)
EXTENDS Outbox, TLC

CONSTANTS i1, i2, w1, w2

\* Two facts, and the second row id may also carry the first fact (an event replayed
\* under another id), which the dedupe key must catch.
MCIntents == {
  [id |-> i1, key |-> "k1", body |-> "b1"],
  [id |-> i2, key |-> "k2", body |-> "b1"],
  [id |-> i2, key |-> "k1", body |-> "b1"]}

MCSymmetry == Permutations(Workers)

=============================================================================
