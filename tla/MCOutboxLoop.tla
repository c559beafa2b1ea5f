---------------------------- MODULE MCOutboxLoop ----------------------------
(* Small instances of OutboxLoop for TLC. *)
EXTENDS OutboxLoop, TLC

CONSTANTS i1

MCIntents == {[id |-> i, key |-> i, body |-> "b"] : i \in {i1}}

=============================================================================
