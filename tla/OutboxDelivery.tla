--------------------------- MODULE OutboxDelivery ---------------------------
(***************************************************************************)
(* What the outbox promises to the business transactions that use it: each *)
(* notification is owed from the commit that recorded it until it is       *)
(* confirmed or given up, is offered to the provider a bounded number of   *)
(* times, may arrive more than once and arbitrarily late, and is confirmed *)
(* only when it has arrived.  A withheld one is never offered.             *)
(***************************************************************************)
EXTENDS Naturals

CONSTANTS Ids, MaxAttempts

VARIABLES
  outcome,  \* "none", "owed", "withheld", "sent" or "abandoned"
  tries,    \* how often the notification was handed out for delivery
  arrived   \* <<notification, try>> pairs that reached the recipient

vars == <<outcome, tries, arrived>>

Init ==
  /\ outcome = [i \in Ids |-> "none"]
  /\ tries = [i \in Ids |-> 0]
  /\ arrived = {}

Record(i) ==
  /\ outcome[i] = "none"
  /\ \E o \in {"owed", "withheld"} : outcome' = [outcome EXCEPT ![i] = o]
  /\ UNCHANGED <<tries, arrived>>

\* A dispatcher takes a batch of owed notifications, and gives up others whose last
\* permitted try ended with an unknown outcome.
Dispatch(batch, exhausted) ==
  /\ batch \cap exhausted = {}
  /\ \A i \in batch : outcome[i] = "owed" /\ tries[i] < MaxAttempts
  /\ \A i \in exhausted : outcome[i] = "owed" /\ tries[i] = MaxAttempts
  /\ tries' = [i \in Ids |-> IF i \in batch THEN tries[i] + 1 ELSE tries[i]]
  /\ outcome' = [i \in Ids |-> IF i \in exhausted THEN "abandoned" ELSE outcome[i]]
  /\ UNCHANGED arrived

Arrive(i, n) ==
  /\ <<i, n>> \notin arrived
  /\ arrived' = arrived \cup {<<i, n>>}
  /\ UNCHANGED <<outcome, tries>>

\* Only the arrival of the latest try confirms: the lease of every earlier one is gone.
Confirm(i) ==
  /\ outcome[i] = "owed"
  /\ <<i, tries[i]>> \in arrived
  /\ outcome' = [outcome EXCEPT ![i] = "sent"]
  /\ UNCHANGED <<tries, arrived>>

\* The provider refused the latest try for good, or answered without making sense.
Abandon(i) ==
  /\ outcome[i] = "owed"
  /\ tries[i] > 0
  /\ outcome' = [outcome EXCEPT ![i] = "abandoned"]
  /\ UNCHANGED <<tries, arrived>>

Next ==
  \/ \E batch, exhausted \in SUBSET Ids : Dispatch(batch, exhausted)
  \/ \E i \in Ids : Record(i) \/ Confirm(i) \/ Abandon(i) \/ \E n \in 1 .. tries[i] : Arrive(i, n)

Spec == Init /\ [][Next]_vars

=============================================================================
