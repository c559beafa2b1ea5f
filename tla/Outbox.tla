------------------------------- MODULE Outbox -------------------------------
(***************************************************************************)
(* The transactional notification outbox: the rows of notification_outbox, *)
(* the repository that enqueues, claims and settles them, the dispatchers  *)
(* that offer the claimed rows to the chat provider, and the provider.     *)
(*                                                                         *)
(* Time is abstracted to `due`, the rows whose current deadline            *)
(* (available_at of a waiting row, lease_expires_at of a leased one) lies  *)
(* in the past.  A lease token is the pair of a row and the number of the  *)
(* claim that minted it, which stands for the random token of the code.    *)
(***************************************************************************)
EXTENDS Naturals, FiniteSets

CONSTANTS
  Ids,          \* outbox_id values
  Intents,      \* records [id, key, body]: what a business transaction may enqueue
  Workers,      \* dispatcher processes
  MaxAttempts,  \* OUTBOX_DISPATCH_POLICY_V1.maxAttempts
  BatchSize     \* OUTBOX_DISPATCH_POLICY_V1.batchSize

ASSUME MaxAttemptsAssumption == MaxAttempts \in Nat \ {0}
ASSUME BatchSizeAssumption == BatchSize \in Nat \ {0}
ASSUME IntentsAssumption == \A it \in Intents : it.id \in Ids

VARIABLES
  status,    \* per row: absent, or the status column
  attempts,  \* attempt_count
  lease,     \* number of the claim that holds the row, 0 when lease_token is NULL
  minted,    \* how many tokens tokenFactory has minted for the row
  lastError, \* class of last_error_code
  intent,    \* the immutable identity columns
  isolated,  \* ids with a row in an isolation table
  due,       \* ids whose deadline has passed
  asked,     \* <<row, claim>>: sendCard was invoked under that claim
  accepted,  \* subset of asked: the provider has delivered the card
  refused,   \* subset of asked: the provider has definitely not delivered it
  item       \* per worker and row: progress of the dispatch of that row

rowVars == <<status, attempts, lease, minted, lastError, intent, isolated>>
providerVars == <<asked, accepted, refused>>
vars == <<rowVars, due, providerVars, item>>

NoIntent == [id |-> "none", key |-> "none", body |-> "none"]

Statuses ==
  {"absent", "pending", "leased", "retryableFailed", "sent", "deadLetter"}
Terminal == {"sent", "deadLetter"}
Failures == {"retryable", "fatal"}
Results == {"none", "ok"} \cup Failures
Errors == {"none", "unknown"} \cup Failures

Item == [stage : {"idle", "claimed", "sending", "settling"},
         token : Nat, result : Results, late : BOOLEAN]
Idle == [stage |-> "idle", token |-> 0, result |-> "none", late |-> FALSE]

TypeOK ==
  /\ status \in [Ids -> Statuses]
  /\ attempts \in [Ids -> 0 .. MaxAttempts]
  /\ lease \in [Ids -> Nat]
  /\ minted \in [Ids -> Nat]
  /\ lastError \in [Ids -> Errors]
  /\ intent \in [Ids -> Intents \cup {NoIntent}]
  /\ isolated \subseteq Ids
  /\ due \subseteq Ids
  /\ asked \subseteq Ids \X Nat
  /\ accepted \subseteq asked
  /\ refused \subseteq asked
  /\ item \in [Workers -> [Ids -> Item]]

Init ==
  /\ status = [i \in Ids |-> "absent"]
  /\ attempts = [i \in Ids |-> 0]
  /\ lease = [i \in Ids |-> 0]
  /\ minted = [i \in Ids |-> 0]
  /\ lastError = [i \in Ids |-> "none"]
  /\ intent = [i \in Ids |-> NoIntent]
  /\ isolated = {}
  /\ due = {}
  /\ asked = {}
  /\ accepted = {}
  /\ refused = {}
  /\ item = [w \in Workers |-> [i \in Ids |-> Idle]]

-----------------------------------------------------------------------------
(* The repository. *)

Rows == {i \in Ids : status[i] # "absent"}

\* Mutant: a replay under another row id is not recognised by its dedupe key.
EnqueueableByIdOnly(it) == it.id \notin Rows

\* OUTBOX_ENQUEUED is the one outcome of enqueue that changes the table: an
\* existing dedupe key is an exact no-op or a mismatch, a known id is a reuse.
Enqueueable(it) ==
  /\ \A i \in Rows : intent[i].key # it.key
  /\ it.id \notin Rows

\* The enqueue inside a business transaction.  The bounded acceptance of GF15 and the
\* kiosk smoke run insert the isolation row first and roll everything back unless
\* the enqueue is fresh, so isolation and row appear in one commit.
Enqueue(it, isolate) ==
  /\ Enqueueable(it)
  /\ status' = [status EXCEPT ![it.id] = "pending"]
  /\ intent' = [intent EXCEPT ![it.id] = it]
  /\ isolated' = IF isolate THEN isolated \cup {it.id} ELSE isolated
  /\ due' = due \cup {it.id}
  /\ UNCHANGED <<attempts, lease, minted, lastError, providerVars, item>>

\* Mutant: the last attempt but one counts as the last.
ExpiredFinalEarly ==
  {i \in due : status[i] = "leased" /\ attempts[i] >= MaxAttempts - 1}

\* Leased rows that spent their last attempt and whose lease has run out.
ExpiredFinal ==
  {i \in due : status[i] = "leased" /\ attempts[i] = MaxAttempts}

\* Mutants: the budget is off by one; a lease that ran out is not reclaimed.
EligibleOnceMore ==
  {i \in due \ isolated :
     \/ status[i] = "pending" /\ attempts[i] = 0
     \/ status[i] \in {"retryableFailed", "leased"} /\ attempts[i] \in 1 .. MaxAttempts}
EligibleNoReclaim ==
  {i \in due \ isolated :
     \/ status[i] = "pending" /\ attempts[i] = 0
     \/ status[i] = "retryableFailed" /\ attempts[i] \in 1 .. (MaxAttempts - 1)}

Eligible ==
  {i \in due \ isolated :
     \/ status[i] = "pending" /\ attempts[i] = 0
     \/ status[i] \in {"retryableFailed", "leased"} /\ attempts[i] \in 1 .. (MaxAttempts - 1)}

\* A LIMITed selection; any choice of rows stands for the ORDER BY.
TakenFrom(S, T) ==
  /\ S \subseteq T
  /\ Cardinality(S) = IF Cardinality(T) <= BatchSize THEN Cardinality(T) ELSE BatchSize

\* One claimBatch transaction: dead-letter `final`, lease `batch` under fresh tokens.
\* A worker runs one dispatch at a time, so it claims only with no item open.
Claim(w, final, batch) ==
  /\ \A i \in Ids : item[w][i] = Idle
  /\ TakenFrom(final, ExpiredFinal)
  /\ TakenFrom(batch, Eligible)
  /\ final \cup batch # {}
  /\ status' = [i \in Ids |-> IF i \in final THEN "deadLetter"
                              ELSE IF i \in batch THEN "leased" ELSE status[i]]
  /\ attempts' = [i \in Ids |-> IF i \in batch THEN attempts[i] + 1 ELSE attempts[i]]
  /\ minted' = [i \in Ids |-> IF i \in batch THEN minted[i] + 1 ELSE minted[i]]
  /\ lease' = [i \in Ids |-> IF i \in final THEN 0
                             ELSE IF i \in batch THEN minted[i] + 1 ELSE lease[i]]
  /\ lastError' = [i \in Ids |-> IF i \in final THEN "unknown"
                                 ELSE IF i \in batch THEN "none" ELSE lastError[i]]
  /\ due' = due \ (final \cup batch)
  /\ item' = [item EXCEPT ![w] = [i \in Ids |->
       IF i \in batch THEN [Idle EXCEPT !.stage = "claimed", !.token = minted[i] + 1]
                      ELSE Idle]]
  /\ UNCHANGED <<intent, isolated, providerVars>>

-----------------------------------------------------------------------------
(* The dispatcher, which works on all items of its batch at once, and the provider. *)

Send(w, i) ==
  /\ item[w][i].stage = "claimed"
  /\ asked' = asked \cup {<<i, item[w][i].token>>}
  /\ item' = [item EXCEPT ![w][i].stage = "sending"]
  /\ UNCHANGED <<rowVars, due, accepted, refused>>

\* The card reaches the chat, perhaps long after the caller stopped listening.
ProviderAccepts(i, n) ==
  /\ <<i, n>> \in asked \ (accepted \cup refused)
  /\ accepted' = accepted \cup {<<i, n>>}
  /\ UNCHANGED <<rowVars, due, asked, refused, item>>

ProviderRefuses(i, n) ==
  /\ <<i, n>> \in asked \ (accepted \cup refused)
  /\ refused' = refused \cup {<<i, n>>}
  /\ UNCHANGED <<rowVars, due, asked, accepted, item>>

\* Mutant: a call that has not answered when the timer fires counts as delivered.
DeliveryResultsOptimistic(i, n) == Failures \cup {"ok"}

\* What deliverWithTimeout may return: success only for a call that was accepted; a
\* failure for a refusal, but as well when the timer wins the race, the call rejects or
\* its answer is malformed, whatever became of the card.
DeliveryResults(i, n) ==
  Failures \cup (IF <<i, n>> \in accepted THEN {"ok"} ELSE {})

\* The result is in and the settlement time is read, once, before any busy retry.  A
\* clock fault substitutes the claim time, at which the lease is alive.
Respond(w, i, result, clockFault) ==
  /\ item[w][i].stage = "sending"
  /\ result \in DeliveryResults(i, item[w][i].token)
  /\ item' = [item EXCEPT ![w][i] =
       [@ EXCEPT !.stage = "settling", !.result = result,
                 !.late = ~clockFault /\ i \in due]]
  /\ UNCHANGED <<rowVars, due, providerVars>>

\* Mutant: the token is not compared.
HoldsAnyLease(w, i) == status[i] = "leased"

HoldsLease(w, i) ==
  /\ status[i] = "leased"
  /\ item[w][i].token = lease[i]

\* performSettlement of a result whose claim still holds the row and was not late.
SettleTo(w, i, newStatus, error) ==
  /\ item[w][i].stage = "settling"
  /\ HoldsLease(w, i)
  /\ ~item[w][i].late
  /\ status' = [status EXCEPT ![i] = newStatus]
  /\ lease' = [lease EXCEPT ![i] = 0]
  /\ lastError' = [lastError EXCEPT ![i] = error]
  /\ due' = due \ {i}
  /\ item' = [item EXCEPT ![w][i] = Idle]
  /\ UNCHANGED <<attempts, minted, intent, isolated, providerVars>>

SettleSent(w, i) ==
  /\ item[w][i].result = "ok"
  /\ SettleTo(w, i, "sent", "none")

\* Mutant: off by one, the last permitted attempt is never made.
MayRetryTooFew(i, result) == result = "retryable" /\ attempts[i] < MaxAttempts - 1

MayRetry(i, result) == result = "retryable" /\ attempts[i] < MaxAttempts

SettleRetry(w, i) ==
  /\ MayRetry(i, item[w][i].result)
  /\ SettleTo(w, i, "retryableFailed", item[w][i].result)

SettleDead(w, i) ==
  /\ item[w][i].result \in Failures
  /\ ~MayRetry(i, item[w][i].result)
  /\ SettleTo(w, i, "deadLetter", item[w][i].result)

\* The settlement is refused (lease mismatch or expired), the store stays busy through
\* every retry, or it fails: the dispatcher drops the result and leaves the row alone.
SettleDropped(w, i) ==
  /\ item[w][i].stage = "settling"
  /\ item' = [item EXCEPT ![w][i] = Idle]
  /\ UNCHANGED <<rowVars, due, providerVars>>

Settle(w, i) ==
  SettleSent(w, i) \/ SettleRetry(w, i) \/ SettleDead(w, i) \/ SettleDropped(w, i)

\* The process dies, in whatever stage its items are; the rows stay leased.
Crash(w) ==
  /\ \E i \in Ids : item[w][i] # Idle
  /\ item' = [item EXCEPT ![w] = [i \in Ids |-> Idle]]
  /\ UNCHANGED <<rowVars, due, providerVars>>

\* The deadline of a leased or backed-off row passes.
DeadlinePasses(i) ==
  /\ status[i] \in {"leased", "retryableFailed"}
  /\ i \notin due
  /\ due' = due \cup {i}
  /\ UNCHANGED <<rowVars, providerVars, item>>

-----------------------------------------------------------------------------

ClaimSome(w) == \E final, batch \in SUBSET Ids : Claim(w, final, batch)
RespondSome(w, i) ==
  \E result \in Results, clockFault \in BOOLEAN : Respond(w, i, result, clockFault)

Next ==
  \/ \E it \in Intents, isolate \in BOOLEAN : Enqueue(it, isolate)
  \/ \E w \in Workers : ClaimSome(w) \/ Crash(w)
  \/ \E w \in Workers, i \in Ids : Send(w, i) \/ RespondSome(w, i) \/ Settle(w, i)
  \/ \E c \in asked : ProviderAccepts(c[1], c[2]) \/ ProviderRefuses(c[1], c[2])
  \/ \E i \in Ids : DeadlinePasses(i)

Spec == Init /\ [][Next]_vars

-----------------------------------------------------------------------------
(* Properties. *)

\* A row is marked sent only if the provider accepted the card under the very claim that
\* settled it: a timeout, a lost answer or a malformed one is never taken for success.
SentOnlyIfAccepted ==
  \A i \in Ids : status[i] = "sent" => <<i, minted[i]>> \in accepted

\* However many workers, crashes, timeouts and retries there are, the provider is asked at
\* most MaxAttempts times for one business fact (one dedupe key).
BudgetPerFact ==
  \A i \in Rows :
    Cardinality({c \in asked : intent[c[1]].key = intent[i].key}) <= MaxAttempts

\* A notification of a bounded acceptance run is never offered to the provider, nor
\* another row that carries the same dedupe key.
IsolatedNeverAsked ==
  \A c \in asked, i \in isolated : intent[c[1]].key # intent[i].key

\* A row is given up only when its budget is spent or when the provider's answer was not
\* retryable, never after a transient failure with attempts to spare.
NoPrematureDeadLetter ==
  \A i \in Ids : status[i] = "deadLetter" =>
    attempts[i] = MaxAttempts \/ lastError[i] = "fatal"

\* A leased row changes hands or settles only by the result of the claim that holds it, or
\* after its lease ran out: the late answer of an earlier claim touches nothing.
LeaseRespected ==
  [][\A i \in Ids :
       (status[i] = "leased" /\ (status'[i] # "leased" \/ lease'[i] # lease[i])) =>
         \/ \E w \in Workers : item[w][i].stage = "settling" /\ item[w][i].token = lease[i]
         \/ i \in due]_vars

\* The triggers that guard the table, read as a relation between the old and the new row.
TransitionGuard(i) ==
  \/ /\ status'[i] = "leased"
     /\ attempts'[i] = attempts[i] + 1
     /\ i \in due
     /\ \/ status[i] = "pending" /\ attempts[i] = 0
        \/ status[i] = "retryableFailed" /\ attempts[i] \in 1 .. (MaxAttempts - 1)
        \/ /\ status[i] = "leased" /\ attempts[i] \in 1 .. (MaxAttempts - 1)
           /\ lease'[i] # lease[i]
  \/ /\ status[i] = "leased"
     /\ attempts'[i] = attempts[i]
     /\ \/ status'[i] = "sent"
        \/ status'[i] = "retryableFailed" /\ attempts[i] \in 1 .. (MaxAttempts - 1)
        \/ /\ status'[i] = "deadLetter"
           /\ \/ lastError'[i] = "fatal"
              \/ lastError'[i] = "retryable" /\ attempts[i] = MaxAttempts
              \/ lastError'[i] = "unknown" /\ attempts[i] = MaxAttempts /\ i \in due

rowOf(i) == <<status[i], attempts[i], lease[i], lastError[i]>>

\* No update the repository makes is one the triggers of the table abort, which would turn
\* the claim or settlement into OUTBOX_STORE_ERROR; so sent and dead-lettered rows stay
\* sealed and attempts never fall, whatever stragglers still report.
GuardAdmitsEveryUpdate ==
  [][\A i \in Rows : rowOf(i)' # rowOf(i) => TransitionGuard(i)]_vars

\* The outbox implements the promise of OutboxDelivery.
outcomeBar == [i \in Ids |->
  CASE status[i] = "absent" -> "none"
    [] status[i] = "sent" -> "sent"
    [] status[i] = "deadLetter" -> "abandoned"
    [] OTHER -> IF i \in isolated THEN "withheld" ELSE "owed"]

Delivery == INSTANCE OutboxDelivery
              WITH outcome <- outcomeBar, tries <- minted, arrived <- accepted

\* Refinement: every behaviour of the outbox, with its leases, crashes and stragglers, is
\* a behaviour of the abstract at-least-once delivery service.
DeliverySpec == Delivery!Spec

=============================================================================
