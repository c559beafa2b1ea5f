------------------------------ MODULE RunEvents ------------------------------
(***************************************************************************)
(* The server side of production runs: kiosk events applied to the runs of *)
(* schedule items, each in one IMMEDIATE transaction that also writes the  *)
(* fact, the receipt, the request, the projection revision and the         *)
(* notification, and the cancellation of an item nobody has started.       *)
(*                                                                         *)
(* The command digest covers every field, so a command is its own digest.  *)
(***************************************************************************)
EXTENDS Integers, FiniteSetsExt

CONSTANTS
  Events,       \* event_id values
  Runs,         \* run ids
  Items,        \* schedule items, confirmed and resolved when the model begins
  TaskItems,    \* items bound to a single request; the others are grouped blocks
  Times,        \* occurredAt values
  MaxRevision,  \* bound: expectedRunRevision a client may send
  MaxReviews    \* bound: commands filed for review

ASSUME TaskItemsAssumption == TaskItems \subseteq Items
ASSUME TimesAssumption == Times \subseteq Nat
ASSUME BoundsAssumption == MaxRevision \in Nat /\ MaxReviews \in Nat

VARIABLES
  run,        \* production_runs
  fact,       \* production_events, by event id
  receipt,    \* operations and run_event_reviews, by event id
  request,    \* request_lifecycle of the request of each task item
  cancelled,  \* items whose schedule_status is cancelled
  projection, \* revision_counters.projection_revision
  notices     \* events for which a notification row was enqueued

serverVars == <<run, fact, receipt, request, cancelled, projection, notices>>

NoTime == -1
MaybeTimes == Times \cup {NoTime}
Types == {"start", "block", "resume", "complete"}
Active == {"scheduled", "shooting", "blocked"}
States == Active \cup {"completed"}

Commands == [event : Events, run : Runs, item : Items, type : Types,
             expected : 0 .. MaxRevision, at : Times]

NoRun == [status |-> "none"]
NoFact == [result |-> "none"]
NoReceipt == [kind |-> "none"]

\* A run as it stands before its first event; also the virtual run of a first start.
Scheduled(i) == [item |-> i, status |-> "scheduled", rev |-> 0, started |-> NoTime,
                 blockedAt |-> NoTime, blocked |-> 0, completed |-> NoTime]

RunRecords ==
  [item : Items, status : States, rev : Nat, started : MaybeTimes,
   blockedAt : MaybeTimes, blocked : Nat, completed : MaybeTimes]
FactRecords ==
  [cmd : Commands, previous : States, result : States, rev : Nat, projection : Nat]
\* The response kept with an accepted receipt is the run as the event left it.
ReceiptRecords ==
  [kind : {"accepted"}, cmd : Commands, response : RunRecords]
    \cup [kind : {"review"}, cmd : Commands]

ServerTypeOK ==
  /\ run \in [Runs -> RunRecords \cup {NoRun}]
  /\ fact \in [Events -> FactRecords \cup {NoFact}]
  /\ receipt \in [Events -> ReceiptRecords \cup {NoReceipt}]
  /\ request \in [TaskItems -> {"open", "fulfilled", "cancelled"}]
  /\ cancelled \subseteq Items
  /\ projection \in Nat
  /\ notices \subseteq Events

ServerInit ==
  /\ run = [r \in Runs |-> NoRun]
  /\ fact = [e \in Events |-> NoFact]
  /\ receipt = [e \in Events |-> NoReceipt]
  /\ request = [i \in TaskItems |-> "open"]
  /\ cancelled = {}
  /\ projection = 0
  /\ notices = {}

-----------------------------------------------------------------------------
(* Folding one event into a run. *)

NextState(status, type) ==
  CASE status = "scheduled" /\ type = "start" -> "shooting"
    [] status = "shooting" /\ type = "block" -> "blocked"
    [] status = "blocked" /\ type = "resume" -> "shooting"
    [] status = "shooting" /\ type = "complete" -> "completed"
    [] OTHER -> "none"

Fold(r, type, at) ==
  [r EXCEPT !.status = NextState(r.status, type),
            !.rev = r.rev + 1,
            !.started = IF type = "start" THEN at ELSE r.started,
            !.blockedAt = IF type = "block" THEN at ELSE NoTime,
            !.blocked = IF type = "resume" THEN r.blocked + (at - r.blockedAt) ELSE r.blocked,
            !.completed = IF type = "complete" THEN at ELSE r.completed]

\* Mutant: events are taken in whatever order they are declared to have happened.
CanFoldAnyTime(r, type, at, last) == NextState(r.status, type) # "none"

CanFold(r, type, at, last) ==
  /\ NextState(r.status, type) # "none"
  /\ last # NoTime => at >= last

-----------------------------------------------------------------------------
(* What the transaction decides. *)

RunsOf(i) == {r \in Runs : run[r] # NoRun /\ run[r].item = i}
ActiveRuns(i) == {r \in RunsOf(i) : run[r].status \in Active}
Existing(cmd) == ActiveRuns(cmd.item) # {}
Facts == {e \in Events : fact[e] # NoFact}

\* The state the event is folded into: the stored run, or the virtual one of a first start.
Current(cmd) == IF Existing(cmd) THEN run[cmd.run] ELSE Scheduled(cmd.item)

\* occurred_at of the last event of the run.
LastOccurredAt(cmd) ==
  IF \E e \in Facts : fact[e].cmd.run = cmd.run
  THEN fact[CHOOSE e \in Facts :
              fact[e].cmd.run = cmd.run /\ fact[e].rev = run[cmd.run].rev].cmd.at
  ELSE NoTime

\* Mutant: a receipt is not looked up, every command is decided anew.
KnownNever(cmd) == FALSE

Known(cmd) == receipt[cmd.event] # NoReceipt

\* Mutant: a completed run does not stop the next start on the item.
AddressableAgain(cmd) ==
  \/ ActiveRuns(cmd.item) = {cmd.run}
  \/ /\ ActiveRuns(cmd.item) = {}
     /\ cmd.type = "start"
     /\ run[cmd.run] = NoRun

\* The item can execute and the command names its one active run, or starts the first.
Addressable(cmd) ==
  \/ ActiveRuns(cmd.item) = {cmd.run}
  \/ /\ RunsOf(cmd.item) = {}
     /\ cmd.type = "start"
     /\ run[cmd.run] = NoRun

\* The client has seen the run as it stands.
UpToDate(cmd) == cmd.expected = Current(cmd).rev

\* Everything up to the time policy, which decides between review and fold.
Admissible(cmd) ==
  /\ cmd.item \notin cancelled
  /\ Addressable(cmd)
  /\ UpToDate(cmd)

\* What a completion does to the request of a task item, and whether it still can.
Fulfils(cmd) == cmd.type = "complete" /\ cmd.item \in TaskItems
MayFulfil(cmd) == request[cmd.item] = "open"

Applicable(cmd) ==
  /\ CanFold(Current(cmd), cmd.type, cmd.at, LastOccurredAt(cmd))
  /\ Fulfils(cmd) => MayFulfil(cmd)

FactAt(r, n) == CHOOSE e \in Facts : fact[e].cmd.run = r /\ fact[e].rev = n

\* The facts of a run refolded from its first event to revision n.
Rebuilt(r, i, n) ==
  LET state[k \in 0 .. n] ==
        IF k = 0 THEN Scheduled(i)
        ELSE LET cmd == fact[FactAt(r, k)].cmd IN Fold(state[k - 1], cmd.type, cmd.at)
  IN state[n]

\* A receipt is replayed only if the facts of its run, none missing, fold again one after
\* the other, through the states they name, to the response the receipt keeps.
Rebuilds(e) ==
  LET r == fact[e].cmd.run
      i == fact[e].cmd.item
      last(k) == IF k = 1 THEN NoTime ELSE fact[FactAt(r, k - 1)].cmd.at
  IN /\ \A k \in 1 .. fact[e].rev :
          /\ Cardinality({x \in Facts : fact[x].cmd.run = r /\ fact[x].rev = k}) = 1
          /\ LET f == fact[FactAt(r, k)]
                 before == Rebuilt(r, i, k - 1)
             IN /\ f.previous = before.status
                /\ CanFold(before, f.cmd.type, f.cmd.at, last(k))
                /\ f.result = NextState(before.status, f.cmd.type)
     /\ receipt[e].response = Rebuilt(r, i, fact[e].rev)

\* A known command is answered from its receipt, if that is of this command and sound.
Replayed(cmd) ==
  LET known == receipt[cmd.event]
  IN CASE known.cmd # cmd -> "reuse"
       [] known.cmd = cmd /\ known.kind = "review" -> "review"
       [] known.cmd = cmd /\ known.kind = "accepted" ->
            IF Rebuilds(cmd.event) THEN "applied" ELSE "integrity"

\* The verdict a client is sent.
Verdict(cmd, timely) ==
  IF Known(cmd) THEN Replayed(cmd)
  ELSE IF ~Admissible(cmd) THEN "conflict"
  ELSE IF ~timely THEN "review"
  ELSE IF Applicable(cmd) THEN "applied" ELSE "conflict"

-----------------------------------------------------------------------------
(* The transactions. *)

\* One event folded into its run; a completion is announced unless notifications are off.
Apply(cmd, announced) ==
  LET before == Current(cmd)
      after == Fold(before, cmd.type, cmd.at)
  IN /\ ~Known(cmd)
     /\ Admissible(cmd)
     /\ Applicable(cmd)
     /\ run' = [run EXCEPT ![cmd.run] = after]
     /\ request' = IF Fulfils(cmd) THEN [request EXCEPT ![cmd.item] = "fulfilled"] ELSE request
     /\ projection' = projection + 1
     /\ fact' = [fact EXCEPT ![cmd.event] =
          [cmd |-> cmd, previous |-> before.status, result |-> after.status,
           rev |-> after.rev, projection |-> projection + 1]]
     /\ receipt' = [receipt EXCEPT ![cmd.event] =
          [kind |-> "accepted", cmd |-> cmd, response |-> after]]
     /\ notices' = IF announced /\ cmd.type = "complete" THEN notices \cup {cmd.event} ELSE notices
     /\ UNCHANGED cancelled

ApplyEvent(cmd) == Apply(cmd, TRUE)

Reviews == {e \in Events : receipt[e].kind = "review"}

\* The declared time lies too far from the time of reception: the command is filed for a
\* person, and its receipt answers every later arrival.
FileReview(cmd) ==
  /\ ~Known(cmd)
  /\ Admissible(cmd)
  /\ Cardinality(Reviews) < MaxReviews
  /\ receipt' = [receipt EXCEPT ![cmd.event] = [kind |-> "review", cmd |-> cmd]]
  /\ UNCHANGED <<run, fact, request, cancelled, projection, notices>>

\* An arrival that is recorded, in one way or the other.
Record(cmd, timely) == (timely /\ ApplyEvent(cmd)) \/ (~timely /\ FileReview(cmd))

\* Replays and refusals write nothing.
Refuse(cmd, timely) ==
  /\ Known(cmd) \/ ~Admissible(cmd) \/ (timely /\ ~Applicable(cmd))
  /\ UNCHANGED serverVars

Receive(cmd, timely) == Record(cmd, timely) \/ Refuse(cmd, timely)

Cancellable(i) == i \notin cancelled /\ request[i] = "open" /\ RunsOf(i) = {}

\* The owner cancels an item that was never started, together with its request.
CancelItem(i) ==
  /\ Cancellable(i)
  /\ cancelled' = cancelled \cup {i}
  /\ request' = [request EXCEPT ![i] = "cancelled"]
  /\ projection' = projection + 1
  /\ UNCHANGED <<run, fact, receipt, notices>>

-----------------------------------------------------------------------------
Next ==
  \/ \E cmd \in Commands, timely \in BOOLEAN : Record(cmd, timely)
  \/ \E i \in TaskItems : CancelItem(i)

Spec == ServerInit /\ [][Next]_serverVars

-----------------------------------------------------------------------------
(* Properties. *)

\* run_event_id_owners: an event id belongs to a fact or to a review, never to both, and
\* what has an owner has the receipt of that kind.
OwnedOnce ==
  \A e \in Events : /\ receipt[e].kind = "accepted" <=> e \in Facts
                    /\ e \in Reviews => e \notin Facts

\* Every accepted receipt can be answered for ever: refolding the facts of its run up to
\* that event gives the response it keeps, so a retry is never told of a damaged receipt.
ReceiptsRebuild == OwnedOnce /\ \A e \in Facts : Rebuilds(e)

\* A run is what its facts say and nothing else: its revision counts them, they chain from
\* state to state in the order they happened, and the last one left the run as it is.
FactsChain ==
  \A e \in Facts :
    LET r == run[fact[e].cmd.run]
    IN /\ fact[e].rev \in 1 .. r.rev
       /\ fact[e].rev = r.rev => fact[e].result = r.status
       /\ fact[e].rev = 1 => fact[e].previous = "scheduled"
       /\ fact[e].rev > 1 => \E f \in Facts :
            /\ fact[f].cmd.run = fact[e].cmd.run
            /\ fact[f].rev = fact[e].rev - 1
            /\ fact[f].result = fact[e].previous
            /\ fact[f].cmd.at <= fact[e].cmd.at
            /\ fact[f].projection < fact[e].projection

\* The metrics of a run are those of its facts: outside a block the blocked time is the sum
\* of its closed blocks, and it lies within the run, so the net duration of a completed run
\* is never negative.
MetricsConsistent ==
  \A r \in Runs : run[r] # NoRun /\ run[r].status \in {"shooting", "completed"} =>
    LET total(type) == MapThenSumSet(LAMBDA e : fact[e].cmd.at,
                                     {e \in Facts : fact[e].cmd.run = r /\ fact[e].cmd.type = type})
    IN /\ run[r].blocked = total("resume") - total("block")
       /\ run[r].status = "completed" => run[r].started + run[r].blocked <= run[r].completed

\* An item is executed at most once.  Its request is fulfilled exactly when that run
\* completed, which is announced at most once; an item cancelled as not started never has a
\* run.
OutcomeAgrees ==
  /\ \A i \in Items : Cardinality(RunsOf(i)) <= 1
  /\ \A i \in TaskItems :
       /\ request[i] = "fulfilled" <=> \E r \in RunsOf(i) : run[r].status = "completed"
       /\ i \in cancelled => RunsOf(i) = {} /\ request[i] = "cancelled"
       /\ Cardinality({e \in notices : fact[e].cmd.item = i}) <=
            IF request[i] = "fulfilled" THEN 1 ELSE 0

\* A run is what its facts say and nothing else: in its states, in its metrics, and in what
\* became of its item, its request and the announcement.
RunIsItsFacts == FactsChain /\ MetricsConsistent /\ OutcomeAgrees

=============================================================================
