----------------------------- MODULE OutboxLoop -----------------------------
(***************************************************************************)
(* One outbox worker and the dispatcher it drives, together: the cycle     *)
(* begins with a timer of OutboxWorker, claims and delivers as in Outbox,  *)
(* and ends when every claimed item is settled. The process may be stopped *)
(* or may die at any moment and is started again.                          *)
(***************************************************************************)
EXTENDS OutboxWorker

CONSTANTS Ids, Intents, Me, MaxAttempts, BatchSize \* as in Outbox; Me is the worker

ASSUME DispatcherAssumption ==
  /\ MaxAttempts \in Nat \ {0} /\ BatchSize \in Nat \ {0}
  /\ \A it \in Intents : it.id \in Ids

VARIABLES
  status, attempts, lease, minted, lastError, intent, isolated, \* Outbox: the table
  due, asked, accepted, refused, item,                          \* Outbox: time, provider, items
  dispatch                                                      \* the progress of dispatchOnce

Box == INSTANCE Outbox WITH Workers <- {Me}

rows == <<status, attempts, lease, minted, lastError, intent, isolated>>
box == <<rows, due, asked, accepted, refused, item>>
loopVars == <<vars, box, dispatch>>

LoopInit == Init /\ Box!Init /\ dispatch = "none"

-----------------------------------------------------------------------------
(* dispatchOnce. *)

Begin ==
  /\ DispatchBegins
  /\ dispatch' = "begun"
  /\ UNCHANGED box

ClaimBatch ==
  /\ dispatch = "begun"
  /\ Box!ClaimSome(Me)
  /\ dispatch' = "claimed"
  /\ UNCHANGED vars

ClaimNothing ==
  /\ dispatch = "begun"
  /\ Box!ExpiredFinal = {} /\ Box!Eligible = {}
  /\ dispatch' = "nothing"
  /\ UNCHANGED <<vars, box>>

ClaimBusy ==
  /\ dispatch = "begun"
  /\ dispatch' = "busy"
  /\ UNCHANGED <<vars, box>>

\* The items of the claimed batch, each on its own way to its settlement.
Deliver(i) ==
  /\ Box!Send(Me, i) \/ Box!RespondSome(Me, i) \/ Box!Settle(Me, i)
  /\ UNCHANGED <<vars, dispatch>>

\* Mutant: the dispatch returns when the claim does, not when its items are settled.
AllSettledAssumed == TRUE

AllSettled == \A i \in Ids : item[Me][i] = Box!Idle

EndDispatch ==
  /\ dispatch \in {"claimed", "nothing", "busy"} /\ AllSettled
  /\ \/ DispatchEndsStopped
     \/ \E delay \in Delays, setFails \in BOOLEAN : DispatchEnds(dispatch = "busy", delay, setFails)
  /\ dispatch' = "none"
  /\ UNCHANGED box

-----------------------------------------------------------------------------
(* Everything around it. *)

\* start, wake, stop and the timers that find nothing to do.
Around == Call /\ UNCHANGED <<box, dispatch>>

\* The process dies: the loop and the items in flight are gone, the rows stay as they are.
Die ==
  /\ running \/ inFlight
  /\ running' = FALSE /\ inFlight' = FALSE /\ wakePending' = FALSE /\ stopPending' = FALSE
  /\ timer' = NoTimer /\ ghosts' = 0 /\ busyStreak' = 0 /\ live' = 0 /\ wakeOwed' = FALSE
  /\ item' = [item EXCEPT ![Me] = [i \in Ids |-> Box!Idle]]
  /\ dispatch' = "none"
  /\ UNCHANGED <<rows, due, asked, accepted, refused>>

Outside ==
  /\ \/ \E it \in Intents, isolate \in BOOLEAN : Box!Enqueue(it, isolate)
     \/ \E c \in asked : Box!ProviderAccepts(c[1], c[2]) \/ Box!ProviderRefuses(c[1], c[2])
     \/ \E i \in Ids : Box!DeadlinePasses(i)
  /\ UNCHANGED <<vars, dispatch>>

LoopNext ==
  \/ Begin \/ ClaimBatch \/ ClaimNothing \/ ClaimBusy \/ EndDispatch
  \/ \E i \in Ids : Deliver(i)
  \/ Around \/ Die \/ Outside

\* A stopped or dead worker is started again and a timer that keeps being armed fires some
\* time; the store is not busy for ever; the delivery timer ends every call, whatever the
\* provider does; clocks advance.
LoopFairness ==
  /\ WF_loopVars(Start(FALSE) /\ UNCHANGED <<box, dispatch>>)
  /\ SF_loopVars(Begin)
  /\ SF_loopVars(ClaimBatch)
  /\ WF_loopVars(ClaimNothing)
  /\ WF_loopVars(EndDispatch)
  /\ \A i \in Ids : WF_loopVars(Deliver(i))
  /\ \A i \in Ids : WF_loopVars(Box!DeadlinePasses(i) /\ UNCHANGED <<vars, dispatch>>)

LoopSpec == LoopInit /\ [][LoopNext]_loopVars /\ LoopFairness

-----------------------------------------------------------------------------
(* Properties. *)

\* When stop has resolved no item of a batch is still being delivered or settled, whatever
\* timers and wakes were about: the store may be closed.
StoppedMeansSettled ==
  ~running /\ ~stopPending =>
    dispatch = "none" /\ \A i \in Ids : item[Me][i].stage = "idle"

\* Every notification that is not withheld is in the end sent or dead-lettered, however
\* often the worker is stopped or dies, timers throw, the store is busy or answers are lost.
EventuallyResolved ==
  \A i \in Ids : (status[i] = "pending" /\ i \notin isolated) ~> (status[i] \in Box!Terminal)

=============================================================================
