----------------------------- MODULE KioskQueue -----------------------------
(***************************************************************************)
(* The offline queue of a kiosk: browser tabs that share one localStorage, *)
(* record what the operator does, replay it to the server of RunEvents and *)
(* forget an event only once the server has it.                            *)
(*                                                                         *)
(* localStorage has no transactions, so a commit is a sequence of writes   *)
(* between which another tab runs, a write fails or the tab dies.  The     *)
(* control lock of the page is a convenience and not relied on here: every *)
(* tab may record and replay at any time.                                  *)
(***************************************************************************)
EXTENDS RunEvents

CONSTANTS
  Tabs,      \* browser tabs of one kiosk profile
  Own,       \* the events the kiosk may record; the rest come from elsewhere
  Item,      \* the schedule item the kiosk shows
  Faults     \* which faults happen: "crash", "write"

NoEvent == "none"

ASSUME OwnAssumption == Own \subseteq Events /\ IsFiniteSet(Own) /\ NoEvent \notin Own
ASSUME ItemAssumption == Item \in Items
ASSUME FaultsAssumption == Faults \subseteq {"crash", "write"}

VARIABLES
  marker,   \* sequence marker records: localSequence -> event id, kept for ever
  items,    \* item records, by event id
  terminal, \* terminal marker records: the final syncStatus of an event
  command,  \* per event: the immutable command, its local sequence and, as history, the
            \* events whose recording had been confirmed before
  told,     \* what enqueue answered the operator
  tab,      \* per tab: what it is doing
  seen,     \* per tab: the server's run as of its last refresh
  stray     \* events whose request is still under way though its sender gave up

storageVars == <<marker, items, terminal>>
queueVars == <<storageVars, command, told, tab, seen, stray>>
allVars == <<serverVars, queueVars>>

Sequences == 0 .. Cardinality(Own) - 1
NoCommand == [sequence |-> -1, prior |-> {}]
Verdicts == {"applied", "review", "conflict", "reuse", "integrity"}

Idle == [at |-> "idle", event |-> NoEvent, verdict |-> "none"]

\* What the server's model of the item says; "gone" when it is no longer on offer.
NothingSeen == [status |-> "gone"]
Sights == {NothingSeen} \cup [status : {"scheduled"}, rev : {0}]
                        \cup [status : States, rev : Nat, run : Runs]

QueueTypeOK ==
  /\ ServerTypeOK
  /\ marker \in [Sequences -> Own \cup {NoEvent}]
  /\ items \subseteq Own
  /\ terminal \in [Own -> {"none", "conflict", "review"}]
  /\ command \in [Own -> [sequence : Sequences, prior : SUBSET Own, cmd : Commands]
                            \cup {NoCommand}]
  /\ told \in [Own -> {"none", "ok", "failed"}]
  /\ tab \in [Tabs -> [at : {"idle", "mark", "item", "meta", "waiting", "handled",
                             "removing", "closing"},
                       event : Own \cup {NoEvent}, verdict : Verdicts \cup {"none"}]]
  /\ \A t \in Tabs :
       /\ tab[t].event = NoEvent <=> tab[t].at = "idle"
       /\ tab[t].verdict = "none" <=> tab[t].at \notin {"handled", "removing", "closing"}
  /\ seen \in [Tabs -> Sights]
  /\ stray \subseteq Own

-----------------------------------------------------------------------------
(* The stored queue, as a tab loads it. *)

Sequence(e) == command[e].sequence
NextSequence == Cardinality({n \in Sequences : \E m \in Sequences : m >= n /\ marker[m] # NoEvent})
First(S) == CHOOSE e \in S : \A f \in S : Sequence(e) <= Sequence(f)
Head == First(items)

\* loadFromRecords and validateQueueState: every item is the one its sequence marker names,
\* and the items run without a gap up to the next free sequence.
ReadableWith(S) ==
  /\ \A e \in S : marker[Sequence(e)] = e
  /\ S # {} => \A n \in Sequence(First(S)) .. NextSequence - 1 : \E e \in S : Sequence(e) = n

Readable == ReadableWith(items)

Stopped == items # {} /\ terminal[Head] # "none"

\* The item as the server offers it.
ServerRun ==
  IF Item \in cancelled THEN NothingSeen
  ELSE IF RunsOf(Item) = {} THEN [status |-> "scheduled", rev |-> 0]
  ELSE LET r == CHOOSE r \in RunsOf(Item) : TRUE
       IN [status |-> run[r].status, rev |-> run[r].rev, run |-> r]

\* deriveKioskActionState: the pending items must continue the server's run one by one;
\* what they predict is what the operator may do next.
Predicts(t, status, rev, r) ==
  LET base == seen[t]
      n == Cardinality(items)
      pending(k) == command[CHOOSE e \in items : Sequence(e) = Sequence(Head) + k - 1].cmd
      state[k \in 0 .. n] ==
        IF k = 0 THEN base.status ELSE NextState(state[k - 1], pending(k).type)
  IN /\ base.status # "gone"
     /\ \A k \in 1 .. n : pending(k).expected = base.rev + k - 1 /\ state[k] # "none"
     /\ \A k \in 1 .. n : base.status # "scheduled" => pending(k).run = base.run
     /\ \A j, k \in 1 .. n : pending(j).run = pending(k).run
     /\ status = state[n]
     /\ rev = base.rev + n
     /\ IF base.status # "scheduled" THEN r = base.run
        ELSE IF n > 0 THEN r = pending(1).run
        ELSE \A e \in Own : command[e] # NoCommand => command[e].cmd.run # r

QueueInit ==
  /\ ServerInit
  /\ marker = [n \in Sequences |-> NoEvent]
  /\ items = {}
  /\ terminal = [e \in Own |-> "none"]
  /\ command = [e \in Own |-> NoCommand]
  /\ told = [e \in Own |-> "none"]
  /\ tab = [t \in Tabs |-> Idle]
  /\ seen = [t \in Tabs |-> NothingSeen]
  /\ stray = {}

-----------------------------------------------------------------------------
(* Recording an event. *)

Goes(t, stage) == tab' = [tab EXCEPT ![t].at = stage]
Rests(t) == tab' = [tab EXCEPT ![t] = Idle]

Refresh(t) ==
  /\ tab[t] = Idle
  /\ seen' = [seen EXCEPT ![t] = ServerRun]
  /\ UNCHANGED <<serverVars, storageVars, command, told, tab, stray>>

Enqueue(t, e, type, r) ==
  /\ tab[t] = Idle
  /\ Readable /\ ~Stopped
  /\ command[e] = NoCommand
  /\ NextSequence \in Sequences
  /\ \E status \in States, rev \in 0 .. MaxRevision, at \in Times :
       /\ Predicts(t, status, rev, r)
       /\ NextState(status, type) # "none"
       /\ command' = [command EXCEPT ![e] =
            [sequence |-> NextSequence,
             prior |-> {f \in Own : told[f] = "ok"},
             cmd |-> [event |-> e, run |-> r, item |-> Item, type |-> type,
                      expected |-> rev, at |-> at]]]
  /\ tab' = [tab EXCEPT ![t] = [Idle EXCEPT !.at = "mark", !.event = e]]
  /\ UNCHANGED <<serverVars, storageVars, told, seen, stray>>

\* The marker is looked up and then written: another tab's marker in between is overwritten.
WriteMarker(t) ==
  /\ tab[t].at = "mark"
  /\ marker' = [marker EXCEPT ![Sequence(tab[t].event)] = tab[t].event]
  /\ Goes(t, "item")
  /\ UNCHANGED <<serverVars, items, terminal, command, told, seen, stray>>

WriteItem(t) ==
  /\ tab[t].at = "item"
  /\ items' = items \cup {tab[t].event}
  /\ Goes(t, "meta")
  /\ UNCHANGED <<serverVars, marker, terminal, command, told, seen, stray>>

\* The meta record holds nothing the markers do not imply; the state is loaded once more.
WriteMeta(t) ==
  /\ tab[t].at = "meta"
  /\ told' = [told EXCEPT ![tab[t].event] = IF Readable THEN "ok" ELSE "failed"]
  /\ Rests(t)
  /\ UNCHANGED <<serverVars, storageVars, command, seen, stray>>

\* A write throws, or the lookup finds a marker that another tab has just set.
EnqueueFails(t) ==
  /\ tab[t].at \in {"mark", "item", "meta"}
  /\ "write" \in Faults \/ (tab[t].at = "mark" /\ marker[Sequence(tab[t].event)] # NoEvent)
  /\ told' = [told EXCEPT ![tab[t].event] = "failed"]
  /\ Rests(t)
  /\ UNCHANGED <<serverVars, storageVars, command, seen, stray>>

-----------------------------------------------------------------------------
(* Replaying the queue. *)

Replayable == Readable /\ items # {} /\ ~Stopped

\* The refresh has answered and the storage is loaded anew.
ReplayBegins(t) ==
  /\ tab[t] = Idle
  /\ Replayable
  /\ seen' = [seen EXCEPT ![t] = ServerRun]
  /\ tab' = [tab EXCEPT ![t] = [Idle EXCEPT !.at = "waiting", !.event = Head]]
  /\ UNCHANGED <<serverVars, storageVars, command, told, stray>>

ServerHandles(t, timely) ==
  /\ tab[t].at = "waiting"
  /\ LET cmd == command[tab[t].event].cmd
     IN /\ Receive(cmd, timely)
        /\ tab' = [tab EXCEPT ![t].at = "handled", ![t].verdict = Verdict(cmd, timely)]
  /\ UNCHANGED <<storageVars, command, told, seen, stray>>

\* A request overtaken by its sender's timeout or death arrives after all.
StrayArrives(e, timely) ==
  /\ e \in stray
  /\ Receive(command[e].cmd, timely)
  /\ stray' = stray \ {e}
  /\ UNCHANGED <<storageVars, command, told, tab, seen>>

\* The request or its answer is lost, or the answer is a 5xx, a 401 or 403 or malformed.
NoAnswer(t) ==
  /\ tab[t].at \in {"waiting", "handled"}
  /\ \E left \in {{}, {tab[t].event}} :
       stray' = IF tab[t].at = "waiting" THEN stray \cup left ELSE stray
  /\ Rests(t)
  /\ UNCHANGED <<serverVars, storageVars, command, told, seen>>

\* Mutant: the answer to the last head is kept when the loop turns to the next one.
LoopOnKeeping(t, rest) ==
  IF rest = {} THEN Rests(t)
  ELSE tab' = [tab EXCEPT ![t].at = "waiting", ![t].event = First(rest)]

\* The loop goes on with the state it holds, whether or not that state is stopped.
LoopOn(t, rest) ==
  IF rest = {} THEN Rests(t)
  ELSE tab' = [tab EXCEPT ![t] = [Idle EXCEPT !.at = "waiting", !.event = First(rest)]]

Answered(t) == tab[t].at = "handled" /\ tab[t].verdict # "integrity"

\* Another tab has removed the head meanwhile.
HeadGone(t) ==
  /\ Answered(t)
  /\ Readable
  /\ tab[t].event \notin items
  /\ LoopOn(t, items)
  /\ UNCHANGED <<serverVars, storageVars, command, told, seen, stray>>

\* Mutant: a refusal leaves the queue just as success does.
DisposesAny(t) == "removing"

\* Mutant: a refused head is left in place, to be sent again.
DisposesByRetrying(t) ==
  IF tab[t].verdict = "applied" /\ ~Stopped THEN "removing" ELSE "idle"

\* What the loop does with the head it finds again in storage.
Disposes(t) ==
  IF tab[t].verdict # "applied" THEN "closing"
  ELSE IF Stopped THEN "idle" ELSE "removing"

Reload(t) ==
  /\ Answered(t)
  /\ Readable
  /\ items # {} /\ tab[t].event = Head
  /\ IF Disposes(t) = "idle" THEN Rests(t) ELSE Goes(t, Disposes(t))
  /\ UNCHANGED <<serverVars, storageVars, command, told, seen, stray>>

\* The storage is unreadable, the head is no longer the head, or the server could not
\* verify its receipt: the replay gives up and leaves everything in place.
GiveUp(t) ==
  /\ tab[t].at = "handled"
  /\ \/ tab[t].verdict = "integrity"
     \/ ~Readable
     \/ tab[t].event \in items /\ tab[t].event # Head
  /\ Rests(t)
  /\ UNCHANGED <<serverVars, storageVars, command, told, seen, stray>>

\* The commit that removes the head removes that item and its terminal marker, whatever
\* other tabs have written since the reload.
Remove(t) ==
  /\ tab[t].at = "removing"
  /\ LET rest == items \ {tab[t].event}
     IN /\ items' = rest
        /\ terminal' = [terminal EXCEPT ![tab[t].event] = "none"]
        /\ \/ ReadableWith(rest) /\ LoopOn(t, rest)
           \/ ("write" \in Faults \/ ~ReadableWith(rest)) /\ Rests(t)
  /\ UNCHANGED <<serverVars, marker, command, told, seen, stray>>

\* The commit that stops the queue writes a terminal marker only for the current head, and
\* only if there is none.
Close(t) ==
  /\ tab[t].at = "closing"
  /\ terminal' =
       IF Readable /\ items # {} /\ Head = tab[t].event /\ ~Stopped
       THEN [terminal EXCEPT ![tab[t].event] =
               IF tab[t].verdict = "review" THEN "review" ELSE "conflict"]
       ELSE terminal
  /\ Rests(t)
  /\ UNCHANGED <<serverVars, marker, items, command, told, seen, stray>>

\* The tab is closed or its process dies, whatever it is doing; reopened, it has seen nothing.
Crash(t) ==
  /\ "crash" \in Faults
  /\ tab[t] # Idle
  /\ \E left \in {{}, {tab[t].event}} :
       stray' = IF tab[t].at = "waiting" THEN stray \cup left ELSE stray
  /\ Rests(t)
  /\ seen' = [seen EXCEPT ![t] = NothingSeen]
  /\ UNCHANGED <<serverVars, storageVars, command, told>>

-----------------------------------------------------------------------------
\* Another device records, or the owner cancels. What another device has filed for review
\* touches nothing this queue depends on.
OthersAct ==
  /\ \/ \E cmd \in Commands : cmd.event \notin Own /\ ApplyEvent(cmd)
     \/ \E i \in TaskItems : CancelItem(i)
  /\ UNCHANGED queueVars

TabStep(t) ==
  \/ \E e \in Own, type \in Types, r \in Runs : Enqueue(t, e, type, r)
  \/ WriteMarker(t) \/ WriteItem(t) \/ WriteMeta(t) \/ EnqueueFails(t)
  \/ ReplayBegins(t)
  \/ \E timely \in BOOLEAN : ServerHandles(t, timely)
  \/ HeadGone(t) \/ Reload(t) \/ GiveUp(t) \/ Remove(t) \/ Close(t)

QueueNext ==
  \/ \E t \in Tabs : TabStep(t) \/ Refresh(t) \/ NoAnswer(t) \/ Crash(t)
  \/ \E e \in Own, timely \in BOOLEAN : StrayArrives(e, timely)
  \/ OthersAct

QueueSpec == QueueInit /\ [][QueueNext]_allVars

Answer(t) == HeadGone(t) \/ Reload(t) \/ GiveUp(t)

\* A tab finishes what it began to record, and polls: while it is idle it replays in the end.
\* The network is not dead for ever, and no tab is closed each time at the same step: a
\* request that is sent time and again is handled, and an answer given time and again is
\* acted on.
QueueFairness ==
  \A t \in Tabs :
    /\ WF_allVars(WriteMarker(t) \/ WriteItem(t) \/ WriteMeta(t))
    /\ WF_allVars(ReplayBegins(t))
    /\ SF_allVars(\E timely \in BOOLEAN : ServerHandles(t, timely))
    /\ SF_allVars(Answer(t))
    /\ SF_allVars(Remove(t))
    /\ SF_allVars(Close(t))

FairQueueSpec == QueueSpec /\ QueueFairness

-----------------------------------------------------------------------------
(* Properties. *)

Accepted(e) == receipt[e].kind = "accepted"

\* An event whose recording was confirmed to the operator is in the queue until the server
\* has applied it, through crashes, failed writes and concurrent tabs.
NothingLost == \A e \in Own : told[e] = "ok" => e \in items \/ Accepted(e)

\* Events reach the run in the order they were recorded, none skipped: an applied event
\* has every event confirmed before it was recorded applied before it.
InOrder ==
  \A e \in Own : Accepted(e) =>
    \A f \in command[e].prior : Accepted(f) /\ fact[f].projection < fact[e].projection

\* What the kiosk shows as final is what the server holds: an event in conflict is never
\* applied, not even by a request that arrives late, and one under review is filed.
VerdictIsTrue ==
  \A e \in items :
    /\ terminal[e] = "conflict" => ~Accepted(e)
    /\ terminal[e] = "review" => receipt[e].kind = "review"

\* No event is left waiting: one whose recording was confirmed is in the end applied, or the
\* queue stops at an event the operator is shown as final, or is shown as unreadable.
EventuallySettled ==
  \A e \in Own : told[e] = "ok" ~> Accepted(e) \/ Stopped \/ ~Readable

\* Documented (WO-03): after a refresh or a crash the pending queue can be recovered: when
\* no tab is at work, a queue that holds events can be read.
PendingQueueRecovers == (\A t \in Tabs : tab[t] = Idle) /\ items # {} => Readable

\* Documented (ADP-021): when localStorage cannot be written, the event must not be sent.
FailedWriteIsNotSent == \A e \in Own : told[e] = "failed" => receipt[e] = NoReceipt

=============================================================================
