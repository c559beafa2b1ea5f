-------------------------- MODULE OutboxLoopProofs --------------------------
(***************************************************************************)
(* Machine-checked proofs about OutboxLoop, for every delay policy, every  *)
(* number of forgotten timers and every outbox: the worker has exactly one *)
(* cycle to come, stop waits for the items, and the loop uses the outbox   *)
(* as Outbox allows, so what OutboxProofs shows holds of the loop.         *)
(***************************************************************************)
EXTENDS OutboxLoop, TLAPS

Table == INSTANCE OutboxProofs WITH Workers <- {Me}

(***************************************************************************)
(* The inductive invariant.  A cycle is either planned, by a timer, or in  *)
(* flight, never both; a stopped worker has neither, except for the        *)
(* dispatch its stop waits for.  An accepted wake is remembered by the     *)
(* flag while a dispatch is in flight and by the timer otherwise.          *)
(***************************************************************************)
WorkerInv ==
  /\ TypeOK
  /\ OneCycle
  /\ stopPending <=> inFlight /\ ~running
  /\ wakePending <=> inFlight /\ wakeOwed
  /\ inFlight \/ ~running => timer = NoTimer
  /\ wakeOwed => running

\* An item is open only between the claim and the end of the dispatch.
DispatchInv ==
  /\ dispatch \in {"none", "begun", "claimed", "nothing", "busy"}
  /\ dispatch # "none" <=> inFlight
  /\ dispatch # "claimed" => AllSettled
  /\ item \in [{Me} -> [Ids -> Box!Item]]
  /\ minted \in [Ids -> Nat]

LoopInv == WorkerInv /\ DispatchInv

-----------------------------------------------------------------------------
(* The worker. *)

\* A delay is a number, so it is never NoTimer; after a long streak it stays at BusyMax.
LEMMA DelaysTypeOK ==
  /\ Delays \subseteq Nat
  /\ BusyDelay(StreakCap) = BusyDelay(StreakCap - 1)
<1>1. ASSUME NEW streak \in 0 .. StreakCap
      PROVE  BusyDelay(streak) \in Nat
  <2>1. PICK p \in Nat : p = 2 ^ streak
    BY PowersAssumption
  <2>2. BusyBase * p \in Nat
    BY PolicyAssumption
  <2> QED
    BY <2>1, <2>2, PolicyAssumption DEF BusyDelay
<1>2. BusyDelay(StreakCap) = BusyMax /\ BusyDelay(StreakCap - 1) = BusyMax
  <2>1. StreakCap - 1 \in 0 .. StreakCap
    BY BoundsAssumption
  <2>2. PICK p \in Nat : p = 2 ^ (StreakCap - 1)
    BY <2>1, PowersAssumption
  <2>3. PICK d \in Nat : d = BusyBase * p
    BY PolicyAssumption
  <2>4. BusyBase * 2 ^ StreakCap = d + d
    <3>1. BusyBase * (2 * p) = d + d
      BY <2>3, PolicyAssumption
    <3> QED
      BY <2>2, <3>1, PowersAssumption
  <2>5. d >= BusyMax
    BY <2>2, <2>3, BoundsAssumption
  <2> QED
    BY <2>2, <2>3, <2>4, <2>5, PolicyAssumption DEF BusyDelay
<1> QED
  BY <1>1, <1>2, PolicyAssumption DEF Delays

LEMMA Zeros == 0 \in 0 .. StreakCap /\ 0 \in 0 .. MaxGhosts
  BY BoundsAssumption

\* A timer that was not armed is now, unless setTimer threw and the worker stopped.
LEMMA StartPreserves ==
  ASSUME WorkerInv, NEW setFails \in BOOLEAN, Start(setFails)
  PROVE  WorkerInv'
<1>1. /\ timer = NoTimer /\ ~wakeOwed /\ live = 0
      /\ ghosts' = ghosts /\ live' = 0 /\ busyStreak' = 0
      /\ timer' = IF setFails THEN NoTimer ELSE 0
  BY DEF WorkerInv, OneCycle, SingleFlight, Start, Schedule
<1>2. /\ running' = ~setFails /\ inFlight' = FALSE /\ wakePending' = FALSE
      /\ stopPending' = FALSE /\ wakeOwed' = FALSE
  BY DEF WorkerInv, TypeOK, Start, Schedule
<1>3. CASE setFails
  <2>1. running' = FALSE /\ timer' = NoTimer
    BY <1>1, <1>2, <1>3
  <2>2. TypeOK'
    BY <1>1, <1>2, <2>1, Zeros DEF WorkerInv, TypeOK
  <2> QED
    BY <1>1, <1>2, <2>1, <2>2 DEF WorkerInv, OneCycle, SingleFlight, CyclePlanned
<1>4. CASE ~setFails
  <2>1. running' = TRUE /\ timer' = 0
    BY <1>1, <1>2, <1>4
  <2>2. TypeOK'
    BY <1>1, <1>2, <2>1, Zeros DEF WorkerInv, TypeOK, Delays
  <2> QED
    BY <1>1, <1>2, <2>1, <2>2 DEF WorkerInv, OneCycle, SingleFlight, CyclePlanned, NoTimer
<1> QED
  BY <1>3, <1>4

LEMMA WakePreserves ==
  ASSUME WorkerInv,
         \/ WakeInFlight
         \/ \E clearFails, setFails \in BOOLEAN :
              (clearFails => CanForget) /\ WakeIdle(clearFails, setFails)
  PROVE  WorkerInv'
<1>1. CASE WakeInFlight
  BY <1>1 DEF WorkerInv, TypeOK, OneCycle, SingleFlight, CyclePlanned, WakeInFlight, NoTimer
<1>2. ASSUME NEW clearFails \in BOOLEAN, NEW setFails \in BOOLEAN,
             clearFails => CanForget, WakeIdle(clearFails, setFails)
      PROVE  WorkerInv'
  <2>1. ghosts' \in 0 .. MaxGhosts
    BY <1>2, BoundsAssumption
    DEF WorkerInv, TypeOK, WakeIdle, ClearScheduledTimer, CanForget
  <2>2. /\ live = 0 /\ live' = 0 /\ busyStreak' = busyStreak
        /\ timer' = IF setFails THEN NoTimer ELSE 0
    BY <1>2 DEF WorkerInv, OneCycle, SingleFlight, WakeIdle, Schedule
  <2>3. /\ running' = ~setFails /\ inFlight' = FALSE /\ wakePending' = FALSE
        /\ stopPending' = FALSE /\ wakeOwed' = ~setFails
    BY <1>2 DEF WorkerInv, TypeOK, WakeIdle, Schedule
  <2>4. CASE setFails
    <3>1. running' = FALSE /\ timer' = NoTimer /\ wakeOwed' = FALSE
      BY <2>2, <2>3, <2>4
    <3>2. TypeOK'
      BY <2>1, <2>2, <2>3, <3>1 DEF WorkerInv, TypeOK
    <3> QED
      BY <2>2, <2>3, <3>1, <3>2 DEF WorkerInv, OneCycle, SingleFlight, CyclePlanned
  <2>5. CASE ~setFails
    <3>1. running' = TRUE /\ timer' = 0 /\ wakeOwed' = TRUE
      BY <2>2, <2>3, <2>5
    <3>2. TypeOK'
      BY <2>1, <2>2, <2>3, <3>1 DEF WorkerInv, TypeOK, Delays
    <3> QED
      BY <2>2, <2>3, <3>1, <3>2 DEF WorkerInv, OneCycle, SingleFlight, CyclePlanned, NoTimer
  <2> QED
    BY <2>4, <2>5
<1> QED
  BY <1>1, <1>2

LEMMA StopPreserves ==
  ASSUME WorkerInv, NEW clearFails \in BOOLEAN, clearFails => CanForget, Stop(clearFails)
  PROVE  WorkerInv'
<1>1. ghosts' \in 0 .. MaxGhosts
  BY BoundsAssumption DEF WorkerInv, TypeOK, Stop, ClearScheduledTimer, CanForget
<1> QED
  BY <1>1
  DEF WorkerInv, TypeOK, OneCycle, SingleFlight, CyclePlanned, Stop, NoTimer

LEMMA TimerPreserves ==
  ASSUME WorkerInv, TimerIgnored \/ DispatchBegins
  PROVE  WorkerInv'
<1>1. ghosts' \in 0 .. MaxGhosts /\ timer' = NoTimer
  BY BoundsAssumption DEF WorkerInv, TypeOK, TimerIgnored, DispatchBegins, TimerLeaves
<1>2. CASE TimerIgnored
  BY <1>1, <1>2
  DEF WorkerInv, TypeOK, OneCycle, SingleFlight, CyclePlanned, TimerIgnored, MayDispatch, NoTimer
<1>3. CASE DispatchBegins
  <2>1. live = 0 /\ live' = 1 /\ busyStreak' = busyStreak
    BY <1>3 DEF WorkerInv, OneCycle, SingleFlight, DispatchBegins, MayDispatch
  <2>2. /\ running' = TRUE /\ inFlight' = TRUE /\ wakePending' = FALSE
        /\ stopPending' = FALSE /\ wakeOwed' = FALSE
    BY <1>3 DEF WorkerInv, TypeOK, DispatchBegins, MayDispatch
  <2>3. TypeOK'
    BY <1>1, <2>1, <2>2 DEF WorkerInv, TypeOK
  <2> QED
    BY <1>1, <2>1, <2>2, <2>3 DEF WorkerInv, OneCycle, SingleFlight, CyclePlanned
<1> QED
  BY <1>2, <1>3

LEMMA DispatchEndPreserves ==
  ASSUME WorkerInv,
         \/ DispatchEndsStopped
         \/ \E busy, setFails \in BOOLEAN, delay \in Delays : DispatchEnds(busy, delay, setFails)
  PROVE  WorkerInv'
<1>1. CASE DispatchEndsStopped
  <2>1. /\ live' = 0 /\ UNCHANGED <<timer, ghosts, busyStreak>> /\ timer = NoTimer
    BY <1>1 DEF WorkerInv, OneCycle, SingleFlight, DispatchEndsStopped
  <2>2. /\ running' = FALSE /\ inFlight' = FALSE /\ wakePending' = FALSE
        /\ stopPending' = FALSE /\ wakeOwed' = FALSE
    BY <1>1 DEF WorkerInv, TypeOK, DispatchEndsStopped
  <2>3. TypeOK'
    BY <2>1, <2>2 DEF WorkerInv, TypeOK
  <2> QED
    BY <2>1, <2>2, <2>3 DEF WorkerInv, OneCycle, SingleFlight, CyclePlanned
<1>2. ASSUME NEW busy \in BOOLEAN, NEW setFails \in BOOLEAN, NEW delay \in Delays,
             DispatchEnds(busy, delay, setFails)
      PROVE  WorkerInv'
  <2>1. busyStreak' \in 0 .. StreakCap
    BY <1>2, BoundsAssumption DEF WorkerInv, TypeOK, DispatchEnds, NextStreak
  <2>2. inFlight /\ timer = NoTimer /\ live = 1
    BY <1>2 DEF WorkerInv, TypeOK, OneCycle, SingleFlight, DispatchEnds
  <2>3. /\ running' = ~setFails /\ timer' = (IF setFails THEN NoTimer ELSE delay)
        /\ wakePending' = FALSE /\ stopPending' = FALSE /\ inFlight' = FALSE /\ live' = 0
        /\ ghosts' = ghosts /\ wakeOwed' = (wakeOwed /\ ~setFails)
    BY <1>2, <2>2 DEF WorkerInv, TypeOK, DispatchEnds, Schedule
  <2>4. delay # NoTimer
    BY DelaysTypeOK DEF NoTimer
  <2>5. wakeOwed => delay = 0
    BY <1>2, <2>2 DEF WorkerInv, DispatchEnds, NextDelays
  <2>6. busyStreak' > 0 /\ ~wakeOwed => delay = BusyDelay(busyStreak' - 1)
    <3> SUFFICES ASSUME busyStreak' > 0, ~wakeOwed
                 PROVE  delay = BusyDelay(busyStreak' - 1)
      OBVIOUS
    <3>1. busy /\ delay = BusyDelay(busyStreak)
      BY <1>2 DEF WorkerInv, DispatchEnds, NextDelays, NextStreak
    <3>2. CASE busyStreak < StreakCap
      <4>1. busyStreak' - 1 = busyStreak
        BY <1>2, <3>1, <3>2 DEF WorkerInv, TypeOK, DispatchEnds, NextStreak
      <4> QED
        BY <3>1, <4>1
    <3>3. CASE busyStreak = StreakCap
      <4>1. busyStreak' = StreakCap
        BY <1>2, <3>1, <3>3, BoundsAssumption DEF DispatchEnds, NextStreak
      <4> QED
        BY <3>1, <3>3, <4>1, DelaysTypeOK
    <3> QED
      BY <3>2, <3>3, BoundsAssumption DEF WorkerInv, TypeOK
  <2> QED
    BY <1>2, <2>1, <2>2, <2>3, <2>4, <2>5, <2>6
    DEF WorkerInv, TypeOK, OneCycle, SingleFlight, CyclePlanned
<1> QED
  BY <1>1, <1>2

LEMMA CallPreserves == WorkerInv /\ Call => WorkerInv'
  BY StartPreserves, WakePreserves, StopPreserves, TimerPreserves DEF Call

-----------------------------------------------------------------------------
(* The dispatch and the process around it. *)

LEMMA IdleItem == Box!Idle \in Box!Item
  BY DEF Box!Idle, Box!Item, Box!Results, Box!Failures

\* A claim needs every item idle, opens those of its batch and mints their tokens.
LEMMA ClaimOpens ==
  ASSUME LoopInv, Box!ClaimSome(Me)
  PROVE  item' \in [{Me} -> [Ids -> Box!Item]] /\ minted' \in [Ids -> Nat]
<1> PICK final \in SUBSET Ids, batch \in SUBSET Ids : Box!Claim(Me, final, batch)
  BY DEF Box!ClaimSome
<1>1. \A i \in Ids : minted[i] + 1 \in Nat
  BY DEF LoopInv, DispatchInv
<1>2. [i \in Ids |->
         IF i \in batch THEN [Box!Idle EXCEPT !.stage = "claimed", !.token = minted[i] + 1]
                        ELSE Box!Idle] \in [Ids -> Box!Item]
  <2>1. \A i \in Ids :
          [Box!Idle EXCEPT !.stage = "claimed", !.token = minted[i] + 1] \in Box!Item
    BY <1>1, IdleItem DEF Box!Item
  <2> QED
    BY <2>1, IdleItem
<1> QED
  BY <1>1, <1>2 DEF LoopInv, DispatchInv, Box!Claim

\* An item that moves is open, and it is the only one that moves.
LEMMA DeliverMoves ==
  ASSUME LoopInv, NEW i \in Ids, Deliver(i)
  PROVE  /\ dispatch = "claimed"
         /\ item' \in [{Me} -> [Ids -> Box!Item]]
         /\ UNCHANGED minted
<1>1. item[Me][i] \in Box!Item
  BY DEF LoopInv, DispatchInv
<1>2. item[Me][i].stage \in {"claimed", "sending", "settling"} /\ UNCHANGED minted
  BY DEF Deliver, Box!Send, Box!RespondSome, Box!Respond, Box!Settle, Box!SettleSent,
         Box!SettleRetry, Box!SettleDead, Box!SettleTo, Box!SettleDropped, Box!rowVars
<1>4. item[Me][i] # Box!Idle
  BY <1>2 DEF Box!Idle
<1>3. \E new \in Box!Item : item' = [item EXCEPT ![Me][i] = new]
  <2>1. CASE Box!Send(Me, i)
    <3>1. [item[Me][i] EXCEPT !.stage = "sending"] \in Box!Item
      BY <1>1 DEF Box!Item
    <3>2. item' = [item EXCEPT ![Me][i] = [item[Me][i] EXCEPT !.stage = "sending"]]
      BY <2>1 DEF Box!Send, LoopInv, DispatchInv
    <3> QED
      BY <3>1, <3>2
  <2>2. CASE Box!RespondSome(Me, i)
    <3>1. PICK result \in Box!Results, clockFault \in BOOLEAN :
            Box!Respond(Me, i, result, clockFault)
      BY <2>2 DEF Box!RespondSome
    <3>2. (~clockFault /\ i \in due) \in BOOLEAN
      OBVIOUS
    <3>3. [item[Me][i] EXCEPT !.stage = "settling", !.result = result,
                              !.late = ~clockFault /\ i \in due] \in Box!Item
      BY <1>1, <3>2 DEF Box!Item
    <3> QED
      BY <3>1, <3>3 DEF Box!Respond, LoopInv, DispatchInv
  <2>3. CASE Box!Settle(Me, i)
    BY <2>3, IdleItem
    DEF Box!Settle, Box!SettleSent, Box!SettleRetry, Box!SettleDead, Box!SettleTo,
        Box!SettleDropped
  <2> QED
    BY <2>1, <2>2, <2>3 DEF Deliver
<1> QED
  BY <1>2, <1>3, <1>4 DEF LoopInv, DispatchInv, AllSettled

LEMMA DiePreserves ==
  ASSUME LoopInv, Die
  PROVE  LoopInv'
<1>1. WorkerInv'
  BY Zeros
  DEF Die, WorkerInv, TypeOK, OneCycle, SingleFlight, CyclePlanned
<1>2. DispatchInv'
  BY IdleItem DEF Die, LoopInv, DispatchInv, AllSettled, rows
<1> QED
  BY <1>1, <1>2 DEF LoopInv

LEMMA LoopStepPreserves == LoopInv /\ [LoopNext]_loopVars => LoopInv'
<1> SUFFICES ASSUME LoopInv, [LoopNext]_loopVars
             PROVE  LoopInv'
  OBVIOUS
<1>0. WorkerInv /\ DispatchInv
  BY DEF LoopInv
<1>1. CASE Begin
  <2>1. WorkerInv'
    BY <1>0, <1>1, TimerPreserves DEF Begin
  <2>2. DispatchInv'
    BY <1>0, <1>1 DEF Begin, DispatchBegins, MayDispatch, DispatchInv, AllSettled, box, rows
  <2> QED
    BY <2>1, <2>2 DEF LoopInv
<1>2. CASE ClaimBatch
  <2>1. WorkerInv'
    BY <1>0, <1>2
    DEF ClaimBatch, vars, WorkerInv, TypeOK, OneCycle, SingleFlight, CyclePlanned
  <2>2. DispatchInv'
    BY <1>0, <1>2, ClaimOpens DEF ClaimBatch, vars, DispatchInv
  <2> QED
    BY <2>1, <2>2 DEF LoopInv
<1>3. CASE ClaimNothing \/ ClaimBusy
  <2>1. WorkerInv'
    BY <1>0, <1>3
    DEF ClaimNothing, ClaimBusy, vars, WorkerInv, TypeOK, OneCycle, SingleFlight, CyclePlanned
  <2>2. DispatchInv'
    BY <1>0, <1>3 DEF ClaimNothing, ClaimBusy, vars, box, rows, DispatchInv, AllSettled
  <2> QED
    BY <2>1, <2>2 DEF LoopInv
<1>4. CASE EndDispatch
  <2>1. WorkerInv'
    <3>1. (dispatch = "busy") \in BOOLEAN
      OBVIOUS
    <3> QED
      BY <1>0, <1>4, <3>1, DispatchEndPreserves DEF EndDispatch
  <2>2. DispatchInv'
    BY <1>0, <1>4
    DEF EndDispatch, DispatchEndsStopped, DispatchEnds, DispatchInv, AllSettled, box, rows
  <2> QED
    BY <2>1, <2>2 DEF LoopInv
<1>5. ASSUME NEW i \in Ids, Deliver(i)
      PROVE  LoopInv'
  <2>1. WorkerInv'
    BY <1>0, <1>5
    DEF Deliver, vars, WorkerInv, TypeOK, OneCycle, SingleFlight, CyclePlanned
  <2>2. DispatchInv'
    BY <1>0, <1>5, DeliverMoves DEF Deliver, vars, DispatchInv
  <2> QED
    BY <2>1, <2>2 DEF LoopInv
<1>6. CASE Around
  <2>1. WorkerInv'
    BY <1>0, <1>6, CallPreserves DEF Around
  <2>2. inFlight' = inFlight
    BY <1>6
    DEF Around, Call, Start, WakeInFlight, WakeIdle, Stop, TimerIgnored
  <2>3. DispatchInv'
    BY <1>0, <1>6, <2>2 DEF Around, DispatchInv, AllSettled, box, rows
  <2> QED
    BY <2>1, <2>3 DEF LoopInv
<1>7. CASE Die
  BY <1>7, DiePreserves
<1>8. CASE Outside
  <2>1. WorkerInv'
    BY <1>0, <1>8
    DEF Outside, vars, WorkerInv, TypeOK, OneCycle, SingleFlight, CyclePlanned
  <2>2. UNCHANGED <<item, minted>>
    BY <1>8
    DEF Outside, Box!Enqueue, Box!ProviderAccepts, Box!ProviderRefuses, Box!DeadlinePasses,
        Box!rowVars
  <2>3. DispatchInv'
    BY <1>0, <1>8, <2>2 DEF Outside, vars, DispatchInv, AllSettled
  <2> QED
    BY <2>1, <2>3 DEF LoopInv
<1>9. CASE UNCHANGED loopVars
  BY <1>0, <1>9
  DEF loopVars, vars, box, rows, LoopInv, WorkerInv, DispatchInv, AllSettled, TypeOK, OneCycle,
      SingleFlight, CyclePlanned
<1> QED
  BY <1>1, <1>2, <1>3, <1>4, <1>5, <1>6, <1>7, <1>8, <1>9 DEF LoopNext

LEMMA LoopInitEstablishes == LoopInit => LoopInv
<1> SUFFICES ASSUME LoopInit
             PROVE  LoopInv
  OBVIOUS
<1>1. WorkerInv
  BY Zeros
  DEF LoopInit, Init, WorkerInv, TypeOK, OneCycle, SingleFlight, CyclePlanned
<1>2. DispatchInv
  BY IdleItem DEF LoopInit, Init, Box!Init, DispatchInv, AllSettled
<1> QED
  BY <1>1, <1>2 DEF LoopInv

\* The invariant holds of every behaviour of the loop; fairness is not used.
LEMMA LoopInductive == LoopSpec => []LoopInv
  BY LoopInitEstablishes, LoopStepPreserves, PTL DEF LoopSpec

-----------------------------------------------------------------------------
(* The properties. *)

\* Whatever order start, wake, stop, the end of a dispatch, a death of the process and timers
\* that fire although they were cancelled come in (startOutboxWorker), the worker never has
\* two cycles at once and, while it runs, never none.
THEOREM LoopHasOneCycle == LoopSpec => []OneCycle
<1>1. LoopInv => OneCycle
  BY DEF LoopInv, WorkerInv
<1> QED
  BY <1>1, LoopInductive, PTL

\* When stop has resolved no item is still being delivered or settled, so the store may be
\* closed.
THEOREM StopWaitsForItems == LoopSpec => []StoppedMeansSettled
<1>1. LoopInv => StoppedMeansSettled
  BY DEF LoopInv, WorkerInv, TypeOK, DispatchInv, AllSettled, StoppedMeansSettled, Box!Idle
<1> QED
  BY <1>1, LoopInductive, PTL

-----------------------------------------------------------------------------
(***************************************************************************)
(* The loop uses the outbox as Outbox allows: a cycle's claim, deliveries  *)
(* and settlements are steps of the one worker, a death with open items is *)
(* its crash, and everything else the loop does is no step of the table.   *)
(***************************************************************************)
LEMMA DieCrashes ==
  ASSUME LoopInv, Die
  PROVE  Box!Crash(Me) \/ UNCHANGED Box!vars
<1>1. UNCHANGED <<Box!rowVars, due, Box!providerVars>>
  BY DEF Die, rows, Box!rowVars, Box!providerVars
<1>2. CASE \E i \in Ids : item[Me][i] # Box!Idle
  BY <1>1, <1>2 DEF Die, Box!Crash
<1>3. CASE \A i \in Ids : item[Me][i] = Box!Idle
  <2>1. item[Me] = [i \in Ids |-> Box!Idle]
    BY <1>3 DEF LoopInv, DispatchInv
  <2>2. item' = item
    BY <2>1 DEF Die, LoopInv, DispatchInv
  <2> QED
    BY <1>1, <2>2 DEF Box!vars
<1> QED
  BY <1>2, <1>3

LEMMA StepOfOutbox == LoopInv /\ [LoopNext]_loopVars => [Box!Next]_(Box!vars)
<1> SUFFICES ASSUME LoopInv, [LoopNext]_loopVars
             PROVE  Box!Next \/ UNCHANGED Box!vars
  OBVIOUS
<1>1. CASE UNCHANGED box
  BY <1>1 DEF box, rows, Box!vars, Box!rowVars, Box!providerVars
<1>2. CASE ClaimBatch
  BY <1>2 DEF ClaimBatch, Box!Next
<1>3. ASSUME NEW i \in Ids, Deliver(i)
      PROVE  Box!Next
  BY <1>3 DEF Deliver, Box!Next
<1>4. CASE Die
  BY <1>4, DieCrashes DEF Box!Next
<1>5. CASE Outside
  BY <1>5 DEF Outside, Box!Next
<1> QED
  BY <1>1, <1>2, <1>3, <1>4, <1>5
  DEF LoopNext, Begin, ClaimNothing, ClaimBusy, EndDispatch, Around, loopVars

\* Composition: every behaviour of the loop, with its timers, stops and deaths, is a behaviour
\* of the outbox with the one worker Me.
THEOREM LoopImplementsOutbox == LoopSpec => Box!Spec
<1>1. LoopInit => Box!Init
  BY DEF LoopInit
<1> QED
  BY <1>1, LoopInductive, StepOfOutbox, PTL DEF LoopSpec, Box!Spec

-----------------------------------------------------------------------------
(* What OutboxProofs shows of the table, carried over to the loop. *)

\* Table is the outbox with one worker, the same as Box.
LEMMA SameOutbox ==
  /\ Box!Init => Table!Init
  /\ [Box!Next]_(Box!vars) => [Table!Next]_(Table!vars)
<1>1. ASSUME Box!Init
      PROVE  Table!Init
  BY <1>1 DEF Box!Init, Table!Init, Box!NoIntent, Table!NoIntent, Box!Idle, Table!Idle
<1>2. ASSUME NEW it \in Intents, NEW isolate \in BOOLEAN, Box!Enqueue(it, isolate)
      PROVE  Table!Enqueue(it, isolate)
  BY <1>2
  DEF Box!Enqueue, Table!Enqueue, Box!Enqueueable, Table!Enqueueable, Box!Rows, Table!Rows,
      Box!providerVars, Table!providerVars
<1>3. ASSUME Box!ClaimSome(Me)
      PROVE  Table!ClaimSome(Me)
  BY <1>3
  DEF Box!ClaimSome, Table!ClaimSome, Box!Claim, Table!Claim, Box!TakenFrom, Table!TakenFrom,
      Box!Cardinality, Table!Cardinality, Box!ExpiredFinal, Table!ExpiredFinal, Box!Eligible, Table!Eligible, Box!Idle, Table!Idle,
      Box!providerVars, Table!providerVars
<1>4. ASSUME Box!Crash(Me)
      PROVE  Table!Crash(Me)
  BY <1>4
  DEF Box!Crash, Table!Crash, Box!Idle, Table!Idle, Box!rowVars, Table!rowVars,
      Box!providerVars, Table!providerVars
<1>5. ASSUME NEW i \in Ids, Box!Send(Me, i)
      PROVE  Table!Send(Me, i)
  BY <1>5 DEF Box!Send, Table!Send, Box!rowVars, Table!rowVars
<1>6. ASSUME NEW i \in Ids, Box!RespondSome(Me, i)
      PROVE  Table!RespondSome(Me, i)
  BY <1>6
  DEF Box!RespondSome, Table!RespondSome, Box!Respond, Table!Respond, Box!Results,
      Table!Results, Box!DeliveryResults, Table!DeliveryResults, Box!Failures, Table!Failures,
      Box!rowVars, Table!rowVars, Box!providerVars, Table!providerVars
<1>7. ASSUME NEW i \in Ids, Box!Settle(Me, i)
      PROVE  Table!Settle(Me, i)
  <2>1. ASSUME NEW newStatus, NEW error, Box!SettleTo(Me, i, newStatus, error)
        PROVE  Table!SettleTo(Me, i, newStatus, error)
    BY <2>1
    DEF Box!SettleTo, Table!SettleTo, Box!HoldsLease, Table!HoldsLease, Box!Idle, Table!Idle,
        Box!providerVars, Table!providerVars
  <2>2. CASE Box!SettleSent(Me, i)
    BY <2>1, <2>2 DEF Box!SettleSent, Table!SettleSent, Table!Settle
  <2>3. CASE Box!SettleRetry(Me, i)
    BY <2>1, <2>3
    DEF Box!SettleRetry, Table!SettleRetry, Box!MayRetry, Table!MayRetry, Table!Settle
  <2>4. CASE Box!SettleDead(Me, i)
    BY <2>1, <2>4
    DEF Box!SettleDead, Table!SettleDead, Box!MayRetry, Table!MayRetry, Box!Failures,
        Table!Failures, Table!Settle
  <2>5. CASE Box!SettleDropped(Me, i)
    BY <2>5
    DEF Box!SettleDropped, Table!SettleDropped, Table!Settle, Box!Idle, Table!Idle,
        Box!rowVars, Table!rowVars, Box!providerVars, Table!providerVars
  <2> QED
    BY <1>7, <2>2, <2>3, <2>4, <2>5 DEF Box!Settle
<1>8. ASSUME NEW c \in asked, Box!ProviderAccepts(c[1], c[2]) \/ Box!ProviderRefuses(c[1], c[2])
      PROVE  Table!ProviderAccepts(c[1], c[2]) \/ Table!ProviderRefuses(c[1], c[2])
  BY <1>8
  DEF Box!ProviderAccepts, Table!ProviderAccepts, Box!ProviderRefuses, Table!ProviderRefuses,
      Box!rowVars, Table!rowVars
<1>9. ASSUME NEW i \in Ids, Box!DeadlinePasses(i)
      PROVE  Table!DeadlinePasses(i)
  BY <1>9
  DEF Box!DeadlinePasses, Table!DeadlinePasses, Box!rowVars, Table!rowVars, Box!providerVars,
      Table!providerVars
<1>10. UNCHANGED Box!vars => UNCHANGED Table!vars
  BY DEF Box!vars, Table!vars, Box!rowVars, Table!rowVars, Box!providerVars, Table!providerVars
<1>11. ASSUME Box!Next
       PROVE  Table!Next
  <2>1. CASE \E it \in Intents, isolate \in BOOLEAN : Box!Enqueue(it, isolate)
    BY <1>2, <2>1 DEF Table!Next
  <2>2. CASE \E w \in {Me} : Box!ClaimSome(w) \/ Box!Crash(w)
    BY <1>3, <1>4, <2>2 DEF Table!Next
  <2>3. CASE \E w \in {Me}, i \in Ids : Box!Send(w, i) \/ Box!RespondSome(w, i) \/ Box!Settle(w, i)
    BY <1>5, <1>6, <1>7, <2>3 DEF Table!Next
  <2>4. CASE \E c \in asked : Box!ProviderAccepts(c[1], c[2]) \/ Box!ProviderRefuses(c[1], c[2])
    BY <1>8, <2>4 DEF Table!Next
  <2>5. CASE \E i \in Ids : Box!DeadlinePasses(i)
    BY <1>9, <2>5 DEF Table!Next
  <2> QED
    BY <1>11, <2>1, <2>2, <2>3, <2>4, <2>5 DEF Box!Next
<1> QED
  BY <1>1, <1>10, <1>11

\* However often the loop is stopped, dies and is started again, whatever timers fire: a row
\* is sent only if the provider accepted the card, given up only with its budget spent or
\* after a fatal answer, and no fact is offered more than MaxAttempts times.
THEOREM LoopKeepsTheTable ==
  LoopSpec => [](Table!SentOnlyIfAccepted /\ Table!NoPrematureDeadLetter /\ Table!BudgetPerFact)
<1>1. Box!Spec => Table!Spec
  BY SameOutbox, PTL DEF Box!Spec, Table!Spec
<1>2. /\ Table!Spec => []Table!SentOnlyIfAccepted
      /\ Table!Spec => []Table!NoPrematureDeadLetter
      /\ Table!Spec => []Table!BudgetPerFact
  BY DispatcherAssumption, Table!SentIsSound, Table!DeadLetterIsJustified, Table!BudgetIsKept
<1> QED
  BY <1>1, <1>2, LoopImplementsOutbox, PTL

=============================================================================
