---------------------------- MODULE OutboxWorker ----------------------------
(***************************************************************************)
(* The polling loop around the outbox dispatcher: start, wake and stop in  *)
(* any order, the timer that begins the next cycle, and the dispatch.      *)
(* Timers are the runtime's: clearTimer is best effort, so a timer the     *)
(* worker has forgotten may still fire.  Any armed timer may fire, whatever *)
(* its delay; the delay says how long the worker meant to sleep.           *)
(***************************************************************************)
EXTENDS Integers

CONSTANTS
  BusyBase, BusyMax, IdlePoll, \* the policy's delays, in one unit
  StreakCap,                   \* bound: a longer busy streak no longer changes the delay
  MaxGhosts                    \* bound: forgotten timers armed at any one time

ASSUME PolicyAssumption ==
  /\ BusyBase \in Nat \ {0} /\ BusyMax \in Nat /\ IdlePoll \in Nat \ {0}
  /\ BusyMax >= BusyBase
ASSUME BoundsAssumption ==
  /\ StreakCap \in Nat \ {0} /\ MaxGhosts \in Nat
  /\ BusyBase * 2 ^ (StreakCap - 1) >= BusyMax
\* What the proofs need to know of powers; it is true of every StreakCap.
ASSUME PowersAssumption ==
  /\ \A streak \in 0 .. StreakCap : 2 ^ streak \in Nat
  /\ 2 ^ StreakCap = 2 * 2 ^ (StreakCap - 1)

VARIABLES
  running,     \* running
  inFlight,    \* inFlight # null
  timer,       \* timerToken: NoTimer, or the delay it was armed with
  ghosts,      \* armed timers the worker has forgotten
  wakePending, \* wakePending
  busyStreak,  \* busyStreak, up to StreakCap
  stopPending, \* stopPromise # null: a caller of stop is waiting
  live,        \* dispatchOnce calls in progress
  wakeOwed     \* history: a wake was accepted and no dispatch has begun since

vars ==
  <<running, inFlight, timer, ghosts, wakePending, busyStreak, stopPending, live, wakeOwed>>

NoTimer == -1

\* busyDelay: the first busy answer sleeps BusyBase, each further one twice as long, up to
\* BusyMax.
BusyDelay(streak) ==
  LET d == BusyBase * 2 ^ streak IN IF d <= BusyMax THEN d ELSE BusyMax

Delays == {0, IdlePoll} \cup {BusyDelay(streak) : streak \in 0 .. StreakCap}

TypeOK ==
  /\ {running, inFlight, wakePending, stopPending, wakeOwed} \subseteq BOOLEAN
  /\ timer \in Delays \cup {NoTimer}
  /\ busyStreak \in 0 .. StreakCap
  /\ ghosts \in 0 .. MaxGhosts
  /\ live \in Nat
  /\ wakePending => running /\ inFlight

Init ==
  /\ running = FALSE
  /\ inFlight = FALSE
  /\ timer = NoTimer
  /\ ghosts = 0
  /\ wakePending = FALSE
  /\ busyStreak = 0
  /\ stopPending = FALSE
  /\ live = 0
  /\ wakeOwed = FALSE

-----------------------------------------------------------------------------
\* clearScheduledTimer: the handle is dropped before clearTimer is tried, so when that
\* throws the timer stays armed.
ClearScheduledTimer(clearFails) ==
  ghosts' = IF timer # NoTimer /\ clearFails THEN ghosts + 1 ELSE ghosts

\* schedule, called while running and idle, with the handle `held`: a timer already
\* remembered is kept; a setTimer that throws stops the worker.
Schedule(held, delay, setFails) ==
  /\ setFails => held = NoTimer
  /\ running' = ~setFails
  /\ timer' = IF setFails THEN NoTimer ELSE IF held # NoTimer THEN held ELSE delay
  /\ wakePending' = FALSE
  /\ stopPending' = (stopPending /\ ~setFails)

Start(setFails) ==
  /\ ~running /\ ~inFlight /\ ~stopPending
  /\ busyStreak' = 0
  /\ Schedule(timer, 0, setFails)
  /\ UNCHANGED <<inFlight, ghosts, live, wakeOwed>>

WakeInFlight ==
  /\ running /\ inFlight
  /\ wakePending' = TRUE
  /\ wakeOwed' = TRUE
  /\ UNCHANGED <<running, inFlight, timer, ghosts, busyStreak, stopPending, live>>

\* Mutant: an armed timer is left alone, whatever its delay.
WakeIdleKeepsTimer(clearFails, setFails) ==
  /\ running /\ ~inFlight
  /\ UNCHANGED ghosts
  /\ Schedule(timer, 0, setFails)
  /\ wakeOwed' = ~setFails
  /\ UNCHANGED <<inFlight, busyStreak, live>>

WakeIdle(clearFails, setFails) ==
  /\ running /\ ~inFlight
  /\ ClearScheduledTimer(clearFails)
  /\ Schedule(NoTimer, 0, setFails)
  /\ wakeOwed' = ~setFails
  /\ UNCHANGED <<inFlight, busyStreak, live>>

\* Mutant: the promise is resolved whether or not a dispatch is in flight.
StopWithoutWaiting(clearFails) ==
  /\ running
  /\ running' = FALSE
  /\ wakePending' = FALSE
  /\ wakeOwed' = FALSE
  /\ ClearScheduledTimer(clearFails)
  /\ timer' = NoTimer
  /\ UNCHANGED <<inFlight, busyStreak, live, stopPending>>

Stop(clearFails) ==
  /\ running
  /\ running' = FALSE
  /\ wakePending' = FALSE
  /\ wakeOwed' = FALSE
  /\ ClearScheduledTimer(clearFails)
  /\ timer' = NoTimer
  /\ stopPending' = inFlight
  /\ UNCHANGED <<inFlight, busyStreak, live>>

\* An armed timer leaves the runtime.  runCycle forgets the handle whichever timer it was:
\* when a ghost fires first, the remembered timer takes its place among the ghosts.
TimerLeaves ==
  /\ timer # NoTimer \/ ghosts > 0
  /\ timer' = NoTimer
  /\ ghosts' = IF timer # NoTimer THEN ghosts ELSE ghosts - 1

\* Mutant: the cycle trusts that only one timer can be armed.
MayDispatchUnguarded == running

MayDispatch == running /\ ~inFlight

TimerIgnored ==
  /\ TimerLeaves
  /\ ~MayDispatch
  /\ UNCHANGED <<running, inFlight, wakePending, busyStreak, stopPending, live, wakeOwed>>

DispatchBegins ==
  /\ TimerLeaves
  /\ MayDispatch
  /\ inFlight' = TRUE
  /\ live' = live + 1
  /\ wakeOwed' = FALSE
  /\ UNCHANGED <<running, wakePending, busyStreak, stopPending>>

DispatchEndsStopped ==
  /\ live > 0 /\ ~running
  /\ live' = live - 1
  /\ inFlight' = FALSE
  /\ stopPending' = FALSE
  /\ UNCHANGED <<running, timer, ghosts, wakePending, busyStreak, wakeOwed>>

\* The delay after a dispatch: none when a wake is pending or rows were claimed, backed off
\* when the store was busy, the idle poll otherwise.
NextDelays(busy) ==
  IF wakePending THEN {0}
  ELSE IF busy THEN {BusyDelay(busyStreak)} ELSE {0, IdlePoll}

NextStreak(busy) ==
  IF ~busy THEN 0 ELSE IF busyStreak < StreakCap THEN busyStreak + 1 ELSE StreakCap

DispatchEnds(busy, delay, setFails) ==
  /\ live > 0 /\ running
  /\ live' = live - 1
  /\ inFlight' = FALSE
  /\ busyStreak' = NextStreak(busy)
  /\ delay \in NextDelays(busy)
  /\ Schedule(timer, delay, setFails)
  /\ wakeOwed' = (wakeOwed /\ ~setFails)
  /\ UNCHANGED ghosts

-----------------------------------------------------------------------------
CanForget == ghosts < MaxGhosts

\* start, wake, stop and the timers that find nothing to do.
Call ==
  \/ \E setFails \in BOOLEAN : Start(setFails)
  \/ WakeInFlight
  \/ \E clearFails, setFails \in BOOLEAN :
       (clearFails => CanForget) /\ WakeIdle(clearFails, setFails)
  \/ \E clearFails \in BOOLEAN : (clearFails => CanForget) /\ Stop(clearFails)
  \/ TimerIgnored

Next ==
  \/ Call
  \/ DispatchBegins \/ DispatchEndsStopped
  \/ \E busy, setFails \in BOOLEAN, delay \in Delays : DispatchEnds(busy, delay, setFails)

Spec == Init /\ [][Next]_vars

-----------------------------------------------------------------------------
\* At most one dispatch of a worker is in progress and inFlight tells it truly, even when
\* forgotten timers of an earlier life fire.
SingleFlight == live = IF inFlight THEN 1 ELSE 0

\* A running worker always has its next cycle ahead of it, and the right one: at once after
\* an accepted wake, whatever was armed, pending or busy before; after the k-th busy answer
\* in a row and no wake, by the k-th delay, whatever restarts, ghost timers and wakes came
\* earlier.
CyclePlanned ==
  running /\ ~inFlight =>
    /\ timer # NoTimer
    /\ wakeOwed => timer = 0
    /\ busyStreak > 0 /\ ~wakeOwed => timer = BusyDelay(busyStreak - 1)

\* A worker has exactly one cycle to come: never two at once, never none while it runs.
\* Whatever order start, wake, stop, the end of a dispatch and timers that fire although
\* they were cancelled come in.
OneCycle == SingleFlight /\ CyclePlanned

=============================================================================
