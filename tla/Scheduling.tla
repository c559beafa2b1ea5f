----------------------------- MODULE Scheduling -----------------------------
(***************************************************************************)
(* The schedule and everything that changes it: orders and their           *)
(* requirements, resources, published and active configurations, proposals *)
(* generated in two transactions and decided later, moves, the adjustment  *)
(* of a day, cancellation, and the lease that holds ordinary commands off. *)
(*                                                                         *)
(* Each action is one IMMEDIATE transaction. A command that is denied      *)
(* writes nothing, and a repeated one answers from its receipt: both are   *)
(* stuttering steps. A client's expected revisions must be the stored ones *)
(* so an action that happens was sent by a client that saw this state; a   *)
(* proposal is what remembers an older one.                                *)
(***************************************************************************)
EXTENDS SchedulingContract

CONSTANTS
  Requests,     \* request ordinals; a request and the one session it gets share a name
  Blocks,       \* sessions imported from the old system, bound to no open request
  Starts,       \* what may be stored when the model begins: [req, item, active, published,
                \* leases: how many were acquired, spent: how many operations were used]
  Resources,    \* scheduling_resources, ordered
  ResourceFacts,\* bound: what a resource may be replaced by
  OrderFacts,   \* bound: what an order may say, that of which the contract refuses the text included
  Requirements, \* bound: [estimate, needs] an administrator may set
  Moves,        \* bound: intervals a session may be moved to
  Ops,          \* bound: operation ids clients use
  Leases,       \* bound: leases ever acquired
  LeaseTtl,     \* slots a lease lasts
  PlanFrom, PlanTo, \* the planning window of every generation
  FirstNow, LastNow \* bound: the clock

ASSUME RequestsAssumption == Requests \subseteq Nat /\ Resources \subseteq Nat
ASSUME FiniteAssumption == IsFiniteSet(Requests \cup Blocks) /\ IsFiniteSet(Resources)
ASSUME MovesAssumption == Moves \subseteq Int \X Int
ASSUME ClockAssumption == FirstNow \in Nat /\ LastNow \in Nat /\ FirstNow <= LastNow
ASSUME PlanAssumption == PlanFrom \in Nat /\ PlanTo \in Nat /\ PlanFrom < PlanTo
ASSUME LeasesAssumption == Leases \in Nat /\ LeaseTtl \in Nat \ {0}

VARIABLES
  now,        \* the clock
  rev,        \* revision_counters.schedule_revision
  proj,       \* revision_counters.projection_revision
  res,        \* scheduling_resources
  req,        \* requests_v2 and scheduling_request_requirements
  item,       \* schedule_items
  run,        \* production_runs, by item, with the last end an adjustment receipt forecasts
  card,       \* notification_outbox, the confirmation of each item
  published,  \* scheduling_config_versions
  active,     \* scheduling_active_config: the version and who activated it
  reading,    \* the generation between its two transactions: its operation and what it read
  proposal,   \* scheduling_proposals, by generation operation
  op,         \* operation ids and the family that owns each
  lease,      \* gf15_scheduling_leases, the one not released
  leases      \* leases acquired so far, those before the model begins included

vars == <<now, rev, proj, res, req, item, run, card, published, active,
          reading, proposal, op, lease, leases>>

Items == Requests \cup Blocks
Holders == {"forward", "rollback"}
Families == {"operation", "admin", "proposalGeneration", "proposalDecision", "reschedule"}

NoItem == [status |-> "none"]
NoRun == [status |-> "none"]
NoForecast == [end |-> None]
NoCard == [status |-> "none"]
NotReading == [op |-> "none"]
NoProposal == [status |-> "none"]
NoLease == [purpose |-> "none"]

Confirmed(r, start, end, buffer) ==
  [status |-> "confirmed", resource |-> r, start |-> start, end |-> end, buffer |-> buffer,
   lock |-> "unlocked", mode |-> "single"]

Alive == {i \in Items : item[i].status = "confirmed"}

ItemRecords ==
  [status : {"confirmed", "cancelled"}, resource : Resources \cup {None}, start : Nat, end : Nat,
   buffer : Nat \cup {Unknown}, lock : {"unlocked", "locked"}, mode : {"single", "groupedUnallocated"}]

Estimates == (Nat \ {0}) \cup {None}
OrderRecords ==
  [life : {"open", "fulfilled", "cancelled"}, facts : OrderFacts, estimate : Estimates,
   needs : {{"unrecorded"}} \cup {w.needs : w \in Requirements}]
NoOrder == [life |-> "none"]

\* A session does not reach into another one, each with the buffer it was given.
ApartIn(rows, i, j) ==
  /\ rows[i].status = "confirmed" /\ rows[j].status = "confirmed"
  /\ Resolved(rows[i]) /\ rows[j].resource = rows[i].resource
  /\ Known(rows[i]) /\ Known(rows[j])
  => Release(rows[i]) <= rows[j].start \/ Release(rows[j]) <= rows[i].start

\* A session that is not over lies with its buffer inside the working windows of its resource.
InCalendar(c, row, at) ==
  row.status = "confirmed" /\ Resolved(row) /\ Known(row) /\ Release(row) >= at
    => row.resource \in DOMAIN Config[c].calendar /\ Inside(c, row.resource, row.start, Release(row))

ASSUME OrdersAssumption ==
  /\ \A f \in OrderFacts : f.priority \in Int /\ f.desired \in Int
  /\ \A w \in Requirements : w.estimate \in Estimates
\* What is stored when the model begins was stored by the actions below, or imported.
ASSUME StartsAssumption ==
  \A s \in Starts :
    /\ s.active \in s.published /\ s.published \subseteq DOMAIN Config
    /\ \A c \in s.published : ConfigOK(Config[c])
    /\ s.leases \in 0 .. Leases
    /\ s.req \in [Requests -> OrderRecords \cup {NoOrder}]
    /\ s.item \in [Items -> ItemRecords \cup {NoItem}]
    /\ \A i \in Items : s.item[i] # NoItem =>
         /\ s.item[i].start < s.item[i].end /\ s.item[i].buffer <= MaxBuffer
         /\ i \in Requests => /\ s.req[i] # NoOrder
                            /\ s.item[i].mode = "single" /\ Resolved(s.item[i])
    /\ \A i \in Requests : \A j \in Items \ {i} : ApartIn(s.item, i, j)
    /\ \A i \in Items : InCalendar(s.active, s.item[i], FirstNow)

Init ==
  /\ now = FirstNow
  /\ rev = 0 /\ proj = 0
  /\ \E s \in Starts :
       /\ req = s.req /\ item = s.item /\ leases = s.leases
       /\ published = s.published
       /\ \E used \in SUBSET Ops :
            /\ Cardinality(used) = s.spent
            /\ op = [o \in Ops |-> IF o \in used THEN "operation" ELSE "free"]
       /\ active = [config |-> s.active, by |-> "business"]
       /\ res \in [Resources -> {f \in ResourceFacts : f.status = "active"}]
       /\ \A r \in Resources : res[r].caps = Config[s.active].caps[r]
       /\ \A r, t \in Resources : r # t => res[r].label # res[t].label
  /\ run = [i \in Items |-> NoRun]
  /\ card = [i \in Items |-> NoCard]
  /\ reading = NotReading
  /\ proposal = [o \in Ops |-> NoProposal]
  /\ lease = NoLease

-----------------------------------------------------------------------------
(* Admission. *)

\* assertSchedulingQuiescence: nobody but the holder, and the holder only in time.
May(who) ==
  IF who = "business" THEN lease = NoLease
  ELSE lease.purpose = who /\ now < lease.until

\* A new operation id, and what becomes of it.
Fresh(o) == op[o] = "free"
Unused == {o \in Ops : Fresh(o)}
Owns(o, family) == op' = [op EXCEPT ![o] = family]

\* Mutant: a change of the schedule leaves the drafts computed before it.
StaleNone(touched, spared) == proposal' = proposal

\* staleDraftProposalsInTransaction: every draft whose scope is touched, but one.
StaleDrafts(touched, spared) ==
  proposal' = [o \in Ops |->
    IF /\ proposal[o].status = "draft" /\ o \notin spared
       /\ proposal[o].scope \cap touched # {}
    THEN [proposal[o] EXCEPT !.status = "stale"] ELSE proposal[o]]

Advance(schedule) ==
  /\ rev' = rev + schedule
  /\ proj' = proj + 1

-----------------------------------------------------------------------------
(* Orders and what the administrator says of them. *)

\* business-order-v3 create: a new open request, with no requirements yet.
CreateOrder(o, q, facts) ==
  /\ Fresh(o) /\ May("business")
  /\ req[q].life = "none"
  /\ req' = [req EXCEPT ![q] = [life |-> "open", facts |-> facts,
                                estimate |-> None, needs |-> {"unrecorded"}]]
  /\ Advance(0)
  /\ Owns(o, "operation")
  /\ UNCHANGED <<now, res, item, run, card, published, active, reading, proposal, lease, leases>>

\* business-order-v3 edit: only what is open and was never scheduled. Drafts stay.
EditOrder(o, q, facts) ==
  /\ Fresh(o) /\ May("business")
  /\ req[q].life = "open"
  /\ item[q] = NoItem
  /\ req' = [req EXCEPT ![q].facts = facts]
  /\ Advance(0)
  /\ Owns(o, "operation")
  /\ UNCHANGED <<now, res, item, run, card, published, active, reading, proposal, lease, leases>>

\* setRequestRequirements: the same ones again are recorded and change nothing.
SetRequirements(o, q, wanted, who) ==
  /\ Fresh(o) /\ May(who) /\ who # "rollback"
  /\ req[q].life # "none"
  /\ Owns(o, "admin")
  /\ IF req[q].estimate = wanted.estimate /\ req[q].needs = wanted.needs
     THEN UNCHANGED <<rev, proj, req, proposal>>
     ELSE /\ req' = [req EXCEPT ![q].estimate = wanted.estimate, ![q].needs = wanted.needs]
          /\ Advance(0)
          /\ StaleDrafts(Resources, {})
  /\ UNCHANGED <<now, res, item, run, card, published, active, reading, lease, leases>>

-----------------------------------------------------------------------------
(* Resources and configurations. *)

\* replaceResource: a change of capacity concerns every draft, a new label those in scope.
ReplaceResource(o, r, facts, who) ==
  LET capacity == res[r].status # facts.status \/ res[r].caps # facts.caps
      label == res[r].label # facts.label
  IN  /\ Fresh(o) /\ May(who)
      /\ \A s \in Resources \ {r} : res[s].label # facts.label
      /\ Owns(o, "admin")
      /\ IF ~capacity /\ ~label
         THEN UNCHANGED <<rev, proj, res, proposal>>
         ELSE /\ res' = [res EXCEPT ![r] = facts]
              /\ Advance(IF capacity THEN 1 ELSE 0)
              /\ StaleDrafts(IF capacity THEN Resources ELSE {r}, {})
      /\ UNCHANGED <<now, req, item, run, card, published, active, reading, lease, leases>>

\* publishConfig: the calendars were written for the resources as registered.
PublishConfig(o, c, who) ==
  /\ Fresh(o) /\ May(who) /\ who # "rollback"
  /\ c \notin published /\ ConfigOK(Config[c])
  /\ \A r \in DOMAIN Config[c].calendar : r \in Resources /\ res[r].caps = Config[c].caps[r]
  /\ published' = published \cup {c}
  /\ Owns(o, "admin")
  /\ UNCHANGED <<now, rev, proj, res, req, item, run, card, active, reading, proposal, lease, leases>>

\* Mutant: only the sessions that have not begun are checked against the calendar.
CalendarFitsUnbegun(c) ==
  \A i \in Alive :
    ~ Known(item[i]) \/ item[i].start > now
      => /\ Resolved(item[i]) /\ Known(item[i])
         /\ item[i].resource \in DOMAIN Config[c].calendar
         /\ Inside(c, item[i].resource, item[i].start, Release(item[i]))

\* checkBusinessCalendarImpact: every session that is not over lies in the new windows.
CalendarFits(c) ==
  \A i \in Alive :
    ~ Known(item[i]) \/ Release(item[i]) >= now
      => /\ Resolved(item[i]) /\ Known(item[i])
         /\ item[i].resource \in DOMAIN Config[c].calendar
         /\ Inside(c, item[i].resource, item[i].start, Release(item[i]))

\* activateConfig: the business application guards it, a lease holder's packet is not guarded.
ActivateConfig(o, c, who) ==
  /\ Fresh(o) /\ May(who)
  /\ c \in published /\ c # active.config
  /\ who = "business" => PastPreserved(active.config, c, Day(now)) /\ CalendarFits(c)
  /\ active' = [config |-> c, by |-> who]
  /\ Advance(0)
  /\ StaleDrafts(Resources, {})
  /\ Owns(o, "admin")
  /\ UNCHANGED <<now, res, req, item, run, card, published, reading, lease, leases>>

-----------------------------------------------------------------------------
(* Proposals. *)

\* assembleSchedulingInput: everything the scheduler is told, read in one transaction.
Assemble(scope) ==
  [config |-> active.config,
   revision |-> rev,
   from |-> PlanFrom,
   to |-> PlanTo,
   resources |-> [r \in scope |-> res[r]],
   windows |-> [r \in scope |-> BusinessWindows(active.config, r, PlanFrom, PlanTo)],
   candidates |-> [q \in {x \in Requests : req[x].life = "open" /\ x \notin Alive} |->
                     [facts |-> req[q].facts, estimate |-> req[q].estimate, needs |-> req[q].needs]],
   occupied |-> [i \in Alive |-> item[i]],
   running |-> {i \in Items : run[i].status = "active"}]

\* The first transaction of generate: it reads and remembers. One process generates.
ReadInput(o, input, who) ==
  /\ Fresh(o) /\ May(who) /\ who # "rollback"
  /\ reading = NotReading
  /\ InputOK(input) /\ Generable(input)
  /\ reading' = [op |-> o, input |-> input]
  /\ UNCHANGED <<now, rev, proj, res, req, item, run, card, published, active,
                 proposal, op, lease, leases>>

\* Mutant: only the revision and the configuration are compared, not the input's digest.
SameInputLoosely(then) == then.revision = rev /\ then.config = active.config

\* What was read is still what is stored.
SameInput(then) ==
  /\ then.revision = rev /\ then.config = active.config
  /\ then = Assemble(DOMAIN then.resources)

\* The second transaction of generate: it compares, and keeps the draft.
KeepDraft(o, who) ==
  /\ Fresh(o) /\ May(who) /\ who # "rollback"
  /\ reading # NotReading /\ reading.op = o
  /\ SameInput(reading.input)
  /\ EnvelopeOK(reading.input, Generate(reading.input))
  /\ proposal' = [proposal EXCEPT ![o] =
       [status |-> "draft", scope |-> DOMAIN reading.input.resources, input |-> reading.input]]
  /\ reading' = NotReading
  /\ Owns(o, "proposalGeneration")
  /\ UNCHANGED <<now, rev, proj, res, req, item, run, card, published, active, lease, leases>>

\* SCHEDULING_INPUT_CHANGED_RETRY, or the process ends between the two.
GiveUp ==
  /\ reading # NotReading
  /\ reading' = NotReading
  /\ UNCHANGED <<now, rev, proj, res, req, item, run, card, published, active,
                 proposal, op, lease, leases>>

Draft(o) == proposal[o].status = "draft"

\* reject: a decision of its own, it touches nothing but the proposal.
Reject(d, o, who) ==
  /\ Fresh(d) /\ May(who) /\ who # "rollback"
  /\ Draft(o)
  /\ proposal' = [proposal EXCEPT ![o].status = "rejected"]
  /\ Owns(d, "proposalDecision")
  /\ UNCHANGED <<now, rev, proj, res, req, item, run, card, published, active, reading, lease, leases>>

\* accept that finds the proposal overtaken: the decision makes it stale.
AcceptStale(d, o, who) ==
  /\ Fresh(d) /\ May(who) /\ who # "rollback"
  /\ Draft(o)
  /\ ~ SameInput(proposal[o].input)
  /\ proposal' = [proposal EXCEPT ![o].status = "stale"]
  /\ Owns(d, "operation")
  /\ UNCHANGED <<now, rev, proj, res, req, item, run, card, published, active, reading, lease, leases>>

\* applyCanonicalScheduleAcceptance: what each adopted session must still satisfy.
Placeable(p) ==
  /\ res[p.resource].status = "active"
  /\ req[p.request].life = "open"
  /\ item[p.request].status # "confirmed"
  /\ \A i \in Alive :
       item[i].resource \in {p.resource, None}
         => /\ Resolved(item[i]) /\ Known(item[i])
            /\ ~ (item[i].start < Release(p) /\ p.start < Release(item[i]))

\* The sessions adopted, their cards, the counters: the part accept and adopt share.
Place(selected) ==
  LET adopted == {p.request : p \in selected}
      chosen(q) == CHOOSE p \in selected : p.request = q
  IN  /\ \A p \in selected : p.start > now /\ Placeable(p)
      /\ item' = [i \in Items |->
           IF i \in adopted
           THEN Confirmed(chosen(i).resource, chosen(i).start, chosen(i).end, chosen(i).buffer)
           ELSE item[i]]
      /\ card' = [i \in Items |->
           IF i \in adopted /\ Config[active.config].notify
           THEN [status |-> "open", start |-> chosen(i).start] ELSE card[i]]
      /\ Advance(1)

\* The proposal decided and the others retired: all of it adopted, or a part.
Decided(o, decided) ==
  proposal' = [x \in Ops |->
    CASE x = o -> decided
      [] x # o /\ Draft(x) -> [proposal[x] EXCEPT !.status = "stale"]
      [] OTHER -> proposal[x]]

\* accept: all of the result or a part of it, as computed from the input now stored.
Accept(d, o, result, selected, who) ==
  /\ Fresh(d) /\ May(who) /\ who # "rollback"
  /\ Draft(o)
  /\ SameInput(proposal[o].input)
  /\ SelectionOK(selected, result)
  /\ Place(selected)
  /\ Decided(o, [proposal[o] EXCEPT !.status = StatusFor(selected, result)])
  /\ Owns(d, "proposalDecision")
  /\ UNCHANGED <<now, res, req, run, published, active, reading, lease, leases>>

\* adoptPreview: what was previewed is generated again and accepted, both or neither.
Adopt(o, d, input, result, selected) ==
  /\ o # d /\ Fresh(o) /\ Fresh(d) /\ May("business")
  /\ InputOK(input) /\ Generable(input) /\ EnvelopeOK(input, result)
  /\ SelectionOK(selected, result)
  /\ Place(selected)
  /\ Decided(o, [status |-> StatusFor(selected, result),
                 scope |-> DOMAIN input.resources, input |-> input])
  /\ op' = [op EXCEPT ![o] = "proposalGeneration", ![d] = "proposalDecision"]
  /\ UNCHANGED <<now, res, req, run, published, active, reading, lease, leases>>

-----------------------------------------------------------------------------
(* Sessions that are moved or called off. *)

\* Mutant: a confirmation that is still to be sent does not hold the session.
SettledAnyway(i) == TRUE

\* No confirmation of the session can still be sent.
Settled(i) == card[i].status # "open"

\* Mutant: a session being shot can be moved or called off.
MovableBegun(i) ==
  /\ item[i].status = "confirmed"
  /\ Resolved(item[i]) /\ item[i].lock = "unlocked" /\ item[i].mode = "single"
  /\ i \in Requests /\ req[i].life = "open"

\* Its one request is open and nothing has fixed or begun it.
Movable(i) ==
  /\ item[i].status = "confirmed"
  /\ Resolved(item[i]) /\ item[i].lock = "unlocked" /\ item[i].mode = "single"
  /\ run[i] = NoRun
  /\ i \in Requests /\ req[i].life = "open"

\* The calendar in force was written for the resource as it is.
CalendarHolds(r) ==
  /\ res[r].status = "active"
  /\ r \in DOMAIN Config[active.config].calendar
  /\ res[r].caps = Config[active.config].caps[r]

\* Mutant: the neighbours' own buffers are not counted.
FreeForBare(i, r, from, to) ==
  \A j \in Alive \ {i} :
    item[j].resource \in {r, None}
      => /\ Resolved(item[j]) /\ Known(item[j])
         /\ ~ (item[j].start < to /\ from < item[j].end)

FreeFor(i, r, from, to) ==
  \A j \in Alive \ {i} :
    item[j].resource \in {r, None}
      => /\ Resolved(item[j]) /\ Known(item[j])
         /\ ~ (item[j].start < to /\ from < Release(item[j]))

\* The buffer of an order under the configuration in force.
BufferNow(q) == Buffer(active.config, req[q].facts.kind)

\* reschedule and its preview, common part: whether a session may have these times now.
MayMove(i, from, to) ==
  LET r == item[i].resource
      buffer == BufferNow(i)
  IN  /\ May("business")
      /\ Movable(i) /\ Settled(i)
      /\ item[i].start > now /\ from > now /\ from < to
      /\ CalendarHolds(r)
      /\ buffer # Unknown
      /\ Inside(active.config, r, from, to + buffer)
      /\ FreeFor(i, r, from, to + buffer)
      /\ <<item[i].start, item[i].end, item[i].buffer>> # <<from, to, buffer>>

\* reschedule: a new time for one session on its own resource.
Reschedule(o, i, from, to) ==
  /\ Fresh(o)
  /\ MayMove(i, from, to)
  /\ item' = [item EXCEPT ![i].start = from, ![i].end = to, ![i].buffer = BufferNow(i)]
  /\ Advance(1)
  /\ StaleDrafts(Resources, {})
  /\ Owns(o, "reschedule")
  /\ UNCHANGED <<now, res, req, run, card, published, active, reading, lease, leases>>

\* Whether it is known when a session that stays frees its resource, and when.
EndKnown(j) ==
  /\ run[j].status # "active"
  /\ item[j].start <= now => run[j].status = "completed"

FreeAt(j) ==
  IF run[j].status = "completed"
  THEN Max({Release(item[j]), run[j].ended + item[j].buffer}) ELSE Release(item[j])

\* What stays where it is: the sessions before the anchor and those of other days.
Staying(rows, i) ==
  {j \in rows \ {i} : item[j].start < item[i].start \/ Day(item[j].start) # Day(item[i].start)}

\* Those after the anchor on its day.
Following(rows, i) == (rows \ Staying(rows, i)) \ {i}

\* A session that gives way is the first that the next one has to leave room for.
Pushed(acc, j, at) ==
  [acc EXCEPT !.ok = at # None, !.moved = acc.moved \cup {<<j, at>>},
              !.cursor = at + Release(item[j]) - item[j].start]

\* One session after the anchor: pushed to the next room, or in the way.
GiveWay(windows, fixed, acc, j) ==
  CASE ~ acc.ok -> acc
    [] acc.ok /\ Movable(j) /\ Settled(j) /\ item[j].start > now ->
         Pushed(acc, j, NextRoom(windows, fixed, acc.cursor, item[j]))
    [] OTHER -> [acc EXCEPT !.ok = EndKnown(j) /\ item[j].start >= acc.cursor,
                            !.cursor = Max({acc.cursor, FreeAt(j)})]

\* The rest of the day when the anchor occupies [from, release).
DayAfter(i, from, release) ==
  LET r == item[i].resource
      rows == {j \in Alive : item[j].resource = r}
      windows == Compile(active.config, r, Day(item[i].start))
      staying == Staying(rows, i)
      fixed == {<<item[j].start, FreeAt(j)>> : j \in staying}
      clear == \A j \in staying :
                 /\ EndKnown(j)
                 /\ ~ (item[j].start < release /\ from < FreeAt(j))
                 /\ item[j].start < item[i].start /\ Day(item[j].start) = Day(item[i].start)
                      => from >= FreeAt(j)
  IN  InOrder(LAMBDA acc, j : GiveWay(windows, fixed, acc, j),
              [ok |-> clear, cursor |-> release, moved |-> {}],
              LAMBDA a, b : item[a].start < item[b].start, Following(rows, i))

\* applyDayAdjustment, common part: the day is known, and the rest of it has room.
Adjusted(o, i, day, anchor, forecast) ==
  LET to(j) == (CHOOSE m \in day.moved : m[1] = j)[2]
  IN  /\ \A j \in Alive : item[j].resource \in {item[i].resource, None}
                            => Resolved(item[j]) /\ Known(item[j])
      /\ CalendarHolds(item[i].resource)
      /\ day.ok
      /\ item' = [j \in Items |->
           CASE j = i -> anchor
             [] j # i /\ j \in {m[1] : m \in day.moved} ->
                  [item[j] EXCEPT !.start = to(j), !.end = to(j) + (item[j].end - item[j].start)]
             [] OTHER -> item[j]]
      /\ run' = [run EXCEPT ![i] = forecast]
      /\ Advance(1)
      /\ StaleDrafts(Resources, {})
      /\ Owns(o, "reschedule")
      /\ UNCHANGED <<now, res, req, card, published, active, reading, lease, leases>>

\* mode plan: the anchor gets a new time on its day, and pushes what follows it.
AdjustPlan(o, i, from, to, buffer) ==
  /\ Fresh(o) /\ May("business")
  /\ Movable(i) /\ Settled(i) /\ item[i].start > now
  /\ from > now /\ from < to
  /\ Day(from) = Day(item[i].start) /\ Day(to) = Day(from)
  /\ Inside(active.config, item[i].resource, from, to + buffer)
  /\ Adjusted(o, i, DayAfter(i, from, to + buffer),
              [item[i] EXCEPT !.start = from, !.end = to, !.buffer = buffer], run[i])

\* mode forecast: the session being shot will end then; its plan and its run stay as they are.
AdjustForecast(o, i, to, buffer) ==
  /\ Fresh(o) /\ May("business")
  /\ i \in Alive /\ Resolved(item[i])
  /\ Day(item[i].start) = Day(now)
  /\ run[i].status = "active" /\ Day(run[i].started) = Day(now)
  /\ to > now /\ Day(to) = Day(now)
  /\ Adjusted(o, i, DayAfter(i, run[i].started, to + buffer), item[i],
              [run[i] EXCEPT !.forecast = [end |-> to, buffer |-> buffer]])

\* business-cancel-v3: the order and its one session, where nobody is notified.
Cancel(o, i) ==
  /\ Fresh(o) /\ May("business")
  /\ Movable(i) /\ Settled(i)
  /\ ~ Config[active.config].notify
  /\ item' = [item EXCEPT ![i].status = "cancelled"]
  /\ req' = [req EXCEPT ![i].life = "cancelled"]
  /\ Advance(1)
  /\ StaleDrafts(Resources, {})
  /\ Owns(o, "operation")
  /\ UNCHANGED <<now, res, run, card, published, active, reading, lease, leases>>

-----------------------------------------------------------------------------
(* What happens to sessions elsewhere: runs and confirmations. *)

\* business-run-v3 start, at the server's clock; FieldRuns models its times.
StartRun(i) ==
  /\ May("business")
  /\ item[i].status = "confirmed" /\ Resolved(item[i]) /\ item[i].mode = "single"
  /\ ~ Config[active.config].notify
  /\ i \in Requests /\ req[i].life = "open"
  /\ run[i] = NoRun
  /\ \A j \in Items : run[j].status = "active" => item[j].resource # item[i].resource
  /\ run' = [run EXCEPT ![i] = [status |-> "active", started |-> now, forecast |-> NoForecast]]
  /\ proj' = proj + 1
  /\ UNCHANGED <<now, rev, res, req, item, card, published, active, reading, proposal,
                 op, lease, leases>>

CompleteRun(i) ==
  /\ May("business")
  /\ run[i].status = "active"
  /\ run' = [run EXCEPT ![i] = [status |-> "completed", started |-> run[i].started, ended |-> now]]
  /\ req' = [req EXCEPT ![i].life = "fulfilled"]
  /\ proj' = proj + 1
  /\ UNCHANGED <<now, rev, res, item, card, published, active, reading, proposal, op, lease, leases>>

\* The outbox delivers a confirmation or gives it up; Outbox models how.
CardSettles(i) ==
  /\ card[i].status = "open"
  /\ card' = [card EXCEPT ![i].status = "closed"]
  /\ UNCHANGED <<now, rev, proj, res, req, item, run, published, active, reading, proposal,
                 op, lease, leases>>

-----------------------------------------------------------------------------
(* The lease that quiets the schedule. *)

\* acquire: only a rollback lease may follow one that expired unreleased.
AcquireLease(purpose) ==
  /\ leases < Leases
  /\ lease # NoLease => now >= lease.until /\ purpose = "rollback"
  /\ lease' = [purpose |-> purpose, until |-> now + LeaseTtl]
  /\ leases' = leases + 1
  /\ UNCHANGED <<now, rev, proj, res, req, item, run, card, published, active, reading,
                 proposal, op>>

ReleaseLease ==
  /\ lease # NoLease /\ now < lease.until
  /\ lease' = NoLease
  /\ UNCHANGED <<now, rev, proj, res, req, item, run, card, published, active, reading,
                 proposal, op, leases>>

Tick ==
  /\ now < LastNow
  /\ now' = now + 1
  /\ UNCHANGED <<rev, proj, res, req, item, run, card, published, active, reading, proposal,
                 op, lease, leases>>

-----------------------------------------------------------------------------

\* Bound: the buffers a client may name, those of the rules; none is negative.
Buffers == {x.slots : x \in UNION {Range(Config[c].buffers) : c \in DOMAIN Config}}
ASSUME BuffersAssumption == Buffers \subseteq Nat
Actors == {"business"} \cup Holders
Scopes == (SUBSET (Resources \cap DOMAIN Config[active.config].calendar)) \ {{}}
Inputs == {Assemble(scope) : scope \in Scopes}

OrderStep(o) ==
  \E q \in Requests :
    \/ \E f \in OrderFacts : CreateOrder(o, q, f) \/ EditOrder(o, q, f)
    \/ \E w \in Requirements, who \in Actors : SetRequirements(o, q, w, who)

AdminStep(o) ==
  \E who \in Actors :
    \/ \E r \in Resources, f \in ResourceFacts : ReplaceResource(o, r, f, who)
    \/ \E c \in DOMAIN Config : PublishConfig(o, c, who) \/ ActivateConfig(o, c, who)

ProposalStep(o) ==
  \/ \E who \in Actors :
       \/ \E input \in Inputs : ReadInput(o, input, who)
       \/ KeepDraft(o, who)
       \/ \E g \in Ops :
            \/ Reject(o, g, who)
            \/ AcceptStale(o, g, who)
            \/ Draft(g) /\ \E result \in {Generate(proposal[g].input)} :
                 \E s \in SUBSET result : Accept(o, g, result, s, who)
  \/ \E d \in Unused \ {o}, input \in Inputs :
       \E result \in {Generate(input)} :
         \E s \in SUBSET result : Adopt(o, d, input, result, s)

MoveStep(o) ==
  \E i \in Requests :
    \/ \E m \in Moves : Reschedule(o, i, m[1], m[2])
    \/ \E m \in Moves, b \in Buffers :
         AdjustPlan(o, i, m[1], m[2], b) \/ AdjustForecast(o, i, m[2], b)
    \/ Cancel(o, i)

Next ==
  \/ \E o \in Unused : OrderStep(o) \/ AdminStep(o) \/ ProposalStep(o) \/ MoveStep(o)
  \/ \E i \in Items : StartRun(i) \/ CompleteRun(i) \/ CardSettles(i)
  \/ \E p \in Holders : AcquireLease(p)
  \/ GiveUp \/ ReleaseLease \/ Tick

Spec == Init /\ [][Next]_vars

-----------------------------------------------------------------------------
(* Properties. *)

\* The tables hold what their schema allows.
TypeOK ==
  /\ now \in Nat /\ rev \in Nat /\ proj \in Nat /\ rev <= proj
  /\ req \in [Requests -> OrderRecords \cup {NoOrder}]
  /\ item \in [Items -> ItemRecords \cup {NoItem}]
  /\ card \in [Items -> [status : {"open", "closed"}, start : Nat] \cup {NoCard}]
  /\ published \subseteq DOMAIN Config /\ active.config \in published
  /\ op \in [Ops -> Families \cup {"free"}]
  /\ leases \in 0 .. Leases

\* No two sessions hold one resource at the same time, each with the buffer it was given,
\* whichever of the four ways of placing or moving a session put them there.
NoOverlap == \A i \in Requests : \A j \in Items \ {i} : ApartIn(item, i, j)

\* A draft that can still be accepted was computed from the schedule and the configuration
\* in force: every command that changes either one retires the drafts in its transaction.
DraftsCurrent ==
  \A o \in Ops :
    Draft(o) => proposal[o].input.revision = rev /\ proposal[o].input.config = active.config

\* While the configuration in force is one the business application activated, every session
\* that is not over lies with its buffer inside the working windows of its resource.
CalendarKept ==
  active.by = "business" => \A i \in Items : InCalendar(active.config, item[i], now)

\* A confirmation that can still be sent tells the time its session is planned for.
CardTellsTime ==
  \A i \in Items :
    card[i].status = "open" => item[i].status = "confirmed" /\ item[i].start = card[i].start

\* A session is adopted for what its order says at that moment: the length, the buffer,
\* the arrival of the sample and the capabilities, however old the proposal is.
AdoptedAsOrdered ==
  [][\A q \in Requests :
       q \notin Alive /\ item'[q].status = "confirmed" =>
         /\ item'[q].end - item'[q].start = Duration(active.config, req[q])
         /\ item'[q].buffer = Buffer(active.config, req[q].facts.kind)
         /\ req[q].facts.sample
         /\ req[q].needs \subseteq res[item'[q].resource].caps]_vars

\* Reference for the scheduler: where a request could go, given what lies before it.
Feasible(input, q, length, buffer, placed) ==
  {t \in input.from .. input.to :
    \E r \in Open(input, q) :
      /\ \E w \in input.windows[r] : w[1] <= t /\ t + length + buffer <= w[2]
      /\ \A i \in Sessions(input) \cup placed :
           i.resource = r => ~ (i.start < t + length + buffer /\ t < Release(i))
      /\ Day(t + length) = Day(t)}

\* The request got the earliest of the times open to it, or nothing where there is none.
EarliestOf(open, mine) ==
  IF open = {} THEN mine = {}
  ELSE \E p \in mine : p.start \in open /\ \A t \in open : p.start <= t

PlacedEarliest(input, placed, id) ==
  LET q == input.candidates[id]
      length == Duration(input.config, q)
      ahead == {p \in placed : p.request # id /\ Before(input, p.request, id)}
  IN  EarliestOf(IF Schedulable(input, q) /\ length # None
                 THEN Feasible(input, q, length, Buffer(input.config, q.facts.kind), ahead) ELSE {},
                 {p \in placed : p.request = id})

\* Every request gets the earliest time open to it after the requests ranked before it, and
\* is left out only when there is none: checked on the input of every reachable state.
EarliestPlacement ==
  \A input \in Inputs :
    Generable(input) =>
      \A placed \in {Generate(input)} :
        \A id \in DOMAIN input.candidates : PlacedEarliest(input, placed, id)

\* Nothing but the text of a waiting order can spoil planning: the sessions, the runs being shot
\* and the requests still waiting never contradict each other, which would refuse every later
\* proposal, and whatever the scheduler answers can be stored.
PlannableButForOrders ==
  \A input \in Inputs :
    (\A q \in DOMAIN input.candidates : CandidateOK(input.config, input.candidates[q]))
      => InputOK(input) /\ (Generable(input) => EnvelopeOK(input, Generate(input)))

\* Every waiting order is part of a valid input, whatever it lacks, as ADP-024 wants it; the
\* code stores orders whose lighting preset or subtype the scheduling contract refuses, and one
\* of them makes the input of every scope invalid.
EveryOrderEnters == \A input \in Inputs : InputOK(input)

=============================================================================
