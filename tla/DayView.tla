------------------------------ MODULE DayView ------------------------------
(***************************************************************************)
(* What people and programs are shown of the schedule: the canonical       *)
(* snapshot stored with every change, the internal and the public board,   *)
(* the owner's view of a day, the briefing that cross-checks that view,    *)
(* and the partial briefing an agent may read.                             *)
(*                                                                         *)
(* Every view is a function of the committed tables, so it is an operator  *)
(* over the state of Scheduling.  A view shows ids; names, notes, pictures *)
(* and wording are left out.                                               *)
(***************************************************************************)
EXTENDS Scheduling

-----------------------------------------------------------------------------
(* The canonical snapshot, refreshed inside the transaction of every command. *)

\* The requests a session binds; one imported binds requests of the old system.
Bindings(i) == {i} \cap Requests

Recorded == {q \in Requests : req[q].life # "none"}
Planned == {i \in Items : item[i] # NoItem}
Executed == {i \in Items : run[i] # NoRun}

\* projectV2Request
RequestView(q) == [life |-> req[q].life, facts |-> req[q].facts]

\* projectCanonicalSnapshot: what it shows, apart from the revision it carries.
Snapshot ==
  [requests |-> [q \in Recorded |-> RequestView(q)],
   scheduleItems |-> [i \in Planned |-> [row |-> item[i], tasks |-> Bindings(i)]],
   productionRuns |-> [i \in Executed |-> run[i].status]]

\* A request the contract admits: a canonical one has a lifecycle.
RequestProjects(q) == req[q].life \in {"open", "fulfilled", "cancelled"}

\* validateBindings: a session binds known requests, and a single one exactly one.
ItemProjects(i) ==
  /\ item[i].start < item[i].end
  /\ Bindings(i) \subseteq Recorded
  /\ i \in Requests => item[i].mode = "single"

\* projectProductionRuns: a run of a task belongs to a single session bound to it.
RunProjects(i) ==
  /\ i \in Planned
  /\ item[i].mode = "single"
  /\ Bindings(i) # {}

\* The snapshot satisfies its own contract, without which no transaction can commit.
Projectable ==
  /\ \A q \in Recorded : RequestProjects(q)
  /\ \A i \in Planned : ItemProjects(i)
  /\ \A i \in Executed : RunProjects(i)

-----------------------------------------------------------------------------
(* The boards. *)

\* readSchedulingBoardFacts, to a reader in charge of every resource.
Board == {i \in Planned : item[i].resource \in Resources}

\* Orders whose every session has a known place.
Orders == {q \in Recorded : q \in Planned => Resolved(item[q])}

\* An order may be edited until it has a session, be it one that was called off.
Editable(q) == req[q].life = "open" /\ q \notin Planned

\* readPublicSchedulingBoard: confirmed sessions of orders that are not cancelled.
PublicOrders ==
  {q \in Orders : req[q].life # "cancelled" /\ q \in Board \cap Alive}

PublicBoard == {i \in Board \cap Alive : Bindings(i) \cap PublicOrders # {}}

-----------------------------------------------------------------------------
(* projectDailyOperations: one day, observed now. *)

RunStatus(i) ==
  CASE run[i].status = "none" -> "notStarted"
    [] run[i].status = "active" -> "shooting"
    [] run[i].status = "completed" ->
         IF run[i].ended < run[i].started THEN "unknown" ELSE "completed"

OccupancyUnknown(i) ==
  ~ Resolved(item[i]) \/ ~ Known(item[i]) \/ item[i].end <= item[i].start

Shown == Board \cap Alive

Touches(i, d) == item[i].start < (d + 1) * DayLen /\ item[i].end > d * DayLen

\* Mutant: a session being shot is shown on the day it was planned for.
TodaySessionsByPlan(d) == {i \in Shown : Touches(i, d)}

\* The sessions of a day; today, the one being shot too, whenever it was planned.
TodaySessions(d) ==
  {i \in Shown : Touches(i, d) \/ (d = Day(now) /\ RunStatus(i) = "shooting")}

Shooting(S) == {i \in S : RunStatus(i) = "shooting"}
Pending(S) == {i \in S : RunStatus(i) = "notStarted"}

\* The sessions that come first in the order of the day.
First(S) ==
  {i \in S : \A j \in S : item[i].start < item[j].start
                            \/ (item[i].start = item[j].start /\ i <= j)}

BoundOrders == UNION {Bindings(i) : i \in Shown}

\* Orders that only wait for a slot.
ReadyUnscheduled ==
  {q \in Orders \ BoundOrders : /\ req[q].life = "open"
                                /\ req[q].facts.sample
                                /\ Duration(active.config, req[q]) # None}

\* The end last confirmed for a session being shot, which is not its plan.
Forecast(i) == IF RunStatus(i) = "shooting" THEN run[i].forecast ELSE NoForecast
ExpectedEnd(i) == IF Forecast(i) # NoForecast THEN Forecast(i).end ELSE item[i].end

Calendared(i) == item[i].resource \in DOMAIN Config[active.config].calendar

\* A forecast that the working windows of the day have no room for.
ForecastOutside(i) ==
  /\ Forecast(i) # NoForecast /\ Calendared(i)
  /\ \A w \in Compile(active.config, item[i].resource, Day(item[i].start)) :
       ~ (w[1] <= run[i].started /\ Forecast(i).end + Forecast(i).buffer <= w[2])

\* A desired date that has come, or that the plan runs past, with nothing completed.
AtRisk(q, d) ==
  LET desired == req[q].facts.desired
      bound == {i \in Shown : q \in Bindings(i)}
  IN  /\ desired # None
      /\ \A i \in bound : RunStatus(i) # "completed"
      /\ \/ desired < Day(now)
         \/ bound = {} /\ desired <= d
         \/ \E i \in bound : Day(ExpectedEnd(i)) > desired

\* The attention queue, as a set: the code, the kind of thing it is about, and its id.
Attention(d) ==
  LET open == {q \in Orders : req[q].life = "open"}
      waiting == open \ BoundOrders
      about(code, kind, ids) == {<<code, kind, x>> : x \in ids}
  IN  about("UNKNOWN_OCCUPANCY", "scheduleItem",
            {j \in Shown : \/ OccupancyUnknown(j) \/ RunStatus(j) = "unknown"
                           \/ Forecast(j) # NoForecast /\ ~ Calendared(j)})
      \cup about("PAST_CONFIRMED_WITHOUT_RUN_FACT", "scheduleItem",
                 {j \in Pending(Shown) : item[j].end < now})
      \cup about("FORECAST_OUTSIDE_WINDOW", "scheduleItem", {j \in Shown : ForecastOutside(j)})
      \cup about("UNKNOWN_OCCUPANCY", "day",
                 IF Cardinality(Shooting(TodaySessions(d))) > 1 THEN {d} ELSE {})
      \cup about("SAMPLE_NOT_READY", "request", {x \in waiting : ~ req[x].facts.sample})
      \cup about("DURATION_MISSING", "request",
                 {x \in waiting : Duration(active.config, req[x]) = None})
      \cup about("UNSCHEDULED_READY", "request", ReadyUnscheduled)
      \cup about("DESIRED_DATE_AT_RISK", "request", {x \in open : AtRisk(x, d)})

\* The view: the current session only when there is one, the next one in order.
Daily(d) ==
  LET today == TodaySessions(d)
      shooting == Shooting(today)
  IN  [date |-> d,
       today |-> today,
       status |-> [i \in today |-> RunStatus(i)],
       tasks |-> [i \in today |-> Bindings(i)],
       current |-> IF Cardinality(shooting) = 1 THEN shooting ELSE {},
       next |-> First(Pending(today)),
       ready |-> ReadyUnscheduled]

-----------------------------------------------------------------------------
(* projectDailyBriefing: the view is believed only where it agrees with itself. *)

\* The state of the list: in conflict when a session does not belong to the day.
TodayState(view) ==
  LET strays == {i \in view.today : ~ Touches(i, view.date)
                                     /\ ~ (view.date = Day(now) /\ view.status[i] = "shooting")}
  IN  CASE strays # {} -> "conflict"
        [] strays = {} /\ view.today # {} -> "ready"
        [] view.today = {} -> "empty"

\* A pointer into the list: the one candidate there is, or none when there is none.
PointerState(view, supplied, candidates) ==
  CASE TodayState(view) = "conflict" -> "unknown"
    [] TodayState(view) # "conflict" /\ supplied = {} /\ candidates = {} ->
         IF \E i \in view.today : view.status[i] = "unknown" THEN "unknown" ELSE "empty"
    [] OTHER -> IF supplied # {} /\ supplied = candidates THEN "ready" ELSE "conflict"

\* The orders said to be unscheduled are bound to nothing on the list.
ReadyState(view) ==
  CASE view.ready \cap UNION {view.tasks[i] : i \in view.today} # {} -> "conflict"
    [] view.ready = {} -> "empty"
    [] OTHER -> "ready"

Briefing(view) ==
  LET having(s) == {i \in view.today : view.status[i] = s}
  IN  [today |-> TodayState(view),
       current |-> PointerState(view, view.current, having("shooting")),
       next |-> PointerState(view, view.next, First(having("notStarted"))),
       ready |-> ReadyState(view)]

\* readAgentDailyBriefing: lengths are withheld, so what they decide is not told.
AgentBriefing(view) == [Briefing([view EXCEPT !.ready = {}]) EXCEPT !.ready = "unknown"]

-----------------------------------------------------------------------------
(* Properties. *)

\* The requests the scheduler would look for a slot for.
Considered ==
  LET input == Assemble(Resources)
  IN  {q \in DOMAIN input.candidates : /\ Schedulable(input, input.candidates[q])
                                       /\ Duration(input.config, input.candidates[q]) # None}

\* The codes that say why an order is not planned.
Reasons == {"SAMPLE_NOT_READY", "DURATION_MISSING", "UNSCHEDULED_READY"}

\* The views that are computed apart tell one story.  The briefing never finds today at odds
\* with itself, nor is an agent told another today; the session being shot is the current one,
\* for whatever day it was planned, and where several are shot at once nothing is called
\* current and the day asks for attention; the orders said to wait for a slot are those the
\* scheduler would look for one for; nothing on the public board is missing from the internal
\* one or open to editing; and no open order is neither planned nor told why it is not.
ViewsAgree ==
  LET today == Day(now)
      view == Daily(today)
      brief == Briefing(view)
      told == AgentBriefing(view)
      considered == Considered
      shot == {i \in Items : run[i].status = "active"}
  IN  /\ "conflict" \notin {brief.today, brief.next, brief.ready}
      /\ <<told.today, told.current, told.next>> = <<brief.today, brief.current, brief.next>>
      /\ IF Cardinality(shot) <= 1
         THEN brief.current # "conflict" /\ view.current = shot
         ELSE /\ brief.current = "conflict" /\ view.current = {}
              /\ <<"UNKNOWN_OCCUPANCY", "day", today>> \in Attention(today)
      /\ considered \subseteq view.ready
      /\ \A q \in view.ready \ considered :
           req[q].facts.priority = None \/ \E i \in Alive : ~ Resolved(item[i])
      /\ PublicBoard \subseteq Shown
      /\ \A q \in PublicOrders : ~ Editable(q) /\ q \notin view.ready
      /\ \A q \in Orders \ Alive :
           req[q].life = "open" => \E code \in Reasons : <<code, "request", q>> \in Attention(today)

\* A projection revision names one snapshot: nothing the snapshot shows ever changes, whoever
\* changes it, without a new revision, by which readers decide whether to read again; and the
\* snapshot every command has to store before it commits can always be stored.
RevisionNamesSnapshot ==
  [][/\ Snapshot' # Snapshot => proj' > proj
     /\ Projectable']_vars

=============================================================================
