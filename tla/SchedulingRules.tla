-------------------------- MODULE SchedulingRules --------------------------
(***************************************************************************)
(* The pure part of scheduling: the calendar compiler, the resolution of a *)
(* request's length and buffer, the deterministic scheduler that proposes  *)
(* slots, and the day adjustment that moves a session and what follows it. *)
(*                                                                         *)
(* Time is counted in slots. A day has DayLen of them; day 0 is a Monday.  *)
(* A resource, a request and an item are the records of Scheduling.tla.    *)
(***************************************************************************)
EXTENDS Integers, Sequences, FiniteSets, FiniteSetsExt

CONSTANTS
  DayLen,     \* slots of one business day
  Config,     \* scheduling_config_versions: version -> content
  Weights     \* softScoringWeights: [miss, switch, idle]

ASSUME DayLenAssumption == DayLen \in Nat \ {0}
ASSUME WeightsAssumption == Weights.miss \in Int /\ Weights.switch \in Int /\ Weights.idle \in Int
\* Rules are listed, and give whole slots.
ASSUME RulesAssumption ==
  \A c \in DOMAIN Config : \A rules \in {Config[c].buffers, Config[c].fallbacks} :
    DOMAIN rules \subseteq Nat /\ \A n \in DOMAIN rules : rules[n].slots \in Int
\* Calendars list finitely many rules and windows.
Listed(windows) == IsFiniteSet(windows) /\ windows \subseteq Int \X Int
ASSUME CalendarsAssumption ==
  \A c \in DOMAIN Config : \A r \in DOMAIN Config[c].calendar :
    LET cal == Config[c].calendar[r]
    IN  /\ IsFiniteSet(cal.rules)
        /\ \A x \in cal.rules :
             /\ x.from \in Int /\ x.anchor \in Int
             /\ Listed(x.saturday) /\ \A d \in 1 .. 7 : Listed(x.weekly[d])
        /\ \A d \in DOMAIN cal.override : Listed(cal.override[d])

None == -1           \* null: no date, no estimate, no resource
Unknown == -1        \* buffer_after_minutes IS NULL

Day(t) == t \div DayLen
Weekday(d) == (d % 7) + 1

-----------------------------------------------------------------------------
(* The calendar of a resource under a configuration. *)

\* The latest recurring rule that has taken effect, as a set of at most one.
RuleAt(cal, d) ==
  LET begun == {x \in cal.rules : x.from <= d}
  IN  {x \in begun : \A y \in begun : y.from <= x.from}

\* Every second Saturday, counted from the rule's anchor.
Alternating(rule, d) ==
  IF rule.anchor # None /\ Weekday(d) = 6 /\ (d - rule.anchor) % 14 = 0
  THEN rule.saturday ELSE {}

\* compileSchedulingCalendarDate: an override replaces the recurring windows.
Compile(c, r, d) ==
  LET cal == Config[c].calendar[r]
      weekly == UNION {x.weekly[Weekday(d)] \cup Alternating(x, d) : x \in RuleAt(cal, d)}
      local == IF d \in DOMAIN cal.override THEN cal.override[d] ELSE weekly
  IN  {<<d * DayLen + w[1], d * DayLen + w[2]>> : w \in local}

\* The windows of the planning window [from, to), clipped to it.
BusinessWindows(c, r, from, to) ==
  LET all == UNION {Compile(c, r, d) : d \in Day(from) .. Day(to - 1)}
      clipped == {<<Max({w[1], from}), Min({w[2], to})>> : w \in all}
  IN  {w \in clipped : w[1] < w[2]}

Inside(c, r, from, to) ==
  \E w \in Compile(c, r, Day(from)) : w[1] <= from /\ to <= w[2]

\* preservePastRules: what has already applied cannot be rewritten, nor the schema changed.
PastPreserved(old, new, today) ==
  /\ Config[old].schema = Config[new].schema
  /\ \A r \in DOMAIN Config[old].calendar :
       LET before == Config[old].calendar[r]
           after == Config[new].calendar[r]
           past(cal) == {d \in DOMAIN cal.override : d < today}
       IN  /\ r \in DOMAIN Config[new].calendar
           /\ {x \in before.rules : x.from < today} = {x \in after.rules : x.from < today}
           /\ past(before) = past(after)
           /\ \A d \in past(before) : before.override[d] = after.override[d]

-----------------------------------------------------------------------------
(* Length and buffer of a session. *)

Matching(rules, kind) == {n \in DOMAIN rules : rules[n].kind \in {kind, "any"}}

\* The slots of the first rule that matches.
FirstMatch(rules, kind) ==
  LET found == Matching(rules, kind) IN IF found = {} THEN None ELSE rules[Min(found)].slots

\* The buffer of a kind; one without a rule fails the whole generation.
Buffer(c, kind) == FirstMatch(Config[c].buffers, kind)

\* The explicit estimate, else the first fallback rule. No statistics are assembled.
Duration(c, q) ==
  IF q.estimate # None THEN q.estimate ELSE FirstMatch(Config[c].fallbacks, q.facts.kind)

Known(i) == i.buffer # Unknown
Resolved(i) == i.resource # None
Release(i) == i.end + i.buffer

-----------------------------------------------------------------------------
(* The deterministic scheduler. *)

\* What a loop over a sorted array computes from base on, taking a step for each element.
InOrder(step(_, _), base, before(_, _), S) ==
  MapThenFoldSet(LAMBDA x, acc : step(acc, x), base, LAMBDA x : x,
                 LAMBDA T : CHOOSE x \in T : \A y \in T : ~ before(x, y), S)

\* The order of intervals: by their start, then by their end.
Earlier(a, b) == a[1] < b[1] \/ (a[1] = b[1] /\ a[2] < b[2])

Fitting(at, window, need) == IF at + need <= window[2] THEN at ELSE None

\* One busy interval: it is over, or it leaves the room that is needed, or it is in the way.
PastBusy(need, acc, b) ==
  IF acc.done \/ b[2] <= acc.at THEN acc
  ELSE IF b[1] >= acc.at + need THEN [acc EXCEPT !.done = TRUE]
  ELSE [acc EXCEPT !.at = b[2]]

\* The time at which a walk over the busy intervals, sorted by their start, stops.
Walk(window, busy, need) ==
  InOrder(LAMBDA acc, b : PastBusy(need, acc, b), [at |-> window[1], done |-> FALSE], Earlier, busy).at

\* Mutant: a slot is free when the session fits, whatever its buffer needs.
FirstSlotTight(window, busy, length, buffer) ==
  Fitting(Walk(window, busy, length), window, length + buffer)

\* firstSlot: where the session and its buffer have room in a window, if they do.
FirstSlot(window, busy, length, buffer) ==
  Fitting(Walk(window, busy, length + buffer), window, length + buffer)

\* What occupies the resources, whichever item it is.
Sessions(input) == {input.occupied[i] : i \in DOMAIN input.occupied}

\* sortCandidates: priority, desired date (none last), ordinal. A request is its ordinal.
Before(input, a, b) ==
  LET qa == input.candidates[a].facts
      qb == input.candidates[b].facts
      far(d) == IF d = None THEN 1 ELSE 0
  IN  \/ qa.priority < qb.priority
      \/ /\ qa.priority = qb.priority
         /\ \/ far(qa.desired) < far(qb.desired)
            \/ /\ far(qa.desired) = far(qb.desired)
               /\ qa.desired < qb.desired \/ (qa.desired = qb.desired /\ a < b)

\* The resources that could take the request at all.
Eligible(input, q) ==
  {r \in DOMAIN input.resources : /\ input.resources[r].status = "active"
                                  /\ q.needs \subseteq input.resources[r].caps}

BusyOf(input, placed, r) ==
  LET fixed == {<<i.start, Release(i)>> : i \in {j \in Sessions(input) : j.resource = r /\ Known(j)}}
      taken == {<<p.start, Release(p)>> : p \in {x \in placed : x.resource = r}}
  IN  fixed \cup taken

\* The sessions placed on a resource that free it last before a slot.
Prior(placed, r, slot) ==
  LET earlier == {p \in placed : p.resource = r /\ Release(p) <= slot}
  IN  {p \in earlier : \A x \in earlier : Release(x) <= Release(p)}

\* softPenalty: the date missed, the setup switched, the time left idle.
Penalty(q, slot, prior) ==
  (IF q.facts.desired \notin {None, Day(slot)} THEN Weights.miss ELSE 0)
  + (IF \E p \in prior : p.setup # q.facts.setup THEN Weights.switch ELSE 0)
  + (IF prior # {} THEN Weights.idle * (slot - Release(CHOOSE p \in prior : TRUE)) ELSE 0)

\* The resources no session of unknown length is on.
Open(input, q) ==
  {r \in Eligible(input, q) : \A i \in Sessions(input) : i.resource = r => Known(i)}

\* The first slot of each window of each open resource, those without one left out.
Slots(input, q, placed, length, buffer) ==
  UNION {{s \in {<<r, FirstSlot(w, BusyOf(input, placed, r), length, buffer)>> : w \in input.windows[r]} :
            s[2] # None} : r \in Open(input, q)}

\* What one request may be given, once its length is known.
Options(input, q, placed, length, buffer) ==
  {[resource |-> s[1], start |-> s[2], end |-> s[2] + length, buffer |-> buffer,
    penalty |-> Penalty(q, s[2], Prior(placed, s[1], s[2]))]
     : s \in {x \in Slots(input, q, placed, length, buffer) : Day(x[2]) = Day(x[2] + length)}}

\* A request the scheduler considers: its sample has arrived, it is ranked, and
\* no session of unknown place may be in the way.
Schedulable(input, q) ==
  /\ q.facts.sample
  /\ q.facts.priority # None
  /\ \A i \in Sessions(input) : Resolved(i)

\* Earlier, then less penalised, then the resource that comes first.
Better(a, b) ==
  \/ a.start < b.start
  \/ /\ a.start = b.start
     /\ a.penalty < b.penalty \/ (a.penalty = b.penalty /\ a.resource < b.resource)

Best(options) == {x \in options : \A y \in options : x = y \/ Better(x, y)}

\* One step of the greedy pass: the best option of the request, if it has any.
PlaceOne(input, placed, id) ==
  LET q == input.candidates[id]
      length == Duration(input.config, q)
      buffer == Buffer(input.config, q.facts.kind)
      options == IF Schedulable(input, q) /\ length # None
                 THEN Options(input, q, placed, length, buffer) ELSE {}
  IN  placed \cup {[request |-> id, resource |-> x.resource, start |-> x.start, end |-> x.end,
                    buffer |-> x.buffer, setup |-> q.facts.setup] : x \in Best(options)}

\* The registered capabilities are the ones the calendar was written for, and every
\* request that could be given a slot has a buffer rule.
Generable(input) ==
  /\ \A r \in DOMAIN input.resources :
       /\ r \in DOMAIN Config[input.config].calendar
       /\ input.resources[r].caps = Config[input.config].caps[r]
  /\ \A id \in DOMAIN input.candidates :
       LET q == input.candidates[id]
       IN  (/\ Schedulable(input, q)
            /\ Duration(input.config, q) # None
            /\ Open(input, q) # {})
             => Buffer(input.config, q.facts.kind) # Unknown

\* generateDeterministicSchedule: the requests in order, each placed once and for all.
Generate(input) ==
  InOrder(LAMBDA placed, id : PlaceOne(input, placed, id), {},
          LAMBDA a, b : Before(input, a, b), DOMAIN input.candidates)

-----------------------------------------------------------------------------
(* The adjustment of one day. *)

\* One fixed interval: what would reach into it goes on behind it.
PastFixed(total, at, f) == IF at < f[2] /\ at + total > f[1] THEN f[2] ELSE at

\* The first time from which a session that takes total is clear of the fixed intervals.
ClearFrom(from, window, fixed, total) ==
  InOrder(LAMBDA at, f : PastFixed(total, at, f), from, Earlier,
          {f \in fixed : f[2] > from /\ f[1] < window[2]})

\* The time found in the first window of those where one was found.
FirstFound(found) ==
  IF found = {} THEN None
  ELSE (CHOOSE x \in found : \A y \in found : x[1][1] <= y[1][1])[2]

\* Where a session that has to give way goes: the first window with room for it.
NextRoom(windows, fixed, cursor, i) ==
  LET total == Release(i) - i.start
      tried == {<<w, ClearFrom(Max({cursor, i.start, w[1]}), w, fixed, total)>> : w \in windows}
  IN  FirstFound({x \in tried : x[2] + total <= x[1][2]})

=============================================================================
