------------------------- MODULE SchedulingContract -------------------------
(***************************************************************************)
(* What the scheduling contracts admit: a configuration that may be        *)
(* published, an input the scheduler may be given, and an answer that may  *)
(* be stored as a proposal. A contract that refuses ends its command.      *)
(***************************************************************************)
EXTENDS SchedulingRules, Functions

MaxRules == 128      \* recurring rules of one calendar
MaxBuffer == 1440    \* minutes of a buffer; here slots

\* A slot is a minute at least.
ASSUME SlotAssumption == DayLen <= MaxBuffer

Apart(S) == \A v, w \in S : v # w => v[2] <= w[1] \/ w[2] <= v[1]

-----------------------------------------------------------------------------
(* Configurations. *)

\* Local windows: inside the day, none empty, none overlapping.
WindowsOK(ws) == (\A w \in ws : 0 <= w[1] /\ w[1] < w[2] /\ w[2] <= DayLen) /\ Apart(ws)

\* A recurring rule. Its alternating Saturday hangs on a Saturday and replaces the weekly one.
RecurringOK(x) ==
  /\ \A d \in 1 .. 7 : WindowsOK(x.weekly[d])
  /\ x.anchor # None => /\ Weekday(x.anchor) = 6
                        /\ x.weekly[6] = {}
                        /\ x.saturday # {} /\ WindowsOK(x.saturday)

CalendarOK(cal) ==
  /\ Cardinality(cal.rules) \in 1 .. MaxRules
  /\ \A x \in cal.rules : RecurringOK(x)
  /\ \A x, y \in cal.rules : x # y => x.from # y.from
  /\ \A d \in DOMAIN cal.override : WindowsOK(cal.override[d])

Specificity(kind) == IF kind = "any" THEN 0 ELSE 1

\* Rules with one selector each, the most specific first: the first that matches is the one.
RulesOK(rules) ==
  /\ \A i, j \in DOMAIN rules : i < j => Specificity(rules[i].kind) >= Specificity(rules[j].kind)
  /\ IsInjective([i \in DOMAIN rules |-> rules[i].kind])

\* normalizeConfig with its successors.
ConfigOK(content) ==
  /\ \A r \in DOMAIN content.calendar : CalendarOK(content.calendar[r])
  /\ RulesOK(content.fallbacks) /\ \A x \in Range(content.fallbacks) : x.slots > 0
  /\ RulesOK(content.buffers) /\ \A x \in Range(content.buffers) : x.slots >= 0

-----------------------------------------------------------------------------
(* Inputs. *)

ResourceOK(input, r) ==
  /\ \A w \in input.windows[r] : input.from <= w[1] /\ w[1] < w[2] /\ w[2] <= input.to
  /\ Apart(input.windows[r])

\* normalizeCandidate: the lighting preset is an identifier, without blanks around it or control
\* characters in it; the subtypes of the still-life catalogue are those of the third schema.
CandidateOK(config, q) ==
  /\ q.facts.trimmed
  /\ q.facts.still => Config[config].schema = 3

\* A session in the way: resolved exactly when it has a resource, known or unknown buffer.
OccupiedOK(i) ==
  /\ i.status \in {"draft", "confirmed"}
  /\ i.start < i.end
  /\ Known(i) => i.buffer <= MaxBuffer

\* normalizeSchedulingInput: the parts, and how they refer to each other.
InputOK(input) ==
  /\ input.from < input.to
  /\ \A r \in DOMAIN input.resources : ResourceOK(input, r)
  /\ \A r, s \in DOMAIN input.resources :
       r # s => input.resources[r].label # input.resources[s].label
  /\ \A q \in DOMAIN input.candidates : CandidateOK(input.config, input.candidates[q])
  /\ \A i \in Sessions(input) : OccupiedOK(i)
  /\ input.running \subseteq DOMAIN input.occupied
  /\ DOMAIN input.candidates \cap DOMAIN input.occupied = {}

-----------------------------------------------------------------------------
(* Proposals. *)

\* A proposed session: a length of its own and one answer for each request.
ResultOK(result) ==
  /\ \A p \in result : p.start < p.end /\ p.buffer \in 0 .. MaxBuffer
  /\ \A p, s \in result : p.request = s.request => p = s

\* buildSchedulingProposalEnvelope: the answer is an answer to that input.
EnvelopeOK(input, result) ==
  /\ ResultOK(result)
  /\ \A p \in result :
       /\ p.request \in DOMAIN input.candidates
       /\ p.resource \in DOMAIN input.resources
       /\ input.resources[p.resource].status = "active"
       /\ input.from <= p.start /\ p.end <= input.to

\* canonicalSelectedIds: a decision that adopts adopts something that was proposed.
SelectionOK(selected, result) == selected # {} /\ selected \subseteq result

\* The status a selection leads to: all of it, or a proper part.
StatusFor(selected, result) == IF selected = result THEN "accepted" ELSE "partiallyAccepted"

=============================================================================
