---------------------------- MODULE MCScheduling ----------------------------
EXTENDS DayView, Delegation, TLC

\* Two days of four slots, a Saturday and a Sunday: days 5 and 6.
MCDayLen == 4

MCSymmetry == Permutations(Ops) \cup Permutations(Processes) \cup Permutations(Assistants)

Weekly(w) == [d \in 1 .. 7 |-> w]
Rule == [from |-> 0, weekly |-> Weekly({<<0, 3>>}), anchor |-> None, saturday |-> {}]
\* From day 5 on: alternating Saturdays, of which day 5 is one.
Alternate == [from |-> 5, weekly |-> [Weekly({<<1, 4>>}) EXCEPT ![6] = {}],
              anchor |-> 5, saturday |-> {<<1, 4>>}]
ShortSunday == [d \in {6} |-> {<<0, 2>>}]

Plain == [schema |-> 2,
          calendar |-> [r \in Resources |-> [rules |-> {Rule}, override |-> << >>]],
          caps |-> [r \in Resources |-> {"flat"}],
          buffers |-> <<[kind |-> "any", slots |-> 0]>>,
          fallbacks |-> <<[kind |-> "long", slots |-> 2], [kind |-> "any", slots |-> 1]>>,
          notify |-> TRUE]

\* The next version: longer buffers, another Sunday, and nobody is notified.
Revised == [schema |-> 2,
            calendar |-> [r \in Resources |-> [rules |-> {Rule, Alternate}, override |-> ShortSunday]],
            caps |-> [r \in Resources |-> {"flat"}],
            buffers |-> <<[kind |-> "long", slots |-> 1], [kind |-> "any", slots |-> 0]>>,
            fallbacks |-> <<[kind |-> "any", slots |-> 1]>>,
            notify |-> FALSE]

\* A content nobody can publish: two windows of its override overlap.
Broken == [Plain EXCEPT !.calendar = [r \in Resources |->
             [rules |-> {Rule}, override |-> [d \in {6} |-> {<<0, 2>>, <<1, 3>>}]]]]

MCConfig == [c \in {"c1", "c2", "c3"} |->
  CASE c = "c1" -> Plain [] c = "c2" -> Revised [] c = "c3" -> Broken]

MCMoves == {<<21, 22>>, <<22, 23>>, <<25, 26>>}

MCWeights == [miss |-> 1, switch |-> 1, idle |-> 1]

MCResourceFacts ==
  {[status |-> s, caps |-> {"flat"}, label |-> "A"] : s \in {"active", "inactive"}}

Facts(k, s) == [kind |-> k, priority |-> 1, desired |-> None, sample |-> s, setup |-> "a",
                trimmed |-> TRUE, still |-> FALSE]
\* Orders the contract admits, and one whose subtype the second schema does not know.
MCOrderFacts == {Facts("long", TRUE), Facts("short", TRUE), [Facts("short", TRUE) EXCEPT !.still = TRUE]}
\* The same, and one whose lighting preset has a blank at its end.
MCBlankFacts == MCOrderFacts \cup {[Facts("short", TRUE) EXCEPT !.trimmed = FALSE]}
MCRequirements == {[estimate |-> None, needs |-> {"flat"}]}

Imported(start, end, buffer, lock) ==
  [Confirmed(1, start, end, buffer) EXCEPT !.lock = lock]

Order(k, f) == [life |-> "open", facts |-> Facts(k, TRUE), estimate |-> f, needs |-> {"flat"}]

\* An order waiting beside an imported session that is locked; the same order already
\* scheduled for Sunday; and a full Saturday where nobody is notified.
MCStarts ==
  {[req |-> [q \in Requests |-> IF q = 1 THEN Order("long", None) ELSE NoOrder],
    item |-> [i \in Items |-> IF i = 3 THEN Imported(22, 23, 0, "locked") ELSE NoItem],
    active |-> "c1", published |-> {"c1", "c2"}, leases |-> 0,
    spent |-> 0, hosts |-> 0],
   [req |-> [q \in Requests |-> Order("long", 1)],
    item |-> [i \in Items |-> CASE i = 1 -> Confirmed(1, 24, 25, 0)
                                 [] i = 3 -> Imported(20, 22, 1, "locked")
                                 [] OTHER -> NoItem],
    active |-> "c1", published |-> {"c1", "c2"}, leases |-> 1,
    spent |-> 0, hosts |-> 0],
   [req |-> [q \in Requests |-> Order("short", 1)],
    item |-> [i \in Items |-> CASE i = 1 -> Confirmed(1, 21, 22, 0)
                                 [] i = 2 -> Confirmed(1, 22, 23, 0)
                                 [] i = 3 -> Imported(23, 24, 0, "locked")],
    active |-> "c2", published |-> {"c2"}, leases |-> 1,
    spent |-> 0, hosts |-> 0],
   [req |-> [q \in Requests |-> IF q = 1 THEN Order("short", 1) ELSE NoOrder],
    item |-> [i \in Items |-> CASE i = 1 -> Confirmed(1, 24, 25, 0)
                                 [] i = 3 -> Imported(20, 23, 0, "locked")
                                 [] OTHER -> NoItem],
    active |-> "c1", published |-> {"c1"}, leases |-> 1, spent |-> 2, hosts |-> 2],
   [req |-> [q \in Requests |-> IF q = 1 THEN Order("short", 1) ELSE NoOrder],
    item |-> [i \in Items |-> NoItem],
    active |-> "c1", published |-> {"c1"}, leases |-> 1, spent |-> 1, hosts |-> 1]}

=============================================================================
