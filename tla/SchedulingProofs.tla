-------------------------- MODULE SchedulingProofs --------------------------
(***************************************************************************)
(* The safety properties of the schedule, for every number of sessions,    *)
(* resources, operations, processes and delegations, and every calendar.   *)
(* First what the deterministic scheduler answers, for every input: the    *)
(* sessions it proposes are as long as their orders say, lie apart from    *)
(* each other and from the sessions in the way, and start as early as they *)
(* can.  Then one inductive invariant of the tables and of those who       *)
(* remember older states of them, and what follows from both.              *)
(***************************************************************************)
EXTENDS Delegation, DayView, FiniteSetTheorems, TLAPS

WalkFold == INSTANCE OrderedFolds WITH
  Step <- LAMBDA w, v, acc, x : PastBusy(w, acc, x),
  Less <- LAMBDA w, a, b : Earlier(a, b)

-----------------------------------------------------------------------------
(* The walk over the busy intervals. *)

LEMMA WalkIsFold ==
  ASSUME NEW window, NEW busy, NEW need, NEW v
  PROVE  Walk(window, busy, need) = WalkFold!Fold(need, v, [at |-> window[1], done |-> FALSE], busy).at
BY Zenon DEF Walk, InOrder, WalkFold!Fold, MapThenFoldSet, WalkFold!MapThenFoldSet

\* Intervals have a last one in their order.
LEMMA IntervalsHaveLast ==
  ASSUME NEW w, NEW S, IsFiniteSet(S), S \subseteq Int \X Int
  PROVE  WalkFold!HasLast(w, S)
<1>1. \A x \in S : ~ Earlier(x, x)
  BY DEF Earlier
<1>2. \A x, y, z \in S : Earlier(x, y) /\ Earlier(y, z) => Earlier(x, z)
  BY DEF Earlier
<1>3. WalkFold!IsFiniteSet(S)
  BY DEF IsFiniteSet, WalkFold!IsFiniteSet
<1> QED
  BY <1>1, <1>2, <1>3, WalkFold!OrdersHaveLast

\* Where the walk is after the intervals of T: nothing before it has room, and what it has
\* passed is over or, once it is done, leaves the room that is needed.
Walked(window, need, T, acc) ==
  /\ acc \in [at : Int, done : BOOLEAN]
  /\ acc.at >= window[1]
  /\ \A u \in Int : window[1] <= u /\ u < acc.at => \E b \in T : b[1] < u + need /\ u < b[2]
  /\ \A b \in T : b[2] <= acc.at \/ (acc.done /\ acc.at + need <= b[1])
  /\ acc.done => \E b \in T : acc.at + need <= b[1]

LEMMA WalkStep ==
  ASSUME NEW window \in Int \X Int, NEW need \in Int, NEW T \in SUBSET (Int \X Int), NEW acc,
         NEW x \in Int \X Int, \A y \in T : ~ Earlier(x, y),
         Walked(window, need, T, acc)
  PROVE  Walked(window, need, T \cup {x}, PastBusy(need, acc, x))
<1> USE DEF Walked
<1>1. \A y \in T : y[1] <= x[1]
  BY DEF Earlier
<1>2. CASE acc.done
  <2>1. PastBusy(need, acc, x) = acc
    BY <1>2 DEF PastBusy
  <2>2. acc.at + need <= x[1]
    BY <1>1, <1>2
  <2> QED
    BY <1>2, <2>1, <2>2
<1>3. CASE ~ acc.done /\ x[2] <= acc.at
  <2>1. PastBusy(need, acc, x) = acc
    BY <1>3 DEF PastBusy
  <2> QED
    BY <1>3, <2>1
<1>4. CASE ~ acc.done /\ acc.at < x[2] /\ acc.at + need <= x[1]
  <2>1. PastBusy(need, acc, x) = [acc EXCEPT !.done = TRUE]
    BY <1>4 DEF PastBusy
  <2>2. /\ PastBusy(need, acc, x) \in [at : Int, done : BOOLEAN]
        /\ PastBusy(need, acc, x).at = acc.at
        /\ PastBusy(need, acc, x).done
    BY <2>1
  <2> QED
    BY <1>4, <2>2
<1>5. CASE ~ acc.done /\ acc.at < x[2] /\ x[1] < acc.at + need
  <2>1. PastBusy(need, acc, x) = [acc EXCEPT !.at = x[2]]
    BY <1>5 DEF PastBusy
  <2>2. /\ PastBusy(need, acc, x) \in [at : Int, done : BOOLEAN]
        /\ PastBusy(need, acc, x).at = x[2]
        /\ ~ PastBusy(need, acc, x).done
    BY <1>5, <2>1
  <2>3. ASSUME NEW u \in Int, window[1] <= u, u < x[2]
        PROVE  \E b \in T \cup {x} : b[1] < u + need /\ u < b[2]
    <3>1. CASE u < acc.at
      BY <2>3, <3>1
    <3>2. CASE acc.at <= u
      BY <1>5, <2>3, <3>2
    <3> QED
      BY <3>1, <3>2
  <2>4. \A b \in T : b[2] <= x[2]
    BY <1>5
  <2> QED
    BY <1>5, <2>2, <2>3, <2>4
<1> QED
  BY <1>2, <1>3, <1>4, <1>5

\* firstSlot's walk over busy intervals stops at the first time that has the room it needs.
LEMMA WalkStops ==
  ASSUME NEW window \in Int \X Int, NEW need \in Int, NEW busy, IsFiniteSet(busy),
         busy \subseteq Int \X Int
  PROVE  LET at == Walk(window, busy, need)
         IN  /\ at \in Int /\ window[1] <= at
             /\ \A b \in busy : b[2] <= at \/ at + need <= b[1]
             /\ \A u \in Int : window[1] <= u /\ u < at => \E b \in busy : b[1] < u + need /\ u < b[2]
<1> DEFINE start == [at |-> window[1], done |-> FALSE]
           fold(T) == WalkFold!Fold(need, need, start, T)
           P == {T \in SUBSET busy : Walked(window, need, T, fold(T))}
<1>1. WalkFold!HasLast(need, busy) /\ WalkFold!IsFiniteSet(busy)
  BY IntervalsHaveLast DEF IsFiniteSet, WalkFold!IsFiniteSet
<1>2. {} \in P
  <2>1. fold({}) = start
    BY WalkFold!FoldOfNone
  <2>2. Walked(window, need, {}, start)
    BY DEF Walked
  <2> QED
    BY <2>1, <2>2
<1>3. ASSUME NEW T \in SUBSET busy, T # {}, T \ {WalkFold!Last(need, T)} \in P
      PROVE  T \in P
  <2> DEFINE x == WalkFold!Last(need, T)
             R == T \ {x}
  <2>1. x \in T /\ \A y \in T : ~ Earlier(x, y)
    BY <1>1, <1>3, WalkFold!LastIsIn
  <2>2. IsFiniteSet(T)
    BY FS_Subset
  <2>3. WalkFold!IsFiniteSet(T) /\ WalkFold!HasLast(need, T)
    BY <2>2, IntervalsHaveLast, ZenonT(30) DEF IsFiniteSet, WalkFold!IsFiniteSet
  <2>4. fold(T) = PastBusy(need, fold(R), x)
    BY <1>3, <2>3, WalkFold!FoldUnfolds
  <2>5. Walked(window, need, R, fold(R))
    BY <1>3
  <2> HIDE DEF x
  <2>6. T = R \cup {x} /\ R \in SUBSET (Int \X Int) /\ x \in Int \X Int /\ \A y \in R : ~ Earlier(x, y)
    BY <2>1
  <2> HIDE DEF R, fold
  <2>7. Walked(window, need, R \cup {x}, PastBusy(need, fold(R), x))
    BY <2>5, <2>6, WalkStep
  <2>8. Walked(window, need, T, fold(T))
    BY <2>4, <2>6, <2>7, Zenon
  <2> QED
    BY <2>8
<1>4. busy \in P
  <2> HIDE DEF P
  <2> QED
    BY <1>1, <1>2, <1>3, WalkFold!InductionInOrder
<1>5. Walk(window, busy, need) = fold(busy).at
  BY WalkIsFold
<1>6. Walked(window, need, busy, fold(busy))
  BY <1>4
<1> HIDE DEF fold
<1> QED
  BY <1>5, <1>6 DEF Walked

\* firstSlot: the time it finds has room for the session and its buffer, and no earlier time of
\* the window has; where it finds none, no time of the window has.
LEMMA FirstSlotIs ==
  ASSUME NEW window \in Nat \X Nat, NEW length \in Nat, NEW buffer \in Nat, NEW busy,
         IsFiniteSet(busy), busy \subseteq Int \X Int
  PROVE  LET at == FirstSlot(window, busy, length, buffer)
             need == length + buffer
         IN  /\ at # None => /\ at \in Nat /\ window[1] <= at /\ at + need <= window[2]
                             /\ \A b \in busy : b[2] <= at \/ at + need <= b[1]
             /\ \A u \in Int : /\ window[1] <= u /\ u + need <= window[2]
                               /\ \A b \in busy : b[2] <= u \/ u + need <= b[1]
                               => at # None /\ at <= u
<1> DEFINE need == length + buffer
           at == Walk(window, busy, need)
           slot == FirstSlot(window, busy, length, buffer)
<1>1. need \in Int /\ window \in Int \X Int
  OBVIOUS
<1>2. /\ at \in Int /\ window[1] <= at
      /\ \A b \in busy : b[2] <= at \/ at + need <= b[1]
      /\ \A u \in Int : window[1] <= u /\ u < at => \E b \in busy : b[1] < u + need /\ u < b[2]
  <2> HIDE DEF need
  <2> QED
    BY <1>1, WalkStops
<1>3. slot = IF at + need <= window[2] THEN at ELSE None
  BY DEF FirstSlot, Fitting
<1>4. at \in Nat /\ at # None
  BY <1>2 DEF None
<1> HIDE DEF slot, at
<1>5. ASSUME NEW u \in Int, window[1] <= u, u + need <= window[2],
             \A b \in busy : b[2] <= u \/ u + need <= b[1]
      PROVE  slot # None /\ slot <= u
  <2>1. ~ u < at
    <3> SUFFICES ASSUME u < at PROVE FALSE
      OBVIOUS
    <3>1. PICK b \in busy : b[1] < u + need /\ u < b[2]
      BY <1>2, <1>5
    <3>2. b[1] \in Int /\ b[2] \in Int
      OBVIOUS
    <3>3. b[2] <= u \/ u + need <= b[1]
      BY <1>5
    <3> QED
      BY <1>1, <3>1, <3>2, <3>3
  <2> QED
    BY <1>2, <1>3, <1>4, <1>5, <2>1
<1> QED
  BY <1>2, <1>3, <1>4, <1>5 DEF slot

-----------------------------------------------------------------------------
(* Lengths and buffers. *)

LEMMA FirstRule ==
  ASSUME NEW rules, DOMAIN rules \subseteq Nat, NEW kind
  PROVE  FirstMatch(rules, kind) = None \/ \E n \in DOMAIN rules : FirstMatch(rules, kind) = rules[n].slots
<1> DEFINE found == Matching(rules, kind)
<1>1. found \subseteq Nat
  BY DEF Matching
<1>2. CASE found # {}
  <2>1. \E m \in found : \A k \in found : m <= k
    <3> HIDE DEF found
    <3> QED
      BY <1>1, <1>2, WalkFold!LeastNatural
  <2>2. Min(found) \in found
    BY <2>1 DEF Min
  <2> QED
    BY <1>2, <2>2 DEF FirstMatch, Matching
<1>3. CASE found = {}
  BY <1>3 DEF FirstMatch
<1> QED
  BY <1>2, <1>3

\* A published configuration gives a session a buffer, none too long to store or none at all.
LEMMA BufferIs ==
  ASSUME NEW c \in DOMAIN Config, ConfigOK(Config[c]), NEW kind
  PROVE  Buffer(c, kind) \in Nat \cup {Unknown}
<1> DEFINE rules == Config[c].buffers
<1>1. DOMAIN rules \subseteq Nat /\ \A n \in DOMAIN rules : rules[n].slots \in Int
  BY RulesAssumption
<1>2. \A n \in DOMAIN rules : rules[n].slots >= 0
  BY DEF ConfigOK, Range
<1>3. FirstMatch(rules, kind) = None \/ \E n \in DOMAIN rules : FirstMatch(rules, kind) = rules[n].slots
  BY <1>1, FirstRule
<1> QED
  BY <1>1, <1>2, <1>3 DEF Buffer, None, Unknown

LEMMA DurationIs ==
  ASSUME NEW c \in DOMAIN Config, ConfigOK(Config[c]), NEW q, q.estimate \in Estimates
  PROVE  Duration(c, q) \in Estimates
<1> DEFINE rules == Config[c].fallbacks
<1>1. DOMAIN rules \subseteq Nat /\ \A n \in DOMAIN rules : rules[n].slots \in Int
  BY RulesAssumption
<1>2. \A n \in DOMAIN rules : rules[n].slots > 0
  BY DEF ConfigOK, Range
<1>3. FirstMatch(rules, q.facts.kind) = None
        \/ \E n \in DOMAIN rules : FirstMatch(rules, q.facts.kind) = rules[n].slots
  BY <1>1, FirstRule
<1> QED
  BY <1>1, <1>2, <1>3 DEF Duration, Estimates

-----------------------------------------------------------------------------
(* The options of one request. *)

BestFold == INSTANCE OrderedFolds WITH
  Step <- LAMBDA w, v, acc, x : acc,
  Less <- LAMBDA w, a, b : Better(b, a)

LEMMA RangeIsFinite ==
  ASSUME NEW f, IsFiniteSet(DOMAIN f)
  PROVE  IsFiniteSet({f[x] : x \in DOMAIN f})
<1> DEFINE S == DOMAIN f
           T == {f[x] : x \in S}
           g == [x \in S |-> f[x]]
<1>1. g \in Surjection(S, T)
  BY DEF Surjection
<1> QED
  BY <1>1, FS_Surjection

\* An input as assembled from the tables: a published configuration, whole slots, and windows
\* each within a day and within the planning window.
InOneDay(w) == \E d \in Nat : d * DayLen <= w[1] /\ w[2] <= (d + 1) * DayLen

Sane(input) ==
  /\ input.config \in DOMAIN Config /\ ConfigOK(Config[input.config])
  /\ input.from \in Nat /\ input.to \in Nat
  /\ IsFiniteSet(DOMAIN input.resources) /\ DOMAIN input.resources \subseteq Nat
  /\ \A r \in DOMAIN input.resources :
       /\ IsFiniteSet(input.windows[r])
       /\ \A w \in input.windows[r] : /\ w \in Nat \X Nat /\ InOneDay(w)
                                      /\ input.from <= w[1] /\ w[2] <= input.to
  /\ IsFiniteSet(DOMAIN input.candidates) /\ DOMAIN input.candidates \subseteq Nat
  /\ \A id \in DOMAIN input.candidates :
       LET q == input.candidates[id]
       IN  q.estimate \in Estimates /\ q.facts.priority \in Int /\ q.facts.desired \in Int
  /\ IsFiniteSet(DOMAIN input.occupied)
  /\ \A i \in Sessions(input) : i.start \in Nat /\ i.end \in Nat /\ i.buffer \in Nat \cup {Unknown}

\* A session does not reach into another one on the same resource.
Clear(p, s) == p.resource = s.resource => Release(p) <= s.start \/ Release(s) <= p.start

Timed(placed) == IsFiniteSet(placed) /\ \A p \in placed : p.start \in Int /\ Release(p) \in Int

LEMMA BusyIs ==
  ASSUME NEW input, Sane(input), NEW placed, Timed(placed), NEW r
  PROVE  IsFiniteSet(BusyOf(input, placed, r)) /\ BusyOf(input, placed, r) \subseteq Int \X Int
<1> DEFINE known == {j \in Sessions(input) : j.resource = r /\ Known(j)}
           mine == {x \in placed : x.resource = r}
           fixed == {<<i.start, Release(i)>> : i \in known}
           taken == {<<p.start, Release(p)>> : p \in mine}
<1>1. IsFiniteSet(known) /\ IsFiniteSet(mine)
  <2>1. IsFiniteSet(DOMAIN input.occupied)
    BY DEF Sane
  <2>2. IsFiniteSet(Sessions(input))
    BY <2>1, RangeIsFinite DEF Sessions
  <2> QED
    BY <2>2, FS_Subset DEF Timed
<1>2. IsFiniteSet(fixed)
  <2> DEFINE f == [i \in known |-> <<i.start, Release(i)>>]
  <2>1. fixed = {f[i] : i \in DOMAIN f} /\ DOMAIN f = known
    OBVIOUS
  <2> HIDE DEF f, fixed, known
  <2> QED
    BY <1>1, <2>1, RangeIsFinite
<1>3. IsFiniteSet(taken)
  <2> DEFINE f == [p \in mine |-> <<p.start, Release(p)>>]
  <2>1. taken = {f[i] : i \in DOMAIN f} /\ DOMAIN f = mine
    OBVIOUS
  <2> HIDE DEF f, taken, mine
  <2> QED
    BY <1>1, <2>1, RangeIsFinite
<1>4. fixed \subseteq Int \X Int
  BY DEF Sane, Release, Known
<1>5. taken \subseteq Int \X Int
  BY DEF Timed
<1>6. BusyOf(input, placed, r) = fixed \cup taken
  BY DEF BusyOf
<1> HIDE DEF fixed, taken
<1> QED
  BY <1>2, <1>3, <1>4, <1>5, <1>6, FS_Union

LEMMA DayIs ==
  ASSUME NEW t \in Int, NEW d \in Int, d * DayLen <= t, t < (d + 1) * DayLen
  PROVE  Day(t) = d
BY DayLenAssumption DEF Day

LEMMA DayBounds ==
  ASSUME NEW t \in Int
  PROVE  Day(t) \in Int /\ Day(t) * DayLen <= t /\ t < (Day(t) + 1) * DayLen
<1>1. Day(t) \in Int /\ Day(t) * DayLen <= t /\ t < Day(t) * DayLen + DayLen
  BY DayLenAssumption DEF Day
<1> QED
  BY <1>1, DayLenAssumption

\* In a window of one day, what starts earlier and is as long ends on its day if the later does.
LEMMA EarlierStaysInDay ==
  ASSUME NEW w \in Nat \X Nat, InOneDay(w), NEW s \in Int, NEW t \in Int, NEW length \in Nat,
         w[1] <= s, s <= t, t + length <= w[2], Day(t + length) = Day(t)
  PROVE  Day(s + length) = Day(s)
<1>1. PICK d \in Nat : d * DayLen <= w[1] /\ w[2] <= (d + 1) * DayLen
  BY DEF InOneDay
<1>2. d * DayLen \in Int /\ (d + 1) * DayLen \in Int
  BY DayLenAssumption
<1>3. CASE t + length < (d + 1) * DayLen
  <2>1. Day(s) = d
    BY <1>1, <1>2, <1>3, DayIs
  <2>2. Day(s + length) = d
    BY <1>1, <1>2, <1>3, DayIs
  <2> QED
    BY <2>1, <2>2
<1>4. CASE t + length = (d + 1) * DayLen
  <2>1. CASE s = t
    BY <2>1
  <2>2. CASE s < t
    <3>1. CASE length = 0
      BY <3>1
    <3>2. CASE length > 0
      <4>1. Day(t) = d
        BY <1>1, <1>2, <1>4, <3>2, DayIs
      <4>2. t + length < (Day(t + length) + 1) * DayLen /\ Day(t + length) * DayLen <= t + length
        BY DayBounds
      <4>3. Day(t + length) = d
        BY <4>1
      <4> QED
        BY <1>2, <1>4, <4>2, <4>3
    <3> QED
      BY <3>1, <3>2
  <2> QED
    BY <2>1, <2>2
<1> QED
  BY <1>1, <1>2, <1>3, <1>4

\* A time at which a resource has room for a request, given what was placed before.
Room(input, q, placed, length, buffer, r, t) ==
  /\ r \in Open(input, q)
  /\ \E w \in input.windows[r] : w[1] <= t /\ t + length + buffer <= w[2]
  /\ \A i \in Sessions(input) \cup placed :
       i.resource = r => Release(i) <= t \/ t + length + buffer <= i.start

LEMMA SlotsAre ==
  ASSUME NEW input, Sane(input), NEW q, NEW placed, Timed(placed), NEW length \in Nat, NEW buffer \in Nat
  PROVE  /\ \A s \in Slots(input, q, placed, length, buffer) :
              s = <<s[1], s[2]>> /\ s[2] \in Nat /\ Room(input, q, placed, length, buffer, s[1], s[2])
         /\ \A r : \A t \in Int : Room(input, q, placed, length, buffer, r, t) /\ Day(t + length) = Day(t)
              => \E s \in Slots(input, q, placed, length, buffer) :
                   s[2] <= t /\ Day(s[2] + length) = Day(s[2])
<1> DEFINE busy(r) == BusyOf(input, placed, r)
           slot(w, r) == FirstSlot(w, busy(r), length, buffer)
           slots == Slots(input, q, placed, length, buffer)
<1>1. \A r : IsFiniteSet(busy(r)) /\ busy(r) \subseteq Int \X Int
  BY BusyIs
<1>2. \A r \in Open(input, q) : \A w \in input.windows[r] :
        /\ r \in DOMAIN input.resources /\ w \in Nat \X Nat /\ InOneDay(w)
        /\ \A i \in Sessions(input) : i.resource = r => Known(i)
  BY DEF Open, Eligible, Sane
<1>3. ASSUME NEW r \in Open(input, q), NEW w \in input.windows[r], NEW t \in Int
      PROVE  (\A b \in busy(r) : b[2] <= t \/ t + (length + buffer) <= b[1])
               <=> \A i \in Sessions(input) \cup placed :
                     i.resource = r => Release(i) <= t \/ t + length + buffer <= i.start
  <2>1. \A i \in Sessions(input) : i.resource = r => Known(i)
    BY <1>2, <1>3
  <2>2. t + (length + buffer) = t + length + buffer
    BY <1>3
  <2>3. busy(r) = {<<i.start, Release(i)>> : i \in {j \in Sessions(input) : j.resource = r /\ Known(j)}}
                    \cup {<<p.start, Release(p)>> : p \in {x \in placed : x.resource = r}}
    BY DEF BusyOf
  <2>4. ASSUME \A b \in busy(r) : b[2] <= t \/ t + (length + buffer) <= b[1],
               NEW i \in Sessions(input) \cup placed, i.resource = r
        PROVE  Release(i) <= t \/ t + length + buffer <= i.start
    <3> DEFINE b == <<i.start, Release(i)>>
    <3>1. b \in busy(r)
      BY <2>1, <2>3, <2>4
    <3>2. b[1] = i.start /\ b[2] = Release(i)
      OBVIOUS
    <3> HIDE DEF b, busy
    <3>3. b[2] <= t \/ t + (length + buffer) <= b[1]
      BY <2>4, <3>1
    <3> QED
      BY <2>2, <3>2, <3>3
  <2>5. ASSUME \A i \in Sessions(input) \cup placed :
                 i.resource = r => Release(i) <= t \/ t + length + buffer <= i.start,
               NEW b \in busy(r)
        PROVE  b[2] <= t \/ t + (length + buffer) <= b[1]
    <3>1. PICK i \in Sessions(input) \cup placed : i.resource = r /\ b = <<i.start, Release(i)>>
      BY <2>3, <2>5
    <3> QED
      BY <2>2, <2>5, <3>1
  <2> QED
    BY <2>4, <2>5
<1>4. ASSUME NEW r \in Open(input, q), NEW w \in input.windows[r]
      PROVE  /\ slot(w, r) # None =>
                  /\ slot(w, r) \in Nat /\ w[1] <= slot(w, r) /\ slot(w, r) + (length + buffer) <= w[2]
                  /\ \A b \in busy(r) : b[2] <= slot(w, r) \/ slot(w, r) + (length + buffer) <= b[1]
             /\ \A u \in Int : /\ w[1] <= u /\ u + (length + buffer) <= w[2]
                               /\ \A b \in busy(r) : b[2] <= u \/ u + (length + buffer) <= b[1]
                               => slot(w, r) # None /\ slot(w, r) <= u
  <2>1. w \in Nat \X Nat
    BY <1>2, <1>4
  <2>2. IsFiniteSet(busy(r)) /\ busy(r) \subseteq Int \X Int
    BY <1>1
  <2> HIDE DEF busy
  <2> QED
    BY <2>1, <2>2, FirstSlotIs
<1>5. ASSUME NEW s \in slots
      PROVE  s = <<s[1], s[2]>> /\ s[2] \in Nat /\ Room(input, q, placed, length, buffer, s[1], s[2])
  <2>0. PICK r \in Open(input, q) : \E w \in input.windows[r] : s = <<r, slot(w, r)>> /\ s[2] # None
    BY <1>5 DEF Slots
  <2>1. PICK w \in input.windows[r] : s = <<r, slot(w, r)>> /\ s[2] # None
    BY <2>0
  <2>2. s[1] = r /\ s[2] = slot(w, r)
    BY <2>1
  <2> HIDE DEF slot, busy
  <2>3. /\ s[2] \in Nat /\ w[1] <= s[2] /\ s[2] + (length + buffer) <= w[2]
        /\ \A b \in busy(r) : b[2] <= s[2] \/ s[2] + (length + buffer) <= b[1]
    BY <1>4, <2>1, <2>2
  <2>4. s[2] + length + buffer <= w[2]
    BY <1>2, <2>3
  <2>5. \A i \in Sessions(input) \cup placed :
          i.resource = r => Release(i) <= s[2] \/ s[2] + length + buffer <= i.start
    BY <1>3, <2>3
  <2> QED
    BY <2>1, <2>2, <2>3, <2>4, <2>5 DEF Room
<1>6. ASSUME NEW t \in Int, NEW r, Room(input, q, placed, length, buffer, r, t), Day(t + length) = Day(t)
      PROVE  \E s \in slots : s[2] <= t /\ Day(s[2] + length) = Day(s[2])
  <2>1. r \in Open(input, q)
    BY <1>6 DEF Room
  <2>2. PICK w \in input.windows[r] : w[1] <= t /\ t + length + buffer <= w[2]
    BY <1>6 DEF Room
  <2>3. t + (length + buffer) = t + length + buffer /\ t + length <= t + length + buffer
    OBVIOUS
  <2>4. \A b \in busy(r) : b[2] <= t \/ t + (length + buffer) <= b[1]
    BY <1>3, <1>6, <2>1 DEF Room
  <2> HIDE DEF busy
  <2>5. slot(w, r) # None /\ slot(w, r) <= t
    BY <1>4, <2>1, <2>2, <2>3, <2>4
  <2>6. slot(w, r) \in Nat /\ w[1] <= slot(w, r)
    BY <1>4, <2>1, <2>2, <2>5
  <2>7. <<r, slot(w, r)>> \in slots
    BY <2>1, <2>2, <2>5 DEF Slots, busy
  <2>8. w \in Nat \X Nat /\ InOneDay(w) /\ t + length <= w[2]
    BY <1>2, <2>1, <2>2, <2>3
  <2> HIDE DEF slot
  <2>9. Day(slot(w, r) + length) = Day(slot(w, r))
    BY <1>6, <2>5, <2>6, <2>8, EarlierStaysInDay
  <2> QED
    BY <2>5, <2>7, <2>9
<1> QED
  BY <1>5, <1>6

LEMMA SlotsAreFinite ==
  ASSUME NEW input, Sane(input), NEW q, NEW placed, NEW length, NEW buffer
  PROVE  IsFiniteSet(Slots(input, q, placed, length, buffer))
<1> DEFINE slot(w, r) == FirstSlot(w, BusyOf(input, placed, r), length, buffer)
           found(r) == {s \in {<<r, slot(w, r)>> : w \in input.windows[r]} : s[2] # None}
           open == Open(input, q)
<1>1. IsFiniteSet(open) /\ \A r \in open : IsFiniteSet(input.windows[r])
  <2>1. open \subseteq DOMAIN input.resources
    BY DEF Open, Eligible
  <2> QED
    BY <2>1, FS_Subset DEF Sane
<1>2. ASSUME NEW r \in open PROVE IsFiniteSet(found(r))
  <2> DEFINE f == [w \in input.windows[r] |-> <<r, slot(w, r)>>]
             all == {<<r, slot(w, r)>> : w \in input.windows[r]}
  <2>1. all = {f[w] : w \in DOMAIN f} /\ DOMAIN f = input.windows[r]
    OBVIOUS
  <2>2. IsFiniteSet(all)
    <3> HIDE DEF f, all
    <3> QED
      BY <1>1, <2>1, RangeIsFinite
  <2> QED
    BY <2>2, FS_Subset
<1>3. IsFiniteSet({found(r) : r \in open})
  <2> DEFINE f == [r \in open |-> found(r)]
             all == {found(r) : r \in open}
  <2>1. all = {f[r] : r \in DOMAIN f} /\ DOMAIN f = open
    OBVIOUS
  <2> HIDE DEF f, all
  <2>2. IsFiniteSet(all)
    BY <1>1, <2>1, RangeIsFinite
  <2> QED
    BY <2>2 DEF all
<1>4. Slots(input, q, placed, length, buffer) = UNION {found(r) : r \in open}
  BY DEF Slots
<1> DEFINE all == {found(r) : r \in open}
<1> HIDE DEF found
<1>5. \A T \in all : IsFiniteSet(T)
  BY <1>2
<1> HIDE DEF all
<1>6. IsFiniteSet(UNION all)
  BY <1>3, <1>5, FS_UNION DEF all
<1> QED
  BY <1>4, <1>6 DEF all

LEMMA PenaltyIs ==
  ASSUME NEW q, NEW slot \in Int, NEW placed, Timed(placed), NEW r
  PROVE  Penalty(q, slot, Prior(placed, r, slot)) \in Int
<1> DEFINE prior == Prior(placed, r, slot)
           p == CHOOSE x \in prior : TRUE
<1>1. prior # {} => p \in placed
  BY DEF Prior
<1>2. prior # {} => Release(p) \in Int
  BY <1>1 DEF Timed
<1>3. prior # {} => Weights.idle * (slot - Release(p)) \in Int
  BY <1>2, WeightsAssumption
<1> HIDE DEF prior
<1> QED
  BY <1>3, WeightsAssumption DEF Penalty, p, prior

\* The options of a request: finitely many, each with room, and one no later than any time
\* with room for it.
Offers(input, q, placed, length, buffer, options) ==
  /\ IsFiniteSet(options)
  /\ \A x \in options :
       /\ x.start \in Nat /\ x.end = x.start + length /\ x.buffer = buffer
       /\ x.penalty \in Int /\ x.resource \in Nat
       /\ Room(input, q, placed, length, buffer, x.resource, x.start)
       /\ Day(x.end) = Day(x.start)
  /\ \A x, y \in options : x.start = y.start /\ x.resource = y.resource => x = y
  /\ \A r : \A t \in Int :
       Room(input, q, placed, length, buffer, r, t) /\ Day(t + length) = Day(t)
         => \E x \in options : x.start <= t

LEMMA OptionsAre ==
  ASSUME NEW input, Sane(input), NEW q, NEW placed, Timed(placed), NEW length \in Nat, NEW buffer \in Nat
  PROVE  Offers(input, q, placed, length, buffer, Options(input, q, placed, length, buffer))
<1> DEFINE slots == Slots(input, q, placed, length, buffer)
           kept == {x \in slots : Day(x[2]) = Day(x[2] + length)}
           option(s) == [resource |-> s[1], start |-> s[2], end |-> s[2] + length, buffer |-> buffer,
                         penalty |-> Penalty(q, s[2], Prior(placed, s[1], s[2]))]
           options == Options(input, q, placed, length, buffer)
<1>1. /\ \A s \in slots : s = <<s[1], s[2]>> /\ s[2] \in Nat
                            /\ Room(input, q, placed, length, buffer, s[1], s[2])
      /\ \A r : \A t \in Int :
           Room(input, q, placed, length, buffer, r, t) /\ Day(t + length) = Day(t)
             => \E s \in slots : s[2] <= t /\ Day(s[2] + length) = Day(s[2])
  BY SlotsAre
<1>2. options = {option(s) : s \in kept}
  BY DEF Options
<1>3. IsFiniteSet(kept)
  BY SlotsAreFinite, FS_Subset
<1>4. IsFiniteSet(options)
  <2> DEFINE f == [s \in kept |-> option(s)]
  <2>1. options = {f[s] : s \in DOMAIN f} /\ DOMAIN f = kept
    BY <1>2
  <2> HIDE DEF f, options, kept
  <2> QED
    BY <1>3, <2>1, RangeIsFinite
<1> HIDE DEF slots, options
<1>5. ASSUME NEW x \in options
      PROVE  /\ x.start \in Nat /\ x.end = x.start + length /\ x.buffer = buffer
             /\ x.penalty \in Int /\ x.resource \in Nat
             /\ Room(input, q, placed, length, buffer, x.resource, x.start)
             /\ Day(x.end) = Day(x.start)
  <2>1. PICK s \in kept : x = option(s)
    BY <1>2
  <2>2. s[2] \in Nat /\ Room(input, q, placed, length, buffer, s[1], s[2]) /\ Day(s[2]) = Day(s[2] + length)
    BY <1>1
  <2>3. s[1] \in Nat
    BY <2>2 DEF Room, Open, Eligible, Sane
  <2>4. Penalty(q, s[2], Prior(placed, s[1], s[2])) \in Int
    BY <2>2, PenaltyIs
  <2> QED
    BY <2>1, <2>2, <2>3, <2>4
<1>6. ASSUME NEW x \in options, NEW y \in options, x.start = y.start, x.resource = y.resource
      PROVE  x = y
  <2>1. PICK s \in kept : x = option(s)
    BY <1>2
  <2>2. PICK t \in kept : y = option(t)
    BY <1>2
  <2>3. s[1] = t[1] /\ s[2] = t[2]
    BY <1>6, <2>1, <2>2
  <2> QED
    BY <2>1, <2>2, <2>3
<1>7. ASSUME NEW r, NEW t \in Int, Room(input, q, placed, length, buffer, r, t), Day(t + length) = Day(t)
      PROVE  \E x \in options : x.start <= t
  <2>1. PICK s \in slots : s[2] <= t /\ Day(s[2] + length) = Day(s[2])
    BY <1>1, <1>7
  <2>2. s \in kept
    BY <2>1
  <2>3. option(s) \in options /\ option(s).start = s[2]
    BY <1>2, <2>2
  <2> QED
    BY <2>1, <2>3
<1> QED
  BY <1>4, <1>5, <1>6, <1>7 DEF options, Offers

\* Of the options the request has it gets one, and none starts earlier.
LEMMA BestIs ==
  ASSUME NEW options, IsFiniteSet(options), options # {},
         \A x \in options : x.start \in Int /\ x.penalty \in Int /\ x.resource \in Int,
         \A x, y \in options : x.start = y.start /\ x.resource = y.resource => x = y
  PROVE  \E x \in options : Best(options) = {x} /\ \A y \in options : x.start <= y.start
<1>1. BestFold!HasLast(0, options)
  <2>1. \A x \in options : ~ Better(x, x)
    BY DEF Better
  <2>2. \A x, y, z \in options : Better(y, x) /\ Better(z, y) => Better(z, x)
    BY DEF Better
  <2>3. BestFold!IsFiniteSet(options)
    BY DEF IsFiniteSet, BestFold!IsFiniteSet
  <2> QED
    BY <2>1, <2>2, <2>3, BestFold!OrdersHaveLast
<1>2. PICK x \in options : \A y \in options : ~ Better(y, x)
  BY <1>1 DEF BestFold!HasLast
<1>3. \A y \in options : x = y \/ Better(x, y)
  BY <1>2 DEF Better
<1>4. x \in Best(options)
  BY <1>3 DEF Best
<1>5. ASSUME NEW y \in Best(options) PROVE y = x
  BY <1>2, <1>5 DEF Best
<1>6. \A y \in options : x.start <= y.start
  BY <1>3 DEF Better
<1> QED
  BY <1>4, <1>5, <1>6

-----------------------------------------------------------------------------
(* The requests one after the other. *)

PlaceFold == INSTANCE OrderedFolds WITH
  Step <- LAMBDA w, v, acc, x : PlaceOne(w, acc, x),
  Less <- LAMBDA w, a, b : Before(w, a, b)

\* What a proposed session is: as long as its order says, with the buffer of its kind, on a
\* resource open to it, inside a working window, and apart from every session in the way.
Given(input, p) ==
  LET q == input.candidates[p.request]
  IN  /\ p.request \in DOMAIN input.candidates
      /\ Schedulable(input, q)
      /\ Duration(input.config, q) # None
      /\ p.start \in Nat /\ p.end = p.start + Duration(input.config, q)
      /\ p.buffer = Buffer(input.config, q.facts.kind) /\ p.buffer \in Nat
      /\ p.resource \in Open(input, q)
      /\ \E w \in input.windows[p.resource] : w[1] <= p.start /\ Release(p) <= w[2]
      /\ \A s \in Sessions(input) : Clear(p, s)
      /\ Day(p.end) = Day(p.start)

\* The times open to a request after the sessions placed before it.
OpenTo(input, id, placed) ==
  LET q == input.candidates[id]
      length == Duration(input.config, q)
  IN  IF Schedulable(input, q) /\ length # None
      THEN Feasible(input, q, length, Buffer(input.config, q.facts.kind), placed) ELSE {}

LEMMA PlaceOneIs ==
  ASSUME NEW input, Sane(input), Generable(input), NEW id \in DOMAIN input.candidates,
         NEW placed, Timed(placed)
  PROVE  \/ OpenTo(input, id, placed) = {} /\ PlaceOne(input, placed, id) = placed
         \/ \E p : /\ PlaceOne(input, placed, id) = placed \cup {p}
                   /\ p.request = id /\ Given(input, p)
                   /\ \A s \in placed : Clear(p, s)
                   /\ p.start \in OpenTo(input, id, placed)
                   /\ \A t \in OpenTo(input, id, placed) : p.start <= t
<1> DEFINE q == input.candidates[id]
           length == Duration(input.config, q)
           buffer == Buffer(input.config, q.facts.kind)
           able == Schedulable(input, q) /\ length # None
           options == IF able THEN Options(input, q, placed, length, buffer) ELSE {}
           given(x) == [request |-> id, resource |-> x.resource, start |-> x.start, end |-> x.end,
                        buffer |-> buffer, setup |-> q.facts.setup]
           open == OpenTo(input, id, placed)
<1>1. PlaceOne(input, placed, id) = placed \cup {given(x) : x \in Best(options)}
  <2>1. \A x \in Best(options) : x.buffer = buffer
    BY DEF Best, Options
  <2>2. PlaceOne(input, placed, id)
          = placed \cup {[request |-> id, resource |-> x.resource, start |-> x.start, end |-> x.end,
                          buffer |-> x.buffer, setup |-> q.facts.setup] : x \in Best(options)}
    BY DEF PlaceOne
  <2> HIDE DEF options, buffer
  <2> QED
    BY <2>1, <2>2
<1>2. open = IF able THEN Feasible(input, q, length, buffer, placed) ELSE {}
  BY DEF OpenTo
<1>3. length \in Estimates /\ buffer \in Nat \cup {Unknown}
  BY DurationIs, BufferIs DEF Sane
<1>4. able /\ Open(input, q) # {} => buffer \in Nat /\ length \in Nat
  BY <1>3 DEF Generable, Estimates
<1>5. CASE ~ able
  <2>1. options = {} /\ open = {}
    BY <1>2, <1>5
  <2> QED
    BY <1>1, <2>1 DEF Best
<1>6. CASE Open(input, q) = {}
  <2>1. Slots(input, q, placed, length, buffer) = {}
    BY <1>6 DEF Slots
  <2>2. options = {}
    BY <2>1 DEF Options
  <2>3. open = {}
    BY <1>2, <1>6 DEF Feasible
  <2> QED
    BY <1>1, <2>2, <2>3 DEF Best
<1>7. CASE able /\ Open(input, q) # {}
  <2>1. buffer \in Nat /\ length \in Nat
    BY <1>4, <1>7
  <2>2. options = Options(input, q, placed, length, buffer)
    BY <1>7
  <2> HIDE DEF options, q, length, buffer, open, given, able
  <2>0. Offers(input, q, placed, length, buffer, options)
    BY <2>1, <2>2, OptionsAre
  <2>3. /\ IsFiniteSet(options)
        /\ \A x \in options :
             /\ x.start \in Nat /\ x.end = x.start + length /\ x.buffer = buffer
             /\ x.penalty \in Int /\ x.resource \in Nat
             /\ Room(input, q, placed, length, buffer, x.resource, x.start)
             /\ Day(x.end) = Day(x.start)
        /\ \A x, y \in options : x.start = y.start /\ x.resource = y.resource => x = y
        /\ \A r : \A t \in Int :
             Room(input, q, placed, length, buffer, r, t) /\ Day(t + length) = Day(t)
               => \E x \in options : x.start <= t
    BY <2>0 DEF Offers
  <2>4. ASSUME NEW t \in open
        PROVE  t \in Int /\ \E x \in options : x.start <= t
    <3>1. t \in Feasible(input, q, length, buffer, placed)
      BY <1>2, <1>7
    <3>2. t \in Int
      BY <3>1 DEF Feasible, Sane
    <3>3. PICK r \in Open(input, q) :
            /\ \E w \in input.windows[r] : w[1] <= t /\ t + length + buffer <= w[2]
            /\ \A i \in Sessions(input) \cup placed :
                 i.resource = r => ~ (i.start < t + length + buffer /\ t < Release(i))
            /\ Day(t + length) = Day(t)
      BY <3>1 DEF Feasible
    <3>4. ASSUME NEW i \in Sessions(input) \cup placed, i.resource = r
          PROVE  Release(i) <= t \/ t + length + buffer <= i.start
      <4>1. Release(i) \in Int /\ i.start \in Int
        <5>1. CASE i \in Sessions(input)
          BY <3>3, <3>4, <5>1 DEF Open, Known, Release, Sane
        <5>2. CASE i \in placed
          BY <5>2 DEF Timed
        <5> QED
          BY <5>1, <5>2
      <4>2. ~ (i.start < t + length + buffer /\ t < Release(i))
        BY <3>3, <3>4
      <4> QED
        BY <2>1, <3>2, <4>1, <4>2
    <3>5. Room(input, q, placed, length, buffer, r, t)
      BY <3>3, <3>4 DEF Room
    <3> QED
      BY <2>3, <3>2, <3>3, <3>5
  <2>5. CASE options = {}
    <3>1. open = {}
      BY <2>4, <2>5
    <3>2. Best(options) = {}
      BY <2>5 DEF Best
    <3> QED
      BY <1>1, <3>1, <3>2 DEF open
  <2>6. CASE options # {}
    <3>1. PICK x \in options : Best(options) = {x} /\ \A y \in options : x.start <= y.start
      BY <2>3, <2>6, BestIs
    <3>2. PlaceOne(input, placed, id) = placed \cup {given(x)}
      BY <1>1, <3>1
    <3> DEFINE p == given(x)
    <3>3. /\ p.request = id /\ p.resource = x.resource /\ p.start = x.start /\ p.end = x.end
          /\ p.buffer = buffer
      BY DEF given
    <3>4. /\ p.start \in Nat /\ p.end = p.start + length /\ Day(p.end) = Day(p.start)
          /\ Room(input, q, placed, length, buffer, p.resource, p.start)
      BY <2>3, <3>3
    <3> HIDE DEF p
    <3>5. Release(p) = p.start + length + buffer /\ Release(p) \in Int
      BY <2>1, <3>3, <3>4 DEF Release
    <3>6. /\ p.resource \in Open(input, q)
          /\ \E w \in input.windows[p.resource] : w[1] <= p.start /\ Release(p) <= w[2]
          /\ \A s \in Sessions(input) \cup placed : Clear(p, s)
      BY <3>4, <3>5 DEF Room, Clear
    <3>7. Given(input, p)
      BY <1>7, <2>1, <3>3, <3>4, <3>6 DEF Given, able, length, buffer, q
    <3>8. p.start \in Feasible(input, q, length, buffer, placed)
      <4>1. PICK w \in input.windows[p.resource] : w[1] <= p.start /\ Release(p) <= w[2]
        BY <3>6
      <4>2. w \in Nat \X Nat /\ input.from <= w[1] /\ w[2] <= input.to
        BY <3>6 DEF Open, Eligible, Sane
      <4>3. p.start \in input.from .. input.to
        BY <2>1, <3>4, <3>5, <4>1, <4>2 DEF Sane
      <4>4. ASSUME NEW i \in Sessions(input) \cup placed, i.resource = p.resource
            PROVE  ~ (i.start < p.start + length + buffer /\ p.start < Release(i))
        <5>1. Release(i) \in Int /\ i.start \in Int
          <6>1. CASE i \in Sessions(input)
            BY <3>6, <4>4, <6>1 DEF Open, Known, Release, Sane
          <6>2. CASE i \in placed
            BY <6>2 DEF Timed
          <6> QED
            BY <6>1, <6>2
        <5>2. Release(i) <= p.start \/ p.start + length + buffer <= i.start
          BY <3>4, <4>4 DEF Room
        <5> QED
          BY <2>1, <3>4, <5>1, <5>2
      <4>5. Day(p.start + length) = Day(p.start)
        BY <3>4
      <4>6. w[1] <= p.start /\ p.start + length + buffer <= w[2]
        BY <3>5, <4>1
      <4> QED
        BY <3>6, <4>3, <4>4, <4>5, <4>6 DEF Feasible
    <3>9. p.start \in open /\ \A t \in open : p.start <= t
      <4>1. p.start \in open
        BY <1>2, <1>7, <3>8
      <4>2. ASSUME NEW t \in open PROVE p.start <= t
        <5>1. PICK y \in options : t \in Int /\ y.start <= t
          BY <2>4
        <5>2. x.start <= y.start /\ y.start \in Nat
          BY <2>3, <3>1
        <5> QED
          BY <3>3, <3>4, <5>1, <5>2
      <4> QED
        BY <4>1, <4>2
    <3> QED
      BY <3>2, <3>3, <3>6, <3>7, <3>9 DEF p, open
  <2> QED
    BY <2>5, <2>6
<1> QED
  BY <1>5, <1>6, <1>7

\* The order of the requests is strict and total.
LEMMA RequestsAreOrdered ==
  ASSUME NEW input, Sane(input)
  PROVE  /\ \A a \in DOMAIN input.candidates : ~ Before(input, a, a)
         /\ \A a, b, c \in DOMAIN input.candidates :
              Before(input, a, b) /\ Before(input, b, c) => Before(input, a, c)
         /\ \A a, b \in DOMAIN input.candidates : a # b => Before(input, a, b) \/ Before(input, b, a)
<1> DEFINE ids == DOMAIN input.candidates
           prio(a) == input.candidates[a].facts.priority
           wish(a) == input.candidates[a].facts.desired
           far(a) == IF wish(a) = None THEN 1 ELSE 0
<1>1. \A a \in ids : prio(a) \in Int /\ wish(a) \in Int /\ a \in Int /\ far(a) \in Int
  BY DEF Sane
<1>2. \A a, b : Before(input, a, b) <=>
        \/ prio(a) < prio(b)
        \/ /\ prio(a) = prio(b)
           /\ \/ far(a) < far(b)
              \/ /\ far(a) = far(b)
                 /\ wish(a) < wish(b) \/ (wish(a) = wish(b) /\ a < b)
  BY Zenon DEF Before
<1> HIDE DEF ids, prio, wish, far
<1>3. \A a \in ids : ~ Before(input, a, a)
  BY <1>1, <1>2
<1>4. \A a, b, c \in ids : Before(input, a, b) /\ Before(input, b, c) => Before(input, a, c)
  BY <1>1, <1>2
<1>5. \A a, b \in ids : a # b => Before(input, a, b) \/ Before(input, b, a)
  BY <1>1, <1>2
<1> QED
  BY <1>3, <1>4, <1>5 DEF ids

\* What the greedy pass has placed after the requests of T.
Placed(input, T, placed) ==
  /\ IsFiniteSet(placed)
  /\ \A p \in placed : p.request \in T /\ Given(input, p)
  /\ \A p, s \in placed : p.request = s.request => p = s
  /\ \A p, s \in placed : p # s => Clear(p, s)
  /\ \A id \in T : PlacedEarliest(input, placed, id)

LEMMA PlacedIsTimed ==
  ASSUME NEW input, Sane(input), NEW T, NEW placed, Placed(input, T, placed)
  PROVE  Timed(placed) /\ \A p \in placed : p.end \in Nat /\ p.start < p.end
<1> SUFFICES ASSUME NEW p \in placed
             PROVE  p.start \in Int /\ Release(p) \in Int /\ p.end \in Nat /\ p.start < p.end
  BY DEF Timed, Placed
<1>1. Given(input, p)
  BY DEF Placed
<1> DEFINE q == input.candidates[p.request]
<1>2. Duration(input.config, q) \in Estimates
  BY <1>1, DurationIs DEF Given, Sane
<1>3. p.start \in Nat /\ p.end = p.start + Duration(input.config, q) /\ Duration(input.config, q) \in Nat \ {0}
      /\ p.buffer \in Nat
  BY <1>1, <1>2 DEF Given, Estimates
<1> QED
  BY <1>3 DEF Release

LEMMA PlacedStep ==
  ASSUME NEW input, Sane(input), Generable(input),
         NEW T \in SUBSET DOMAIN input.candidates, NEW placed, Placed(input, T, placed),
         NEW id \in DOMAIN input.candidates, id \notin T, \A y \in T : Before(input, y, id)
  PROVE  Placed(input, T \cup {id}, PlaceOne(input, placed, id))
<1> DEFINE after == PlaceOne(input, placed, id)
           open == OpenTo(input, id, placed)
           ahead(S, a) == {p \in S : p.request # a /\ Before(input, p.request, a)}
           mine(S, a) == {p \in S : p.request = a}
<1>1. Timed(placed)
  BY PlacedIsTimed
<1>2. \A y \in T : ~ Before(input, id, y)
  BY RequestsAreOrdered
<1>3. \A S, a : PlacedEarliest(input, S, a) <=> EarliestOf(OpenTo(input, a, ahead(S, a)), mine(S, a))
  BY Zenon DEF PlacedEarliest, OpenTo
<1>4. /\ \A p \in placed : p.request \in T /\ Given(input, p)
      /\ \A p, s \in placed : p.request = s.request => p = s
      /\ \A p, s \in placed : p # s => Clear(p, s)
      /\ \A a \in T : PlacedEarliest(input, placed, a)
      /\ IsFiniteSet(placed)
  BY DEF Placed
<1>5. \/ open = {} /\ after = placed
      \/ \E p : /\ after = placed \cup {p}
                /\ p.request = id /\ Given(input, p)
                /\ \A s \in placed : Clear(p, s)
                /\ p.start \in open
                /\ \A t \in open : p.start <= t
  BY <1>1, PlaceOneIs
<1>6. ASSUME NEW p, after = placed \cup {p} \/ after = placed, p.request = id
      PROVE  /\ \A a \in T : PlacedEarliest(input, after, a)
             /\ ahead(after, id) = placed
             /\ mine(after, id) = after \ placed
  <2>1. ASSUME NEW a \in T PROVE PlacedEarliest(input, after, a)
    <3>1. ahead(after, a) = ahead(placed, a) /\ mine(after, a) = mine(placed, a)
      BY <1>2, <1>6
    <3> HIDE DEF after, ahead, mine
    <3> QED
      BY <1>3, <1>4, <3>1
  <2>2. ahead(after, id) = placed
    BY <1>2, <1>4, <1>6, RequestsAreOrdered
  <2>3. mine(after, id) = after \ placed
    BY <1>4, <1>6
  <2> QED
    BY <2>1, <2>2, <2>3
<1>7. CASE open = {} /\ after = placed
  <2>1. \A a \in T : PlacedEarliest(input, after, a)
    BY <1>4, <1>7
  <2>2. ahead(after, id) = placed /\ mine(after, id) = {}
    <3>1. \A p \in after : p.request # id /\ Before(input, p.request, id)
      BY <1>4, <1>7
    <3> QED
      BY <1>7, <3>1
  <2>3. PlacedEarliest(input, after, id)
    <3>1. EarliestOf(open, {})
      BY <1>7 DEF EarliestOf
    <3> HIDE DEF after, ahead, mine
    <3> QED
      BY <1>3, <2>2, <3>1
  <2>4. \A p \in placed : p.request \in T \cup {id} /\ Given(input, p)
    BY <1>4
  <2>5. Placed(input, T \cup {id}, placed)
    BY <1>4, <1>7, <2>1, <2>3, <2>4 DEF Placed
  <2> HIDE DEF after
  <2> QED
    BY <1>7, <2>5 DEF after
<1> HIDE DEF after, open
<1>8. CASE \E p : /\ after = placed \cup {p}
                  /\ p.request = id /\ Given(input, p)
                  /\ \A s \in placed : Clear(p, s)
                  /\ p.start \in open
                  /\ \A t \in open : p.start <= t
  <2>1. PICK p : /\ after = placed \cup {p}
                 /\ p.request = id /\ Given(input, p)
                 /\ p.start \in open
                 /\ \A t \in open : p.start <= t
                 /\ \A s \in placed : Clear(p, s)
    BY <1>8
  <2>2. /\ \A a \in T : PlacedEarliest(input, after, a)
        /\ ahead(after, id) = placed
        /\ mine(after, id) = after \ placed
    BY <1>6, <2>1
  <2>3. p \notin placed
    BY <1>4, <2>1
  <2>4. mine(after, id) = {p}
    BY <2>1, <2>2, <2>3
  <2>5. PlacedEarliest(input, after, id)
    <3>1. open # {} /\ EarliestOf(open, {p})
      BY <2>1 DEF EarliestOf
    <3> HIDE DEF ahead, mine
    <3> QED
      BY <1>3, <2>2, <2>4, <3>1 DEF open
  <2>6. IsFiniteSet(after)
    BY <1>4, <2>1, FS_AddElement
  <2>7. \A s \in after : s.request \in T \cup {id} /\ Given(input, s)
    BY <1>4, <2>1
  <2>8. \A s, t \in after : s.request = t.request => s = t
    BY <1>4, <2>1
  <2>9. \A s, t \in after : s # t => Clear(s, t)
    <3>1. \A s \in placed : Clear(s, p)
      BY <2>1 DEF Clear
    <3> QED
      BY <1>4, <2>1, <3>1
  <2> QED
    BY <2>2, <2>5, <2>6, <2>7, <2>8, <2>9 DEF Placed, after
<1> QED
  BY <1>5, <1>7, <1>8

\* The scheduler's answer: every session it proposes is as its order says and apart from all
\* the others, and every request has the earliest time open to it, or none is.
LEMMA GenerateIs ==
  ASSUME NEW input, Sane(input), Generable(input)
  PROVE  Placed(input, DOMAIN input.candidates, Generate(input))
<1> DEFINE ids == DOMAIN input.candidates
           fold(T) == PlaceFold!Fold(input, 0, {}, T)
           P == {T \in SUBSET ids : Placed(input, T, fold(T))}
<1>1. PlaceFold!HasLast(input, ids) /\ PlaceFold!IsFiniteSet(ids) /\ IsFiniteSet(ids)
  <2>1. IsFiniteSet(ids)
    BY DEF Sane
  <2>2. PlaceFold!IsFiniteSet(ids)
    BY <2>1 DEF IsFiniteSet, PlaceFold!IsFiniteSet
  <2>3. PlaceFold!HasLast(input, ids)
    BY <2>2, RequestsAreOrdered, PlaceFold!OrdersHaveLast
  <2> QED
    BY <2>1, <2>2, <2>3
<1>2. {} \in P
  <2>1. fold({}) = {}
    BY PlaceFold!FoldOfNone
  <2>2. Placed(input, {}, {})
    BY FS_EmptySet DEF Placed
  <2> QED
    BY <2>1, <2>2
<1>3. ASSUME NEW T \in SUBSET ids, T # {}, T \ {PlaceFold!Last(input, T)} \in P
      PROVE  T \in P
  <2> DEFINE x == PlaceFold!Last(input, T)
             R == T \ {x}
  <2>1. x \in T /\ \A y \in T : ~ Before(input, x, y)
    BY <1>1, <1>3, PlaceFold!LastIsIn
  <2>2. PlaceFold!IsFiniteSet(T) /\ PlaceFold!HasLast(input, T)
    <3>1. IsFiniteSet(T)
      BY <1>1, FS_Subset
    <3>2. PlaceFold!HasLast(input, T)
      BY <1>1 DEF PlaceFold!HasLast
    <3> QED
      BY <3>1, <3>2 DEF IsFiniteSet, PlaceFold!IsFiniteSet
  <2>3. fold(T) = PlaceOne(input, fold(R), x)
    BY <1>3, <2>2, PlaceFold!FoldUnfolds
  <2>4. Placed(input, R, fold(R))
    BY <1>3
  <2> HIDE DEF x
  <2>5. T = R \cup {x} /\ R \in SUBSET ids /\ x \in ids /\ x \notin R
    BY <2>1
  <2>6. \A y \in R : Before(input, y, x)
    BY <2>1, RequestsAreOrdered
  <2> HIDE DEF R, fold
  <2>7. Placed(input, R \cup {x}, PlaceOne(input, fold(R), x))
    BY <2>4, <2>5, <2>6, PlacedStep
  <2>8. Placed(input, T, fold(T))
    BY <2>3, <2>5, <2>7, Zenon
  <2> QED
    BY <2>8
<1>4. ids \in P
  <2> HIDE DEF P
  <2> QED
    BY <1>1, <1>2, <1>3, PlaceFold!InductionInOrder
<1>5. Generate(input) = fold(ids)
  BY Zenon DEF Generate, InOrder, PlaceFold!Fold, MapThenFoldSet, PlaceFold!MapThenFoldSet
<1> HIDE DEF fold
<1> QED
  BY <1>4, <1>5

-----------------------------------------------------------------------------
(* Working windows. *)

\* A published configuration has windows of one day that lie apart.
LEMMA CompileIs ==
  ASSUME NEW c \in DOMAIN Config, ConfigOK(Config[c]), NEW r \in DOMAIN Config[c].calendar, NEW d \in Int
  PROVE  /\ IsFiniteSet(Compile(c, r, d)) /\ Compile(c, r, d) \subseteq Int \X Int
         /\ \A w \in Compile(c, r, d) : d * DayLen <= w[1] /\ w[1] < w[2] /\ w[2] <= (d + 1) * DayLen
         /\ Apart(Compile(c, r, d))
<1> DEFINE cal == Config[c].calendar[r]
           begun == RuleAt(cal, d)
           day == Weekday(d)
           of(x) == x.weekly[day] \cup Alternating(x, d)
           weekly == UNION {of(x) : x \in begun}
           local == IF d \in DOMAIN cal.override THEN cal.override[d] ELSE weekly
           ws == Compile(c, r, d)
<1>1. CalendarOK(cal)
  BY DEF ConfigOK
<1>2. day \in 1 .. 7
  BY DEF Weekday
<1>3. ASSUME NEW x \in cal.rules PROVE Listed(of(x)) /\ WindowsOK(of(x))
  <2>1. RecurringOK(x)
    BY <1>1 DEF CalendarOK
  <2>2. Listed(x.weekly[day]) /\ Listed(x.saturday)
    BY <1>2, CalendarsAssumption
  <2>3. CASE Alternating(x, d) = {}
    <3>1. of(x) = x.weekly[day]
      BY <2>3
    <3> QED
      BY <1>2, <2>1, <2>2, <3>1 DEF RecurringOK
  <2>4. CASE Alternating(x, d) # {}
    <3>1. x.anchor # None /\ day = 6 /\ Alternating(x, d) = x.saturday
      BY <2>4 DEF Alternating
    <3>2. of(x) = x.saturday
      BY <2>1, <3>1 DEF RecurringOK
    <3> QED
      BY <2>1, <2>2, <3>1, <3>2 DEF RecurringOK
  <2> QED
    BY <2>3, <2>4
<1>4. Listed(weekly) /\ WindowsOK(weekly)
  <2>1. \A x, y \in begun : x = y
    <3>1. ASSUME NEW x \in begun, NEW y \in begun PROVE x.from = y.from /\ x \in cal.rules /\ y \in cal.rules
      <4>1. x \in cal.rules /\ y \in cal.rules /\ x.from \in Int /\ y.from \in Int
        BY CalendarsAssumption DEF RuleAt
      <4>2. x.from <= y.from /\ y.from <= x.from
        BY DEF RuleAt
      <4> QED
        BY <4>1, <4>2
    <3> QED
      BY <1>1, <3>1 DEF CalendarOK
  <2>2. CASE begun = {}
    <3>1. weekly = {}
      BY <2>2
    <3> QED
      BY <3>1, FS_EmptySet DEF Listed, WindowsOK, Apart
  <2>3. CASE begun # {}
    <3>1. PICK x \in begun : begun = {x}
      BY <2>1, <2>3
    <3>2. x \in cal.rules
      BY DEF RuleAt
    <3> HIDE DEF of
    <3>3. weekly = of(x)
      BY <3>1
    <3> QED
      BY <1>3, <3>2, <3>3
  <2> QED
    BY <2>2, <2>3
<1>5. Listed(local) /\ WindowsOK(local)
  <2>1. CASE d \in DOMAIN cal.override
    BY <1>1, <2>1, CalendarsAssumption DEF CalendarOK
  <2>2. CASE d \notin DOMAIN cal.override
    <3> HIDE DEF weekly
    <3> QED
      BY <1>4, <2>2
  <2> QED
    BY <2>1, <2>2
<1>6. ws = {<<d * DayLen + w[1], d * DayLen + w[2]>> : w \in local}
  BY DEF Compile
<1> HIDE DEF local, ws
<1>7. \A w \in local : w[1] \in Int /\ w[2] \in Int /\ 0 <= w[1] /\ w[1] < w[2] /\ w[2] <= DayLen
  BY <1>5 DEF Listed, WindowsOK
<1>8. d * DayLen \in Int /\ (d + 1) * DayLen = d * DayLen + DayLen /\ DayLen \in Int
  BY DayLenAssumption
<1>9. IsFiniteSet(ws)
  <2> DEFINE f == [w \in local |-> <<d * DayLen + w[1], d * DayLen + w[2]>>]
  <2>1. ws = {f[w] : w \in DOMAIN f} /\ DOMAIN f = local
    BY <1>6
  <2> HIDE DEF f
  <2> QED
    BY <1>5, <2>1, RangeIsFinite DEF Listed
<1>10. ws \subseteq Int \X Int
  BY <1>6, <1>7, <1>8
<1>11. \A w \in ws : d * DayLen <= w[1] /\ w[1] < w[2] /\ w[2] <= (d + 1) * DayLen
  BY <1>6, <1>7, <1>8
<1>12. Apart(ws)
  <2> SUFFICES ASSUME NEW v \in ws, NEW w \in ws, v # w
               PROVE  v[2] <= w[1] \/ w[2] <= v[1]
    BY DEF Apart
  <2>1. PICK a \in local : v = <<d * DayLen + a[1], d * DayLen + a[2]>>
    BY <1>6
  <2>2. PICK b \in local : w = <<d * DayLen + b[1], d * DayLen + b[2]>>
    BY <1>6
  <2>3. a # b
    BY <2>1, <2>2
  <2>4. a[2] <= b[1] \/ b[2] <= a[1]
    BY <1>5, <2>3 DEF WindowsOK, Apart
  <2> QED
    BY <1>7, <1>8, <2>1, <2>2, <2>4
<1> QED
  BY <1>9, <1>10, <1>11, <1>12 DEF ws

LEMMA TwoBounds ==
  ASSUME NEW a \in Int, NEW b \in Int
  PROVE  /\ Max({a, b}) \in {a, b} /\ Max({a, b}) >= a /\ Max({a, b}) >= b
         /\ Min({a, b}) \in {a, b} /\ Min({a, b}) <= a /\ Min({a, b}) <= b
<1>1. \E m \in {a, b} : \A x \in {a, b} : m >= x
  OBVIOUS
<1>2. \E m \in {a, b} : \A x \in {a, b} : m <= x
  OBVIOUS
<1>3. Max({a, b}) \in {a, b} /\ \A x \in {a, b} : Max({a, b}) >= x
  BY <1>1 DEF Max
<1>4. Min({a, b}) \in {a, b} /\ \A x \in {a, b} : Min({a, b}) <= x
  BY <1>2 DEF Min
<1> QED
  BY <1>3, <1>4

\* The windows of a planning window: each part of one of the calendar's, and apart.
LEMMA BusinessWindowsAre ==
  ASSUME NEW c \in DOMAIN Config, ConfigOK(Config[c]), NEW r \in DOMAIN Config[c].calendar,
         NEW from \in Nat, NEW to \in Nat, from < to
  PROVE  LET ws == BusinessWindows(c, r, from, to)
         IN  /\ IsFiniteSet(ws)
             /\ \A w \in ws : /\ w \in Nat \X Nat /\ InOneDay(w)
                              /\ from <= w[1] /\ w[1] < w[2] /\ w[2] <= to
                              /\ \E d \in Int : \E v \in Compile(c, r, d) :
                                   v[1] <= w[1] /\ w[2] <= v[2]
             /\ Apart(ws)
<1> DEFINE days == Day(from) .. Day(to - 1)
           of(d) == Compile(c, r, d)
           all == UNION {of(d) : d \in days}
           clip(w) == <<Max({w[1], from}), Min({w[2], to})>>
           clipped == {clip(w) : w \in all}
           ws == BusinessWindows(c, r, from, to)
<1>1. ws = {w \in clipped : w[1] < w[2]}
  BY DEF BusinessWindows
<1>2. Day(from) \in Nat /\ Day(to - 1) \in Int
  BY DayLenAssumption DEF Day
<1>3. days \subseteq Nat /\ IsFiniteSet(days)
  BY <1>2, FS_Interval, SMTT(30)
<1>4. \A d \in days : /\ IsFiniteSet(of(d)) /\ of(d) \subseteq Int \X Int
                      /\ \A w \in of(d) : d * DayLen <= w[1] /\ w[1] < w[2] /\ w[2] <= (d + 1) * DayLen
                      /\ Apart(of(d))
  BY <1>3, CompileIs
<1>5. IsFiniteSet(all)
  <2> DEFINE f == [d \in days |-> of(d)]
             parts == {of(d) : d \in days}
  <2>1. parts = {f[d] : d \in DOMAIN f} /\ DOMAIN f = days
    OBVIOUS
  <2>2. IsFiniteSet(parts)
    <3> HIDE DEF f, parts
    <3> QED
      BY <1>3, <2>1, RangeIsFinite
  <2>3. \A T \in parts : IsFiniteSet(T)
    BY <1>4
  <2> HIDE DEF parts
  <2>4. IsFiniteSet(UNION parts)
    BY <2>2, <2>3, FS_UNION
  <2> QED
    BY <2>4 DEF parts
<1>6. IsFiniteSet(ws)
  <2> DEFINE f == [w \in all |-> clip(w)]
  <2>1. clipped = {f[w] : w \in DOMAIN f} /\ DOMAIN f = all
    OBVIOUS
  <2>2. IsFiniteSet(clipped)
    <3> HIDE DEF f, clipped, all
    <3> QED
      BY <1>5, <2>1, RangeIsFinite
  <2> QED
    BY <1>1, <2>2, FS_Subset
<1> HIDE DEF of, ws, days
<1>7. ASSUME NEW w \in ws
      PROVE  \E d \in days : \E v \in of(d) :
               /\ w = clip(v) /\ v[1] \in Int /\ v[2] \in Int
               /\ d * DayLen <= v[1] /\ v[2] <= (d + 1) * DayLen
               /\ w[1] \in Int /\ w[2] \in Int /\ w = <<w[1], w[2]>>
               /\ v[1] <= w[1] /\ w[2] <= v[2] /\ from <= w[1] /\ w[2] <= to /\ w[1] < w[2]
  <2>1. PICK v \in all : w = clip(v) /\ w[1] < w[2]
    BY <1>1
  <2>2. PICK d \in days : v \in of(d)
    BY <2>1
  <2>3. v[1] \in Int /\ v[2] \in Int /\ d * DayLen <= v[1] /\ v[2] <= (d + 1) * DayLen
    BY <1>4, <2>2
  <2>4. w[1] = Max({v[1], from}) /\ w[2] = Min({v[2], to}) /\ w = <<w[1], w[2]>>
    BY <2>1
  <2>5. w[1] \in Int /\ w[2] \in Int /\ v[1] <= w[1] /\ w[2] <= v[2] /\ from <= w[1] /\ w[2] <= to
    BY <2>3, <2>4, TwoBounds
  <2> HIDE DEF clip
  <2> QED
    BY <2>1, <2>2, <2>3, <2>4, <2>5
<1>8. ASSUME NEW w \in ws
      PROVE  /\ w \in Nat \X Nat /\ InOneDay(w)
             /\ from <= w[1] /\ w[1] < w[2] /\ w[2] <= to
             /\ \E d \in Int : \E v \in Compile(c, r, d) : v[1] <= w[1] /\ w[2] <= v[2]
  <2>1. PICK d \in days : \E v \in of(d) :
               /\ w = clip(v) /\ v[1] \in Int /\ v[2] \in Int
               /\ d * DayLen <= v[1] /\ v[2] <= (d + 1) * DayLen
               /\ w[1] \in Int /\ w[2] \in Int /\ w = <<w[1], w[2]>>
               /\ v[1] <= w[1] /\ w[2] <= v[2] /\ from <= w[1] /\ w[2] <= to /\ w[1] < w[2]
    BY <1>7
  <2>2. PICK v \in of(d) :
               /\ v[1] \in Int /\ v[2] \in Int
               /\ d * DayLen <= v[1] /\ v[2] <= (d + 1) * DayLen
               /\ w[1] \in Int /\ w[2] \in Int /\ w = <<w[1], w[2]>>
               /\ v[1] <= w[1] /\ w[2] <= v[2] /\ from <= w[1] /\ w[2] <= to /\ w[1] < w[2]
    BY <2>1
  <2>3. d \in Nat /\ d * DayLen \in Int /\ (d + 1) * DayLen \in Int
    BY <1>3, DayLenAssumption
  <2>4. w \in Nat \X Nat
    BY <2>2
  <2>5. d * DayLen <= w[1] /\ w[2] <= (d + 1) * DayLen
    BY <2>2, <2>3
  <2> QED
    BY <2>2, <2>3, <2>4, <2>5 DEF InOneDay, of
<1>9. ASSUME NEW w \in ws, NEW x \in ws, w # x
      PROVE  w[2] <= x[1] \/ x[2] <= w[1]
  <2>1. PICK d \in days : \E v \in of(d) :
               /\ w = clip(v) /\ v[1] \in Int /\ v[2] \in Int
               /\ d * DayLen <= v[1] /\ v[2] <= (d + 1) * DayLen
               /\ w[1] \in Int /\ w[2] \in Int /\ w = <<w[1], w[2]>>
               /\ v[1] <= w[1] /\ w[2] <= v[2] /\ from <= w[1] /\ w[2] <= to /\ w[1] < w[2]
    BY <1>7
  <2>2. PICK e \in days : \E v \in of(e) :
               /\ x = clip(v) /\ v[1] \in Int /\ v[2] \in Int
               /\ e * DayLen <= v[1] /\ v[2] <= (e + 1) * DayLen
               /\ x[1] \in Int /\ x[2] \in Int /\ x = <<x[1], x[2]>>
               /\ v[1] <= x[1] /\ x[2] <= v[2] /\ from <= x[1] /\ x[2] <= to /\ x[1] < x[2]
    BY <1>7, <1>9
  <2>3. PICK v \in of(d) :
               /\ w = clip(v) /\ v[1] \in Int /\ v[2] \in Int
               /\ d * DayLen <= v[1] /\ v[2] <= (d + 1) * DayLen
               /\ w[1] \in Int /\ w[2] \in Int
               /\ v[1] <= w[1] /\ w[2] <= v[2]
    BY <2>1
  <2>4. PICK u \in of(e) :
               /\ x = clip(u) /\ u[1] \in Int /\ u[2] \in Int
               /\ e * DayLen <= u[1] /\ u[2] <= (e + 1) * DayLen
               /\ x[1] \in Int /\ x[2] \in Int
               /\ u[1] <= x[1] /\ x[2] <= u[2]
    BY <2>2
  <2>5. d \in Nat /\ e \in Nat
    BY <1>3
  <2>6. CASE d = e
    <3>1. u # v
      BY <1>9, <2>3, <2>4
    <3>2. v[2] <= u[1] \/ u[2] <= v[1]
      BY <1>4, <2>6, <3>1 DEF Apart
    <3> QED
      BY <2>3, <2>4, <3>2
  <2>7. CASE d < e
    <3>1. (d + 1) * DayLen <= e * DayLen
      BY <2>5, <2>7, DayLenAssumption
    <3>2. d * DayLen \in Int /\ (d + 1) * DayLen \in Int /\ e * DayLen \in Int
      BY <2>5, DayLenAssumption
    <3> HIDE DEF clip
    <3> QED
      BY <2>3, <2>4, <3>1, <3>2
  <2>8. CASE e < d
    <3>1. (e + 1) * DayLen <= d * DayLen
      BY <2>5, <2>8, DayLenAssumption
    <3>2. d * DayLen \in Int /\ (e + 1) * DayLen \in Int /\ e * DayLen \in Int
      BY <2>5, DayLenAssumption
    <3> HIDE DEF clip
    <3> QED
      BY <2>3, <2>4, <3>1, <3>2
  <2> QED
    BY <2>5, <2>6, <2>7, <2>8
<1> QED
  BY <1>6, <1>8, <1>9 DEF Apart, ws

-----------------------------------------------------------------------------
(* Making room on a day. *)

FixedFold == INSTANCE OrderedFolds WITH
  Step <- LAMBDA w, v, acc, x : PastFixed(w, acc, x),
  Less <- LAMBDA w, a, b : Earlier(a, b)

FirstWindow == INSTANCE OrderedFolds WITH
  Step <- LAMBDA w, v, acc, x : acc,
  Less <- LAMBDA w, a, b : b[1][1] < a[1][1]

\* Where the loop is after the fixed intervals of T: none of them is in the way.
Passed(total, T, at) == at \in Int /\ \A f \in T : f[2] <= at \/ at + total <= f[1]

\* The time found in a window, if it has room, is no earlier than asked and clear of what is fixed.
LEMMA ClearFromIs ==
  ASSUME NEW from \in Int, NEW window \in Int \X Int, NEW fixed, IsFiniteSet(fixed),
         fixed \subseteq Int \X Int, NEW total \in Nat
  PROVE  LET at == ClearFrom(from, window, fixed, total)
         IN  /\ at \in Int /\ from <= at
             /\ at + total <= window[2] => \A f \in fixed : f[2] <= at \/ at + total <= f[1]
<1> DEFINE near == {f \in fixed : f[2] > from /\ f[1] < window[2]}
           fold(T) == FixedFold!Fold(total, 0, from, T)
           P == {T \in SUBSET near : from <= fold(T) /\ Passed(total, T, fold(T))}
           at == ClearFrom(from, window, fixed, total)
<1>1. IsFiniteSet(near) /\ near \subseteq Int \X Int
  BY FS_Subset
<1>2. FixedFold!IsFiniteSet(near) /\ FixedFold!HasLast(total, near)
  <2>1. FixedFold!IsFiniteSet(near)
    BY <1>1 DEF IsFiniteSet, FixedFold!IsFiniteSet
  <2>2. \A x \in near : ~ Earlier(x, x)
    BY DEF Earlier
  <2>3. \A x, y, z \in near : Earlier(x, y) /\ Earlier(y, z) => Earlier(x, z)
    BY DEF Earlier
  <2> HIDE DEF near
  <2> QED
    BY <2>1, <2>2, <2>3, FixedFold!OrdersHaveLast
<1>3. at = fold(near)
  BY Zenon DEF ClearFrom, InOrder, FixedFold!Fold, MapThenFoldSet, FixedFold!MapThenFoldSet
<1> HIDE DEF near, at
<1>4. {} \in P
  <2>1. fold({}) = from
    BY FixedFold!FoldOfNone
  <2> HIDE DEF fold
  <2> QED
    BY <2>1 DEF Passed
<1>5. ASSUME NEW T \in SUBSET near, T # {}, T \ {FixedFold!Last(total, T)} \in P
      PROVE  T \in P
  <2> DEFINE x == FixedFold!Last(total, T)
             R == T \ {x}
  <2>1. x \in T /\ \A y \in T : ~ Earlier(x, y)
    BY <1>2, <1>5, FixedFold!LastIsIn
  <2>2. FixedFold!IsFiniteSet(T) /\ FixedFold!HasLast(total, T)
    <3>1. IsFiniteSet(T)
      BY <1>1, FS_Subset
    <3>2. FixedFold!HasLast(total, T)
      BY <1>2 DEF FixedFold!HasLast
    <3> QED
      BY <3>1, <3>2 DEF IsFiniteSet, FixedFold!IsFiniteSet
  <2>3. fold(T) = PastFixed(total, fold(R), x)
    BY <1>5, <2>2, FixedFold!FoldUnfolds
  <2>4. from <= fold(R) /\ Passed(total, R, fold(R))
    BY <1>5
  <2> HIDE DEF x
  <2>5. T = R \cup {x} /\ R \subseteq Int \X Int /\ x \in Int \X Int
    BY <1>1, <2>1
  <2>6. \A y \in R : y[1] <= x[1]
    BY <2>1, <2>5 DEF Earlier
  <2> HIDE DEF R, fold
  <2>7. from <= PastFixed(total, fold(R), x) /\ Passed(total, R \cup {x}, PastFixed(total, fold(R), x))
    <3>1. CASE fold(R) < x[2] /\ fold(R) + total > x[1]
      <4>1. PastFixed(total, fold(R), x) = x[2]
        BY <3>1 DEF PastFixed
      <4>2. \A y \in R : y[2] <= x[2]
        BY <2>4, <2>5, <2>6, <3>1 DEF Passed
      <4> QED
        BY <2>4, <2>5, <3>1, <4>1, <4>2 DEF Passed
    <3>2. CASE ~ (fold(R) < x[2] /\ fold(R) + total > x[1])
      <4>1. PastFixed(total, fold(R), x) = fold(R)
        BY <3>2 DEF PastFixed
      <4> QED
        BY <2>4, <2>5, <3>2, <4>1 DEF Passed
    <3> QED
      BY <3>1, <3>2
  <2>8. from <= fold(T) /\ Passed(total, T, fold(T))
    BY <2>3, <2>5, <2>7, Zenon
  <2> QED
    BY <2>8
<1>6. near \in P
  <2> HIDE DEF P
  <2> QED
    BY <1>2, <1>4, <1>5, FixedFold!InductionInOrder
<1>7. from <= at /\ Passed(total, near, at)
  BY <1>3, <1>6
<1>8. ASSUME at + total <= window[2], NEW f \in fixed
      PROVE  f[2] <= at \/ at + total <= f[1]
  BY <1>7, <1>8 DEF near, Passed
<1> QED
  BY <1>7, <1>8 DEF Passed, at

\* Where a session that gives way goes has room for it, behind the cursor and not before its plan.
LEMMA NextRoomIs ==
  ASSUME NEW windows, IsFiniteSet(windows), windows \subseteq Int \X Int,
         NEW fixed, IsFiniteSet(fixed), fixed \subseteq Int \X Int,
         NEW cursor \in Int, NEW row, row.start \in Nat, Release(row) - row.start \in Nat
  PROVE  LET at == NextRoom(windows, fixed, cursor, row)
             total == Release(row) - row.start
         IN  at # None =>
               /\ at \in Nat /\ cursor <= at /\ row.start <= at
               /\ \E w \in windows : w[1] <= at /\ at + total <= w[2]
               /\ \A f \in fixed : f[2] <= at \/ at + total <= f[1]
<1> DEFINE total == Release(row) - row.start
           asked(w) == Max({cursor, row.start, w[1]})
           tried == {<<w, ClearFrom(asked(w), w, fixed, total)>> : w \in windows}
           found == {x \in tried : x[2] + total <= x[1][2]}
           at == NextRoom(windows, fixed, cursor, row)
<1>1. at = FirstFound(found)
  BY DEF NextRoom
<1>2. ASSUME NEW x \in found
      PROVE  /\ x[2] \in Nat /\ cursor <= x[2] /\ row.start <= x[2]
             /\ x[1] \in windows /\ x[1][1] <= x[2] /\ x[2] + total <= x[1][2]
             /\ \A f \in fixed : f[2] <= x[2] \/ x[2] + total <= f[1]
  <2>1. PICK w \in windows : x = <<w, ClearFrom(asked(w), w, fixed, total)>>
    OBVIOUS
  <2>2. x[1] = w /\ x[2] = ClearFrom(asked(w), w, fixed, total) /\ x[2] + total <= x[1][2]
    BY <2>1
  <2>3. w \in Int \X Int /\ total \in Nat
    OBVIOUS
  <2>4. asked(w) \in Int /\ cursor <= asked(w) /\ row.start <= asked(w) /\ w[1] <= asked(w)
    <3>1. cursor \in Int /\ row.start \in Int /\ w[1] \in Int
      BY <2>3
    <3>2. \E m \in {cursor, row.start, w[1]} : \A y \in {cursor, row.start, w[1]} : m >= y
      BY <3>1
    <3>3. asked(w) \in {cursor, row.start, w[1]} /\ \A y \in {cursor, row.start, w[1]} : asked(w) >= y
      BY <3>2 DEF Max
    <3> HIDE DEF asked
    <3> QED
      BY <3>1, <3>3
  <2> HIDE DEF asked, total
  <2>5. /\ x[2] \in Int /\ asked(w) <= x[2]
        /\ x[2] + total <= w[2] => \A f \in fixed : f[2] <= x[2] \/ x[2] + total <= f[1]
    BY <2>2, <2>3, <2>4, ClearFromIs, ZenonT(30)
  <2> QED
    BY <2>2, <2>3, <2>4, <2>5
<1>3. CASE found = {}
  BY <1>1, <1>3 DEF FirstFound
<1>4. CASE found # {}
  <2>1. \E x \in found : \A y \in found : x[1][1] <= y[1][1]
    <3> DEFINE S == {x[1][1] : x \in found}
    <3>1. IsFiniteSet(found)
      <4> DEFINE f == [w \in windows |-> <<w, ClearFrom(asked(w), w, fixed, total)>>]
      <4>1. tried = {f[w] : w \in DOMAIN f} /\ DOMAIN f = windows
        OBVIOUS
      <4>2. IsFiniteSet(tried)
        <5> HIDE DEF f, tried
        <5> QED
          BY <4>1, RangeIsFinite
      <4> QED
        BY <4>2, FS_Subset
    <3>2. \A x \in found : x[1][1] \in Int
      BY <1>2
    <3> HIDE DEF found
    <3>3. FirstWindow!HasLast(0, found)
      <4>1. FirstWindow!IsFiniteSet(found)
        BY <3>1 DEF IsFiniteSet, FirstWindow!IsFiniteSet
      <4>2. \A x \in found : ~ (x[1][1] < x[1][1])
        BY <3>2
      <4>3. \A x, y, z \in found : y[1][1] < x[1][1] /\ z[1][1] < y[1][1] => z[1][1] < x[1][1]
        BY <3>2
      <4> QED
        BY <4>1, <4>2, <4>3, FirstWindow!OrdersHaveLast
    <3>4. PICK x \in found : \A y \in found : ~ (y[1][1] < x[1][1])
      BY <1>4, <3>3 DEF FirstWindow!HasLast
    <3> QED
      BY <3>2, <3>4
  <2> DEFINE x == CHOOSE z \in found : \A y \in found : z[1][1] <= y[1][1]
  <2>2. x \in found
    <3> HIDE DEF found
    <3> QED
      BY <2>1
  <2>3. at = x[2]
    BY <1>1, <1>4 DEF FirstFound
  <2> HIDE DEF x, found, at, total
  <2> QED
    BY <1>2, <2>2, <2>3 DEF at, total
<1> QED
  BY <1>3, <1>4

-----------------------------------------------------------------------------
(* The invariant of the schedule. *)

RunRecords ==
  [status : {"active"}, started : Nat, forecast : {NoForecast} \cup [end : Nat, buffer : Int]]
    \cup [status : {"completed"}, started : Nat, ended : Nat]

\* What the tables hold.
Stored ==
  /\ TypeOK
  /\ run \in [Items -> RunRecords \cup {NoRun}]
  /\ res \in [Resources -> ResourceFacts]
  /\ \A r, t \in Resources : r # t => res[r].label # res[t].label
  /\ \A c \in published : ConfigOK(Config[c])

\* How the tables refer to each other.
Related ==
  /\ \A i \in Items : item[i] # NoItem => item[i].start < item[i].end /\ item[i].buffer <= MaxBuffer
  /\ \A q \in Requests : item[q] # NoItem =>
       req[q] # NoOrder /\ item[q].mode = "single" /\ Resolved(item[q])
  /\ \A i \in Items : run[i] # NoRun => i \in Requests \cap Alive

\* What was assembled for some of the resources, whenever that was, and could be planned.
Readable(input) ==
  /\ DOMAIN input.resources \in (SUBSET Resources) \ {{}}
  /\ DOMAIN input.resources \subseteq DOMAIN Config[input.config].calendar
  /\ Generable(input)

\* What remembers an older state of the tables: the drafts, and the generation under way.
Remembered ==
  /\ proposal \in [Ops -> {proposal[o] : o \in Ops}]
  /\ \A o \in Ops : proposal[o] # NoProposal =>
       /\ proposal[o] \in [status : {"draft", "stale", "rejected", "accepted", "partiallyAccepted"},
                           scope : SUBSET Resources, input : {proposal[o].input}]
       /\ Draft(o) => Readable(proposal[o].input) /\ proposal[o].scope = DOMAIN proposal[o].input.resources
  /\ reading # NotReading =>
       reading \in [op : Ops, input : {reading.input}] /\ Readable(reading.input)

MoveCommand(c) ==
  c \in [action : {"reschedule"}, op : Ops, item : Requests, from : Int, to : Int,
         rev : {c.rev}, proj : {c.proj}, config : {c.config}, by : Assistants]

AdoptCommand(c) ==
  /\ c \in [action : {"adopt_proposal"}, op : Ops, generation : Ops, input : {c.input},
            selected : {Generate(c.input)}, by : Assistants]
  /\ Readable(c.input)

Command(c) ==
  IF c.action = "reschedule" THEN MoveCommand(c) ELSE c.action = "adopt_proposal" /\ AdoptCommand(c)

\* What the delegations remember: commands as an owner was offered them, and calls in between.
Commanded ==
  /\ \A h \in Processes, s \in Sources :
       records[h][s] # NoRecord =>
         /\ records[h][s] \in [command : {records[h][s].command}, until : Nat, cancelled : BOOLEAN]
         /\ Command(records[h][s].command)
  /\ \A h \in Processes : doing[h] # Nothing =>
       /\ \/ doing[h] \in [at : {"cancelling"}, source : Sources, command : {doing[h].command}]
          \/ doing[h] \in [at : {"calling"}, source : Sources, command : {doing[h].command}, until : Nat]
       /\ Command(doing[h].command)
  /\ \A h \in Processes : claimed[h] # Nothing =>
       /\ claimed[h] \in [at : {"calling"}, source : Sources, command : {claimed[h].command}, until : Nat]
       /\ Command(claimed[h].command)
  /\ \A s \in Sources : tombstone[s] # NoRecord =>
       tombstone[s] \in [command : {tombstone[s].command}] /\ Command(tombstone[s].command)
  /\ \A s \in Sources : \A x \in attempts[s] : Command(x)

Boundaries ==
  /\ hosts \subseteq Processes
  /\ records = [h \in Processes |-> [s \in Sources |-> records[h][s]]]
  /\ doing = [h \in Processes |-> doing[h]]
  /\ claimed = [h \in Processes |-> claimed[h]]
  /\ tombstone = [s \in Sources |-> tombstone[s]]
  /\ attempts = [s \in Sources |-> attempts[s]]
  /\ sent = [s \in Sources |-> sent[s]]
  /\ \A s \in Sources : sent[s] = << >> \/ \E a \in Assistants : sent[s] = <<a>>
  /\ effective \subseteq Sources

\* An attempt is on record before anything is sent for a source, and at most one process sends.
OneAttempt ==
  /\ \A s \in Sources : sent[s] # << >> => \E x \in attempts[s] : sent[s] = <<x.by>>
  /\ \A h \in Processes : claimed[h] # Nothing =>
       /\ sent[claimed[h].source] = << >>
       /\ claimed[h].command \in attempts[claimed[h].source]
  /\ \A g, h \in Processes :
       g # h /\ claimed[g] # Nothing /\ claimed[h] # Nothing => claimed[g].source # claimed[h].source

TableInv == Stored /\ Related /\ Remembered
PlanInv == DraftsCurrent /\ CardTellsTime /\ NoOverlap /\ CalendarKept
CallInv == Boundaries /\ Commanded /\ OneAttempt

-----------------------------------------------------------------------------
(* The rest of a day that is adjusted. *)

DayFold == INSTANCE OrderedFolds WITH
  Step <- LAMBDA w, v, acc, x : GiveWay(w, v, acc, x),
  Less <- LAMBDA w, a, b : item[a].start < item[b].start

\* Where a session is after some have been moved, and when it frees its resource then.
NewStart(moved, j) ==
  IF \E m \in moved : m[1] = j THEN (CHOOSE m \in moved : m[1] = j)[2] ELSE item[j].start
NewEnd(moved, j) == NewStart(moved, j) + (Release(item[j]) - item[j].start)

Pushable(j) == Movable(j) /\ Settled(j) /\ item[j].start > now

\* A session that was moved: it may be, and it has room in a window, clear of what is fixed.
Fits(windows, fixed, j, at) ==
  LET total == Release(item[j]) - item[j].start
  IN  /\ Pushable(j)
      /\ at \in Nat /\ item[j].start <= at
      /\ \E w \in windows : w[1] <= at /\ at + total <= w[2]
      /\ \A f \in fixed : f[2] <= at \/ at + total <= f[1]

\* What holds after the sessions of T: those behind the anchor lie apart, up to the cursor.
GaveWay(clear, release, windows, fixed, T, acc) ==
  /\ acc \in [ok : BOOLEAN, cursor : Int, moved : SUBSET (Items \X Int)]
  /\ \A m \in acc.moved : m[1] \in T
  /\ acc.ok =>
       /\ clear
       /\ release <= acc.cursor
       /\ \A m, n \in acc.moved : m[1] = n[1] => m = n
       /\ \A m \in acc.moved : Fits(windows, fixed, m[1], m[2])
       /\ \A j \in T : release <= NewStart(acc.moved, j) /\ NewEnd(acc.moved, j) <= acc.cursor
       /\ \A j, k \in T : j # k => NewEnd(acc.moved, j) <= NewStart(acc.moved, k)
                                     \/ NewEnd(acc.moved, k) <= NewStart(acc.moved, j)

Timely(j) == item[j].start \in Nat /\ Release(item[j]) \in Nat /\ item[j].start < Release(item[j])

LEMMA FreeAtIs ==
  ASSUME Stored, NEW j \in Items, Timely(j), Known(item[j]), item[j] # NoItem
  PROVE  FreeAt(j) \in Int /\ Release(item[j]) <= FreeAt(j)
<1>1. CASE run[j].status = "completed"
  <2>1. run[j].ended + item[j].buffer \in Int
    <3>1. run[j].ended \in Nat
      BY <1>1 DEF Stored, RunRecords, NoRun
    <3>2. item[j].buffer \in Nat
      BY DEF Stored, TypeOK, ItemRecords, Known, Unknown
    <3> QED
      BY <3>1, <3>2
  <2> DEFINE a == Release(item[j])
             b == run[j].ended + item[j].buffer
  <2>2. FreeAt(j) = Max({a, b})
    BY <1>1 DEF FreeAt
  <2>3. a \in Int
    BY DEF Timely
  <2> HIDE DEF a, b
  <2>4. Max({a, b}) \in {a, b} /\ Max({a, b}) >= a
    BY <2>1, <2>3, TwoBounds DEF b
  <2> QED
    BY <2>1, <2>2, <2>3, <2>4 DEF a, b
<1>2. CASE run[j].status # "completed"
  BY <1>2 DEF FreeAt, Timely
<1> QED
  BY <1>1, <1>2

LEMMA GiveWayStep ==
  ASSUME Stored, NEW clear, NEW release \in Int,
         NEW windows, IsFiniteSet(windows), windows \subseteq Int \X Int,
         NEW fixed, IsFiniteSet(fixed), fixed \subseteq Int \X Int,
         NEW T \in SUBSET Items, NEW acc, GaveWay(clear, release, windows, fixed, T, acc),
         \A j \in T : Timely(j),
         NEW x \in Items, x \notin T, Timely(x), Known(item[x]), item[x] # NoItem
  PROVE  GaveWay(clear, release, windows, fixed, T \cup {x}, GiveWay(windows, fixed, acc, x))
<1> DEFINE after == GiveWay(windows, fixed, acc, x)
           total == Release(item[x]) - item[x].start
           at == NextRoom(windows, fixed, acc.cursor, item[x])
<1>1. /\ acc \in [ok : BOOLEAN, cursor : Int, moved : SUBSET (Items \X Int)]
      /\ \A m \in acc.moved : m[1] \in T
  BY DEF GaveWay
<1>2. total \in Nat /\ total > 0 /\ item[x].start \in Nat
  BY DEF Timely
<1>3. CASE ~ acc.ok
  <2>1. after = acc
    BY <1>3 DEF GiveWay
  <2> HIDE DEF after
  <2> QED
    BY <1>1, <1>3, <2>1 DEF GaveWay, after
<1>4. ASSUME acc.ok,
             after \in [ok : BOOLEAN, cursor : Int, moved : SUBSET (Items \X Int)],
             after.ok, acc.cursor <= after.cursor,
             after.moved = acc.moved
               \/ \E t \in Int : after.moved = acc.moved \cup {<<x, t>>} /\ Fits(windows, fixed, x, t),
             acc.cursor <= NewStart(after.moved, x), NewEnd(after.moved, x) <= after.cursor,
             NewStart(after.moved, x) \in Int
      PROVE  GaveWay(clear, release, windows, fixed, T \cup {x}, after)
  <2> HIDE DEF after
  <2>1. /\ clear /\ release <= acc.cursor
        /\ \A m, n \in acc.moved : m[1] = n[1] => m = n
        /\ \A m \in acc.moved : Fits(windows, fixed, m[1], m[2])
        /\ \A j \in T : release <= NewStart(acc.moved, j) /\ NewEnd(acc.moved, j) <= acc.cursor
        /\ \A j, k \in T : j # k => NewEnd(acc.moved, j) <= NewStart(acc.moved, k)
                                      \/ NewEnd(acc.moved, k) <= NewStart(acc.moved, j)
    BY <1>4 DEF GaveWay
  <2>2. \A m \in after.moved : m \in acc.moved \/ m[1] = x
    BY <1>4
  <2>3. acc.moved \subseteq after.moved
    BY <1>4
  <2>4. \A m, n \in after.moved : m[1] = n[1] => m = n
    <3>1. CASE after.moved = acc.moved
      BY <2>1, <3>1
    <3>2. CASE \E t \in Int : after.moved = acc.moved \cup {<<x, t>>} /\ Fits(windows, fixed, x, t)
      <4>1. PICK t \in Int : after.moved = acc.moved \cup {<<x, t>>}
        BY <3>2
      <4> QED
        BY <1>1, <2>1, <4>1
    <3> QED
      BY <1>4, <3>1, <3>2
  <2>5. \A m \in after.moved : Fits(windows, fixed, m[1], m[2])
    BY <1>4, <2>1
  <2>6. ASSUME NEW j \in T
        PROVE  /\ NewStart(after.moved, j) = NewStart(acc.moved, j)
               /\ NewEnd(after.moved, j) = NewEnd(acc.moved, j)
               /\ NewStart(acc.moved, j) \in Int /\ NewEnd(acc.moved, j) \in Int
    <3>1. (\E m \in after.moved : m[1] = j) <=> (\E m \in acc.moved : m[1] = j)
      BY <2>2, <2>3
    <3>2. CASE \E m \in acc.moved : m[1] = j
      <4>1. PICK m \in acc.moved : m[1] = j
        BY <3>2
      <4>2. \A n \in after.moved : n[1] = j => n = m
        BY <2>3, <2>4, <4>1
      <4>3. (CHOOSE n \in after.moved : n[1] = j) = m /\ (CHOOSE n \in acc.moved : n[1] = j) = m
        BY <2>3, <4>1, <4>2
      <4>4. m[2] \in Int
        BY <1>1
      <4>5. NewStart(after.moved, j) = m[2] /\ NewStart(acc.moved, j) = m[2]
        BY <3>1, <3>2, <4>3, Zenon DEF NewStart
      <4> QED
        BY <4>4, <4>5 DEF NewEnd, Timely
    <3>3. CASE ~ \E m \in acc.moved : m[1] = j
      BY <3>1, <3>3 DEF NewStart, NewEnd, Timely
    <3> QED
      BY <3>2, <3>3
  <2>7. NewEnd(after.moved, x) = NewStart(after.moved, x) + total
    BY DEF NewEnd
  <2>8. \A j \in T \cup {x} :
          release <= NewStart(after.moved, j) /\ NewEnd(after.moved, j) <= after.cursor
    <3>1. \A j \in T : NewEnd(acc.moved, j) <= after.cursor
      BY <1>1, <1>4, <2>1, <2>6
    <3>2. release <= NewStart(after.moved, x)
      BY <1>1, <1>4, <2>1
    <3> QED
      BY <1>4, <2>1, <2>6, <3>1, <3>2
  <2>9. \A j \in T : NewEnd(after.moved, j) <= NewStart(after.moved, x)
    BY <1>1, <1>4, <2>1, <2>6
  <2>10. \A j, k \in T \cup {x} : j # k => NewEnd(after.moved, j) <= NewStart(after.moved, k)
                                            \/ NewEnd(after.moved, k) <= NewStart(after.moved, j)
    BY <2>1, <2>6, <2>9
  <2>11. \A m \in after.moved : m[1] \in T \cup {x}
    BY <1>1, <2>2
  <2>12. release <= after.cursor
    BY <1>1, <1>4, <2>1
  <2> QED
    BY <1>4, <2>1, <2>4, <2>5, <2>8, <2>10, <2>11, <2>12 DEF GaveWay
<1>5. CASE acc.ok /\ Pushable(x)
  <2>1. after = Pushed(acc, x, at)
    BY <1>5 DEF GiveWay, Pushable
  <2>2. at # None =>
          /\ at \in Nat /\ acc.cursor <= at /\ item[x].start <= at
          /\ \E w \in windows : w[1] <= at /\ at + total <= w[2]
          /\ \A f \in fixed : f[2] <= at \/ at + total <= f[1]
    <3> SUFFICES ASSUME at # None
                 PROVE  /\ at \in Nat /\ acc.cursor <= at /\ item[x].start <= at
                        /\ \E w \in windows : w[1] <= at /\ at + total <= w[2]
                        /\ \A f \in fixed : f[2] <= at \/ at + total <= f[1]
      OBVIOUS
    <3>1. acc.cursor \in Int
      BY <1>1
    <3> QED
      BY <1>2, <3>1, NextRoomIs
  <2>3. at \in Int
    BY <2>2 DEF None
  <2> HIDE DEF at, after
  <2>4. /\ after.ok = (at # None) /\ after.moved = acc.moved \cup {<<x, at>>}
        /\ after.cursor = at + Release(item[x]) - item[x].start
    BY <1>1, <2>1 DEF Pushed
  <2>5. after \in [ok : BOOLEAN, cursor : Int, moved : SUBSET (Items \X Int)]
    <3>1. at + Release(item[x]) - item[x].start \in Int /\ (at # None) \in BOOLEAN
      BY <2>3 DEF Timely
    <3>2. acc.moved \cup {<<x, at>>} \in SUBSET (Items \X Int)
      BY <1>1, <2>3
    <3> QED
      BY <1>1, <2>1, <3>1, <3>2 DEF Pushed
  <2>6. CASE ~ after.ok
    <3>1. \A m \in after.moved : m[1] \in T \cup {x}
      BY <1>1, <2>4
    <3> QED
      BY <2>5, <2>6, <3>1 DEF GaveWay, after
  <2>7. CASE after.ok
    <3>1. Fits(windows, fixed, x, at)
      BY <1>5, <2>2, <2>4, <2>7 DEF Fits
    <3>2. NewStart(after.moved, x) = at
      <4>1. <<x, at>> \in after.moved
        BY <2>4
      <4>2. \A m \in after.moved : m[1] = x => m = <<x, at>>
        BY <1>1, <2>4
      <4>3. (CHOOSE m \in after.moved : m[1] = x) = <<x, at>>
        BY <4>1, <4>2
      <4>4. \E m \in after.moved : m[1] = x
        BY <4>1
      <4>5. NewStart(after.moved, x) = <<x, at>>[2]
        BY <4>3, <4>4, Zenon DEF NewStart
      <4> QED
        BY <4>5
    <3>3. NewEnd(after.moved, x) = after.cursor
      BY <2>3, <2>4, <3>2 DEF NewEnd, Timely
    <3>4. acc.cursor <= at /\ acc.cursor <= after.cursor /\ after.cursor \in Int
      <4>1. at # None
        BY <2>4, <2>7
      <4>2. at \in Nat /\ acc.cursor <= at /\ acc.cursor \in Int
        BY <1>1, <2>2, <4>1
      <4> QED
        BY <2>4, <4>2 DEF Timely
    <3>5. \E t \in Int : after.moved = acc.moved \cup {<<x, t>>} /\ Fits(windows, fixed, x, t)
      BY <2>3, <2>4, <3>1
    <3> QED
      BY <1>4, <1>5, <2>3, <2>5, <2>7, <3>2, <3>3, <3>4, <3>5 DEF after
  <2> QED
    BY <2>6, <2>7
<1>6. CASE acc.ok /\ ~ Pushable(x)
  <2>1. after = [acc EXCEPT !.ok = EndKnown(x) /\ item[x].start >= acc.cursor,
                            !.cursor = Max({acc.cursor, FreeAt(x)})]
    BY <1>6 DEF GiveWay, Pushable
  <2>2. FreeAt(x) \in Int /\ Release(item[x]) <= FreeAt(x)
    BY FreeAtIs
  <2>3. /\ Max({acc.cursor, FreeAt(x)}) \in Int /\ acc.cursor <= Max({acc.cursor, FreeAt(x)})
        /\ FreeAt(x) <= Max({acc.cursor, FreeAt(x)})
    BY <1>1, <2>2, TwoBounds
  <2> HIDE DEF after
  <2>4. /\ after.ok = (EndKnown(x) /\ item[x].start >= acc.cursor) /\ after.moved = acc.moved
        /\ after.cursor = Max({acc.cursor, FreeAt(x)})
    BY <1>1, <2>1
  <2>5. after \in [ok : BOOLEAN, cursor : Int, moved : SUBSET (Items \X Int)]
    <3>1. (EndKnown(x) /\ item[x].start >= acc.cursor) \in BOOLEAN
      BY DEF EndKnown
    <3> QED
      BY <1>1, <2>1, <2>3, <3>1
  <2>6. CASE ~ after.ok
    <3>1. \A m \in after.moved : m[1] \in T \cup {x}
      BY <1>1, <2>4
    <3> QED
      BY <2>5, <2>6, <3>1 DEF GaveWay, after
  <2>7. CASE after.ok
    <3>1. NewStart(after.moved, x) = item[x].start
      BY <1>1, <2>4 DEF NewStart
    <3>2. NewEnd(after.moved, x) = Release(item[x])
      BY <3>1 DEF NewEnd, Timely
    <3>3. acc.cursor <= item[x].start /\ Release(item[x]) <= after.cursor /\ acc.cursor <= after.cursor
      <4>1. item[x].start >= acc.cursor
        BY <2>4, <2>7
      <4> QED
        BY <1>1, <1>2, <2>2, <2>3, <2>4, <4>1 DEF Timely
    <3> QED
      BY <1>2, <1>4, <1>6, <2>4, <2>5, <2>7, <3>1, <3>2, <3>3 DEF after
  <2> QED
    BY <2>6, <2>7
<1> QED
  BY <1>3, <1>5, <1>6

\* The rows of a resource whose day is adjusted: sessions with a length and a buffer.
Clocked(i) ==
  /\ i \in Requests \cap Alive /\ Resolved(item[i])
  /\ \A j \in Alive : item[j].resource \in {item[i].resource, None} => Resolved(item[j]) /\ Known(item[j])
  /\ CalendarHolds(item[i].resource)

SameResource(i) == {j \in Alive : item[j].resource = item[i].resource}
DayWindows(i) == Compile(active.config, item[i].resource, Day(item[i].start))
FixedOn(i) == {<<item[j].start, FreeAt(j)>> : j \in Staying(SameResource(i), i)}
ClearOn(i, from, release) ==
  \A j \in Staying(SameResource(i), i) :
    /\ EndKnown(j)
    /\ ~ (item[j].start < release /\ from < FreeAt(j))
    /\ item[j].start < item[i].start /\ Day(item[j].start) = Day(item[i].start) => from >= FreeAt(j)

LEMMA RowsAreTimely ==
  ASSUME Stored, Related, NEW j \in Alive, Known(item[j])
  PROVE  Timely(j) /\ item[j] # NoItem /\ j \in Items
<1>1. j \in Items /\ item[j] # NoItem /\ item[j].status = "confirmed"
  BY DEF Alive, NoItem
<1>2. item[j] \in ItemRecords
  BY <1>1 DEF Stored, TypeOK
<1>3. item[j].start < item[j].end /\ item[j].start \in Nat /\ item[j].end \in Nat /\ item[j].buffer \in Nat
  BY <1>1, <1>2 DEF Related, ItemRecords, Known, Unknown
<1> QED
  BY <1>1, <1>3 DEF Timely, Release

LEMMA DayAfterIsFold ==
  ASSUME NEW i, NEW from, NEW release
  PROVE  DayAfter(i, from, release) =
           DayFold!Fold(DayWindows(i), FixedOn(i),
                        [ok |-> ClearOn(i, from, release), cursor |-> release, moved |-> {}],
                        Following(SameResource(i), i))
BY Zenon DEF DayAfter, InOrder, DayFold!Fold, MapThenFoldSet, DayFold!MapThenFoldSet,
             DayWindows, FixedOn, ClearOn, SameResource

\* A day that has room: those that stay are clear of the anchor, and those behind it lie apart
\* from it, from each other, and, where they moved, from those that stay.
LEMMA DayAfterIs ==
  ASSUME Stored, Related, NEW i, Clocked(i), NEW from \in Int, NEW release \in Int
  PROVE  LET following == Following(SameResource(i), i)
         IN  /\ following \in SUBSET Items
             /\ \A j \in following : Timely(j)
             /\ \A j \in Staying(SameResource(i), i) :
                  Timely(j) /\ FreeAt(j) \in Int /\ Release(item[j]) <= FreeAt(j)
             /\ DayWindows(i) \subseteq Int \X Int
             /\ GaveWay(ClearOn(i, from, release), release, DayWindows(i), FixedOn(i), following,
                        DayAfter(i, from, release))
<1> DEFINE rows == SameResource(i)
           staying == Staying(rows, i)
           following == Following(rows, i)
           windows == DayWindows(i)
           fixed == FixedOn(i)
           clear == ClearOn(i, from, release)
           base == [ok |-> clear, cursor |-> release, moved |-> {}]
           fold(T) == DayFold!Fold(windows, fixed, base, T)
           P == {T \in SUBSET following : GaveWay(clear, release, windows, fixed, T, fold(T))}
<1>1. \A j \in rows : Timely(j) /\ Known(item[j]) /\ item[j] # NoItem /\ j \in Items
  BY RowsAreTimely DEF Clocked, SameResource
<1>2. staying \subseteq rows /\ following \subseteq rows
  BY DEF Staying, Following
<1>3. \A j \in staying : FreeAt(j) \in Int /\ Release(item[j]) <= FreeAt(j) /\ item[j].start \in Int
  BY <1>1, <1>2, FreeAtIs DEF Timely
<1>4. IsFiniteSet(Items)
  BY FiniteAssumption DEF Items
<1>5. IsFiniteSet(windows) /\ windows \subseteq Int \X Int
  <2>1. active.config \in DOMAIN Config /\ ConfigOK(Config[active.config])
    BY DEF Stored, TypeOK
  <2>2. item[i].resource \in DOMAIN Config[active.config].calendar
    BY DEF Clocked, CalendarHolds
  <2>3. Day(item[i].start) \in Int
    <3>1. i \in rows
      BY DEF Clocked, SameResource
    <3> QED
      BY <1>1, <3>1, DayBounds DEF Timely
  <2> QED
    BY <2>1, <2>2, <2>3, CompileIs DEF DayWindows
<1>6. IsFiniteSet(fixed) /\ fixed \subseteq Int \X Int
  <2> DEFINE f == [j \in staying |-> <<item[j].start, FreeAt(j)>>]
  <2>1. fixed = {f[j] : j \in DOMAIN f} /\ DOMAIN f = staying
    BY DEF FixedOn
  <2>2. IsFiniteSet(staying)
    <3>1. staying \subseteq Items
      BY <1>1, <1>2
    <3> QED
      BY <1>4, <3>1, FS_Subset
  <2>3. \A j \in staying : f[j] \in Int \X Int
    BY <1>3
  <2> HIDE DEF f, fixed, staying
  <2> QED
    BY <2>1, <2>2, <2>3, RangeIsFinite
<1>7. following \in SUBSET Items /\ \A j \in following : Timely(j) /\ Known(item[j]) /\ item[j] # NoItem
  BY <1>1, <1>2
<1>8. clear \in BOOLEAN
  BY DEF ClearOn
<1> HIDE DEF rows, staying, windows, fixed, clear, following
<1>9. DayFold!HasLast(windows, following) /\ DayFold!IsFiniteSet(following)
  <2>1. IsFiniteSet(following)
    BY <1>4, <1>7, FS_Subset
  <2>2. DayFold!IsFiniteSet(following)
    BY <2>1 DEF IsFiniteSet, DayFold!IsFiniteSet
  <2>3. \A a \in following : ~ (item[a].start < item[a].start)
    BY <1>7 DEF Timely
  <2>4. \A a, b, c \in following :
          item[a].start < item[b].start /\ item[b].start < item[c].start => item[a].start < item[c].start
    BY <1>7 DEF Timely
  <2> QED
    BY <2>2, <2>3, <2>4, DayFold!OrdersHaveLast
<1>10. {} \in P
  <2>1. fold({}) = base
    BY DayFold!FoldOfNone
  <2>2. base \in [ok : BOOLEAN, cursor : Int, moved : SUBSET (Items \X Int)]
    BY <1>8
  <2>3. GaveWay(clear, release, windows, fixed, {}, base)
    BY <2>2 DEF GaveWay
  <2> QED
    BY <2>1, <2>3
<1>11. ASSUME NEW T \in SUBSET following, T # {}, T \ {DayFold!Last(windows, T)} \in P
       PROVE  T \in P
  <2> DEFINE x == DayFold!Last(windows, T)
             R == T \ {x}
  <2>1. x \in T
    BY <1>9, <1>11, DayFold!LastIsIn
  <2>2. DayFold!IsFiniteSet(T) /\ DayFold!HasLast(windows, T)
    <3>1. IsFiniteSet(T)
      <4>1. T \subseteq Items
        BY <1>7
      <4> QED
        BY <1>4, <4>1, FS_Subset
    <3>2. DayFold!HasLast(windows, T)
      BY <1>9 DEF DayFold!HasLast
    <3> QED
      BY <3>1, <3>2 DEF IsFiniteSet, DayFold!IsFiniteSet
  <2>3. fold(T) = GiveWay(windows, fixed, fold(R), x)
    BY <1>11, <2>2, DayFold!FoldUnfolds
  <2>4. GaveWay(clear, release, windows, fixed, R, fold(R))
    BY <1>11
  <2> HIDE DEF x
  <2>5. T = R \cup {x} /\ R \in SUBSET Items /\ x \in Items /\ x \notin R /\ R \subseteq following
        /\ x \in following
    BY <1>7, <2>1
  <2> HIDE DEF R, fold
  <2>6. \A j \in R : Timely(j)
    BY <1>7, <2>5
  <2>7. Timely(x) /\ Known(item[x]) /\ item[x] # NoItem
    BY <1>7, <2>5
  <2>8. GaveWay(clear, release, windows, fixed, R \cup {x}, GiveWay(windows, fixed, fold(R), x))
    BY <1>5, <1>6, <2>4, <2>5, <2>6, <2>7, GiveWayStep
  <2>9. GaveWay(clear, release, windows, fixed, T, fold(T))
    BY <2>3, <2>5, <2>8, Zenon
  <2> QED
    BY <2>9
<1>12. following \in P
  <2> HIDE DEF P
  <2> QED
    BY <1>9, <1>10, <1>11, DayFold!InductionInOrder
<1>13. DayAfter(i, from, release) = fold(following)
  BY DayAfterIsFold DEF windows, fixed, clear, following, rows
<1> HIDE DEF fold
<1>14. GaveWay(clear, release, windows, fixed, following, DayAfter(i, from, release))
  BY <1>12, <1>13
<1> QED
  BY <1>1, <1>2, <1>3, <1>5, <1>7, <1>14 DEF windows, fixed, clear, following, staying, rows

\* A session the adjustment moves: later, with its length and buffer, into a window of its day.
MovedOn(i, j) ==
  /\ j \in SameResource(i) /\ Known(item[j]) /\ Pushable(j)
  /\ item[i].start <= item[j].start /\ item[j].start <= item'[j].start
  /\ item'[j] \in ItemRecords
  /\ item'[j].status = "confirmed" /\ item'[j].resource = item[j].resource
  /\ item'[j].buffer = item[j].buffer /\ item'[j].mode = item[j].mode
  /\ item'[j].end - item'[j].start = item[j].end - item[j].start
  /\ item'[j].start < item'[j].end
  /\ \E w \in DayWindows(i) : w[1] <= item'[j].start /\ Release(item'[j]) <= w[2]

\* The rest of the day around an anchor that occupies [from, release).
Rearranged(i, from, release) ==
  /\ Clocked(i)
  /\ item' = [j \in Items |-> item'[j]]
  /\ \A j \in Items \ {i} : item'[j] = item[j] \/ MovedOn(i, j)
  /\ \A j \in SameResource(i) \ {i} : release <= item'[j].start \/ Release(item'[j]) <= from
  /\ \A j, k \in SameResource(i) \ {i} : j # k /\ item'[j] # item[j] =>
       Release(item'[j]) <= item'[k].start \/ Release(item'[k]) <= item'[j].start

LEMMA AdjustedIs ==
  ASSUME Stored, Related, NEW i \in Requests \cap Alive, Resolved(item[i]), NEW o,
         NEW from \in Int, NEW release \in Int, NEW anchor, NEW forecast,
         Adjusted(o, i, DayAfter(i, from, release), anchor, forecast)
  PROVE  Rearranged(i, from, release) /\ item'[i] = anchor
<1> DEFINE day == DayAfter(i, from, release)
           rows == SameResource(i)
           staying == Staying(rows, i)
           following == Following(rows, i)
           windows == DayWindows(i)
           fixed == FixedOn(i)
           clear == ClearOn(i, from, release)
           to(j) == (CHOOSE m \in day.moved : m[1] = j)[2]
           shifted(j) == [item[j] EXCEPT !.start = to(j), !.end = to(j) + (item[j].end - item[j].start)]
           moved == {m[1] : m \in day.moved}
<1>1. /\ Clocked(i)
      /\ day.ok
      /\ item' = [j \in Items |-> CASE j = i -> anchor
                                    [] j # i /\ j \in moved -> shifted(j)
                                    [] OTHER -> item[j]]
  BY DEF Adjusted, Clocked
<1>2. /\ following \in SUBSET Items
      /\ \A j \in following : Timely(j)
      /\ \A j \in staying : Timely(j) /\ FreeAt(j) \in Int /\ Release(item[j]) <= FreeAt(j)
      /\ windows \subseteq Int \X Int
      /\ GaveWay(clear, release, windows, fixed, following, day)
  BY <1>1, DayAfterIs
<1>3. /\ rows \subseteq Items /\ i \in rows /\ i \notin following
      /\ \A j \in rows : j = i \/ (j \in staying /\ j \notin following) \/ (j \in following /\ j \notin staying)
      /\ \A j \in staying \cup following : j \in rows /\ j # i
  BY DEF SameResource, Staying, Following, Alive
<1>4. \A j \in rows : Known(item[j]) /\ item[j] \in ItemRecords /\ item[j].status = "confirmed"
                      /\ item[j].resource = item[i].resource /\ item[j].buffer \in Nat
  <2> SUFFICES ASSUME NEW j \in rows
               PROVE  Known(item[j]) /\ item[j] \in ItemRecords /\ item[j].status = "confirmed"
                      /\ item[j].resource = item[i].resource /\ item[j].buffer \in Nat
    OBVIOUS
  <2>1. Known(item[j]) /\ item[j].resource = item[i].resource /\ item[j].status = "confirmed"
    BY <1>1 DEF Clocked, SameResource, Alive
  <2>2. item[j] \in ItemRecords
    BY <1>3, <2>1 DEF Stored, TypeOK, NoItem
  <2> QED
    BY <2>1, <2>2 DEF ItemRecords, Known, Unknown
<1>5. /\ clear
      /\ \A m \in day.moved : m[1] \in following /\ Fits(windows, fixed, m[1], m[2])
      /\ \A m, n \in day.moved : m[1] = n[1] => m = n
      /\ \A j \in following : release <= NewStart(day.moved, j)
      /\ \A j, k \in following : j # k => NewEnd(day.moved, j) <= NewStart(day.moved, k)
                                            \/ NewEnd(day.moved, k) <= NewStart(day.moved, j)
  BY <1>1, <1>2 DEF GaveWay
<1>6. ASSUME NEW j \in following
      PROVE  item[i].start <= item[j].start
  <2>1. ~ (item[j].start < item[i].start)
    BY <1>6 DEF Following, Staying
  <2> QED
    BY <1>3, <1>4, <1>6, <2>1 DEF ItemRecords
<1>7. ASSUME NEW j \in moved
      PROVE  /\ j \in following /\ to(j) = NewStart(day.moved, j) /\ Fits(windows, fixed, j, to(j))
             /\ item'[j] = shifted(j)
  <2>1. PICK m \in day.moved : m[1] = j
    OBVIOUS
  <2>2. \A n \in day.moved : n[1] = j => n = m
    BY <1>5, <2>1
  <2> HIDE DEF day
  <2>3. (CHOOSE n \in day.moved : n[1] = j) = m
    BY <2>1, <2>2
  <2>4. to(j) = m[2] /\ NewStart(day.moved, j) = m[2]
    BY <2>1, <2>3, Zenon DEF NewStart
  <2>5. j \in following /\ Fits(windows, fixed, j, m[2])
    BY <1>5, <2>1
  <2> HIDE DEF shifted, to, moved
  <2>6. j \in Items /\ j # i
    BY <1>3, <2>5
  <2> QED
    BY <1>1, <1>7, <2>4, <2>5, <2>6
<1> HIDE DEF day
<1>8. \A j \in Items \ {i} : j \notin moved => item'[j] = item[j]
  <2> HIDE DEF shifted, moved
  <2> QED
    BY <1>1
<1>9. ASSUME NEW j \in moved
      PROVE  /\ MovedOn(i, j)
             /\ item'[j].start = NewStart(day.moved, j) /\ Release(item'[j]) = NewEnd(day.moved, j)
             /\ \A f \in fixed : f[2] <= item'[j].start \/ Release(item'[j]) <= f[1]
  <2>1. j \in following /\ j \in rows /\ Timely(j) /\ Known(item[j]) /\ item[j] \in ItemRecords
    BY <1>2, <1>3, <1>4, <1>7
  <2> HIDE DEF to
  <2>2. /\ Pushable(j) /\ to(j) \in Nat /\ item[j].start <= to(j)
        /\ \E w \in windows : w[1] <= to(j) /\ to(j) + (Release(item[j]) - item[j].start) <= w[2]
        /\ \A f \in fixed : f[2] <= to(j) \/ to(j) + (Release(item[j]) - item[j].start) <= f[1]
    BY <1>7 DEF Fits
  <2>3. item[j].start < item[j].end
    BY <1>3, <2>1 DEF Related, ItemRecords, NoItem
  <2>4. item[j].end - item[j].start \in Nat /\ item[j].end - item[j].start > 0
    BY <2>1, <2>3 DEF ItemRecords
  <2>5. to(j) + (item[j].end - item[j].start) \in Nat
    BY <2>2, <2>4
  <2>6. /\ item'[j] \in ItemRecords
        /\ item'[j].start = to(j) /\ item'[j].end = to(j) + (item[j].end - item[j].start)
        /\ item'[j].status = item[j].status /\ item'[j].resource = item[j].resource
        /\ item'[j].buffer = item[j].buffer /\ item'[j].mode = item[j].mode
    BY <1>7, <2>1, <2>2, <2>5 DEF ItemRecords
  <2>7. Release(item'[j]) = to(j) + (Release(item[j]) - item[j].start)
    BY <1>4, <2>1, <2>2, <2>6 DEF Release, ItemRecords
  <2>8. item'[j].end - item'[j].start = item[j].end - item[j].start /\ item'[j].start < item'[j].end
    BY <2>1, <2>2, <2>4, <2>6 DEF ItemRecords
  <2>9. item'[j].start = NewStart(day.moved, j) /\ Release(item'[j]) = NewEnd(day.moved, j)
    BY <1>7, <2>6, <2>7 DEF NewEnd
  <2>10. MovedOn(i, j)
    <3>1. item[i].start <= item[j].start
      BY <1>6, <2>1
    <3>2. \E w \in windows : w[1] <= item'[j].start /\ Release(item'[j]) <= w[2]
      BY <2>2, <2>6, <2>7
    <3>3. item[j].start <= item'[j].start
      BY <2>2, <2>6
    <3> QED
      BY <1>4, <2>1, <2>2, <2>6, <2>8, <3>1, <3>2, <3>3 DEF MovedOn
  <2>11. \A f \in fixed : f[2] <= item'[j].start \/ Release(item'[j]) <= f[1]
    BY <2>2, <2>6, <2>7
  <2> QED
    BY <2>9, <2>10, <2>11
<1> HIDE DEF moved
<1>10. ASSUME NEW j \in following
       PROVE  item'[j].start = NewStart(day.moved, j) /\ Release(item'[j]) = NewEnd(day.moved, j)
  <2>1. CASE j \in moved
    BY <1>9, <2>1
  <2>2. CASE j \notin moved
    <3>1. j \in Items \ {i} /\ Timely(j)
      BY <1>2, <1>3, <1>10
    <3>2. item'[j] = item[j]
      BY <1>8, <2>2, <3>1
    <3>3. NewStart(day.moved, j) = item[j].start
      BY <2>2 DEF NewStart, moved
    <3> QED
      BY <3>1, <3>2, <3>3 DEF NewEnd, Timely
  <2> QED
    BY <2>1, <2>2
<1>11. ASSUME NEW j \in staying PROVE item'[j] = item[j]
  <2>1. j \in Items \ {i} /\ j \notin moved
    BY <1>3, <1>7, <1>11
  <2> QED
    BY <1>8, <2>1
<1>12. ASSUME NEW j \in rows \ {i}
       PROVE  release <= item'[j].start \/ Release(item'[j]) <= from
  <2>1. CASE j \in following
    BY <1>5, <1>10, <2>1
  <2>2. CASE j \in staying
    <3>1. ~ (item[j].start < release /\ from < FreeAt(j))
      BY <1>5, <2>2 DEF ClearOn
    <3> QED
      BY <1>2, <1>11, <2>2, <3>1 DEF Timely
  <2> QED
    BY <1>3, <1>12, <2>1, <2>2
<1>13. ASSUME NEW j \in rows \ {i}, NEW k \in rows \ {i}, j # k, item'[j] # item[j]
       PROVE  Release(item'[j]) <= item'[k].start \/ Release(item'[k]) <= item'[j].start
  <2>1. j \in moved /\ j \in following
    BY <1>3, <1>7, <1>8, <1>13
  <2>2. CASE k \in following
    <3>1. \/ NewEnd(day.moved, j) <= NewStart(day.moved, k)
          \/ NewEnd(day.moved, k) <= NewStart(day.moved, j)
      BY <1>5, <1>13, <2>1, <2>2
    <3> QED
      BY <1>10, <2>1, <2>2, <3>1
  <2>3. CASE k \in staying
    <3>1. <<item[k].start, FreeAt(k)>> \in fixed
      BY <2>3 DEF FixedOn
    <3>2. FreeAt(k) <= item'[j].start \/ Release(item'[j]) <= item[k].start
      BY <1>9, <2>1, <3>1
    <3>3. FreeAt(k) \in Int /\ Release(item[k]) <= FreeAt(k) /\ Release(item[k]) \in Nat
      BY <1>2, <2>3 DEF Timely
    <3>4. item'[k] = item[k]
      BY <1>11, <2>3
    <3>5. item'[j].start \in Nat
      BY <1>9, <2>1 DEF MovedOn, ItemRecords
    <3> QED
      BY <3>2, <3>3, <3>4, <3>5
  <2> QED
    BY <1>3, <1>13, <2>2, <2>3
<1> HIDE DEF rows, following, staying, windows, fixed, clear
<1>14. Clocked(i) /\ item' = [j \in Items |-> item'[j]] /\ item'[i] = anchor
  <2> DEFINE new(j) == CASE j = i -> anchor
                         [] j # i /\ j \in moved -> shifted(j)
                         [] OTHER -> item[j]
  <2> HIDE DEF shifted, moved
  <2>1. item' = [j \in Items |-> new(j)]
    BY <1>1
  <2>2. new(i) = anchor
    OBVIOUS
  <2> HIDE DEF new
  <2>3. i \in Items
    BY DEF Items
  <2> QED
    BY <1>1, <2>1, <2>2, <2>3
<1>15. \A j \in Items \ {i} : item'[j] = item[j] \/ MovedOn(i, j)
  BY <1>8, <1>9
<1> QED
  BY <1>12, <1>13, <1>14, <1>15 DEF rows, Rearranged

-----------------------------------------------------------------------------
(* The steps of the schedule, by what they do to the sessions. *)

\* Those that leave every session where it is.
Quiet ==
  \/ \E o \in Unused, q \in Requests, f \in OrderFacts : CreateOrder(o, q, f) \/ EditOrder(o, q, f)
  \/ \E o \in Unused, q \in Requests, w \in Requirements, who \in Actors : SetRequirements(o, q, w, who)
  \/ \E o \in Unused, r \in Resources, f \in ResourceFacts, who \in Actors : ReplaceResource(o, r, f, who)
  \/ \E o \in Unused, c \in DOMAIN Config, who \in Actors : PublishConfig(o, c, who) \/ ActivateConfig(o, c, who)
  \/ \E o \in Unused, input \in Inputs, who \in Actors : ReadInput(o, input, who)
  \/ \E o \in Unused, who \in Actors : KeepDraft(o, who)
  \/ \E o \in Unused, g \in Ops, who \in Actors : Reject(o, g, who) \/ AcceptStale(o, g, who)
  \/ \E i \in Items : StartRun(i) \/ CompleteRun(i) \/ CardSettles(i)
  \/ \E p \in Holders : AcquireLease(p)
  \/ GiveUp \/ ReleaseLease \/ Tick

\* What accepting and adopting have in common: part of what the scheduler answers now.
Placing(input, selected) ==
  /\ Generable(input) /\ selected \subseteq Generate(input)
  /\ Place(selected)
  /\ \E o \in Ops, decided \in [status : {"accepted", "partiallyAccepted"}, scope : SUBSET Resources,
                                input : {input}] : Decided(o, decided)
  /\ op' \in [Ops -> Families \cup {"free"}]
  /\ UNCHANGED <<now, res, req, run, published, active, reading, lease, leases>>

Moving(o, i) ==
  \/ \E from \in Int, to \in Int : Reschedule(o, i, from, to)
  \/ \E from \in Int, to \in Int, b \in Buffers : AdjustPlan(o, i, from, to, b)
  \/ \E to \in Int, b \in Buffers : AdjustForecast(o, i, to, b)
  \/ Cancel(o, i)

Steps ==
  \/ Quiet
  \/ \E input \in Inputs : \E selected : Placing(input, selected)
  \/ \E o \in Unused, i \in Requests : Moving(o, i)
  \/ UNCHANGED vars

LEMMA StatusIs ==
  ASSUME NEW selected, NEW result
  PROVE  StatusFor(selected, result) \in {"accepted", "partiallyAccepted"}
BY DEF StatusFor

LEMMA DecisionIsPlacing ==
  ASSUME TableInv, NEW d \in Ops, NEW g \in Ops, NEW who, NEW selected, Draft(g),
         Accept(d, g, Generate(proposal[g].input), selected, who)
  PROVE  \E input \in Inputs : Placing(input, selected)
<1> DEFINE input == proposal[g].input
           decided == [proposal[g] EXCEPT !.status = StatusFor(selected, Generate(input))]
<1>1. /\ proposal[g] # NoProposal
      /\ proposal[g] \in [status : {"draft", "stale", "rejected", "accepted", "partiallyAccepted"},
                          scope : SUBSET Resources, input : {input}]
      /\ Readable(input)
  <2>1. proposal[g] # NoProposal
    BY DEF Draft, NoProposal
  <2> QED
    BY <2>1 DEF TableInv, Remembered
<1>2. SameInput(input)
  BY DEF Accept
<1>3. input \in Inputs
  <2> HIDE DEF input
  <2>1. DOMAIN input.resources \in Scopes
    BY <1>1, <1>2 DEF Readable, SameInput, Scopes
  <2> QED
    BY <1>2, <2>1 DEF Inputs, SameInput
<1>4. decided \in [status : {"accepted", "partiallyAccepted"}, scope : SUBSET Resources, input : {input}]
  <2> HIDE DEF input
  <2> QED
    BY <1>1, StatusIs
<1>5. op' \in [Ops -> Families \cup {"free"}]
  BY DEF Accept, Owns, Families, TableInv, Stored, TypeOK
<1>6. /\ selected \subseteq Generate(input) /\ Place(selected) /\ Decided(g, decided)
      /\ UNCHANGED <<now, res, req, run, published, active, reading, lease, leases>>
  BY DEF Accept, SelectionOK
<1> HIDE DEF decided, input
<1>7. Placing(input, selected)
  BY <1>1, <1>4, <1>5, <1>6 DEF Placing, Readable
<1> QED
  BY <1>3, <1>7

LEMMA AdoptionIsPlacing ==
  ASSUME TableInv, NEW o \in Ops, NEW d \in Ops, NEW input \in Inputs, NEW selected,
         Adopt(o, d, input, Generate(input), selected)
  PROVE  Placing(input, selected)
<1> DEFINE decided == [status |-> StatusFor(selected, Generate(input)),
                       scope |-> DOMAIN input.resources, input |-> input]
<1>1. DOMAIN input.resources \in SUBSET Resources
  <2>1. PICK scope \in Scopes : input = Assemble(scope)
    BY DEF Inputs
  <2>2. input.resources = [r \in scope |-> res[r]]
    BY <2>1 DEF Assemble
  <2> QED
    BY <2>2 DEF Scopes
<1>2. decided \in [status : {"accepted", "partiallyAccepted"}, scope : SUBSET Resources, input : {input}]
  BY <1>1, StatusIs
<1>3. op' \in [Ops -> Families \cup {"free"}]
  BY DEF Adopt, Families, TableInv, Stored, TypeOK
<1>4. /\ Generable(input) /\ selected \subseteq Generate(input) /\ Place(selected) /\ Decided(o, decided)
      /\ UNCHANGED <<now, res, req, run, published, active, reading, lease, leases>>
  BY DEF Adopt, SelectionOK
<1> HIDE DEF decided
<1> QED
  BY <1>2, <1>3, <1>4 DEF Placing

\* The commands delegated are rescheduling and adopting, as anybody could have sent them.
LEMMA StepIs ==
  ASSUME TableInv, CallInv, [DelegationNext]_allVars
  PROVE  Steps
<1>1. CASE UNCHANGED allVars
  BY <1>1 DEF allVars, Steps
<1>2. CASE Next
  <2>1. CASE \E o \in Unused : OrderStep(o) \/ AdminStep(o)
    BY <2>1, Zenon DEF Steps, Quiet, OrderStep, AdminStep
  <2>2. ASSUME NEW o \in Unused, ProposalStep(o) PROVE Steps
    <3>1. CASE \E who \in Actors : (\E input \in Inputs : ReadInput(o, input, who)) \/ KeepDraft(o, who)
      BY <3>1, Zenon DEF Steps, Quiet
    <3>2. CASE \E who \in Actors, g \in Ops : Reject(o, g, who) \/ AcceptStale(o, g, who)
      BY <3>2, Zenon DEF Steps, Quiet
    <3>3. ASSUME NEW who \in Actors, NEW g \in Ops, Draft(g),
                 NEW s \in SUBSET Generate(proposal[g].input),
                 Accept(o, g, Generate(proposal[g].input), s, who)
          PROVE  Steps
      BY <3>3, DecisionIsPlacing DEF Steps, Unused
    <3>4. ASSUME NEW d \in Unused \ {o}, NEW input \in Inputs, NEW s \in SUBSET Generate(input),
                 Adopt(o, d, input, Generate(input), s)
          PROVE  Steps
      BY <3>4, AdoptionIsPlacing DEF Steps, Unused
    <3>5. CASE \E who \in Actors, g \in Ops :
                 Draft(g) /\ \E result \in {Generate(proposal[g].input)} :
                   \E s \in SUBSET result : Accept(o, g, result, s, who)
      BY <3>3, <3>5
    <3>6. CASE \E d \in Unused \ {o}, input \in Inputs :
                 \E result \in {Generate(input)} :
                   \E s \in SUBSET result : Adopt(o, d, input, result, s)
      BY <3>4, <3>6
    <3> QED
      BY <2>2, <3>1, <3>2, <3>5, <3>6, Zenon DEF ProposalStep
  <2>3. ASSUME NEW o \in Unused, MoveStep(o) PROVE Steps
    <3>1. \A m \in Moves : m[1] \in Int /\ m[2] \in Int
      BY MovesAssumption
    <3>2. \E i \in Requests : Moving(o, i)
      BY <2>3, <3>1 DEF MoveStep, Moving
    <3> QED
      BY <3>2 DEF Steps
  <2>4. CASE \/ \E i \in Items : StartRun(i) \/ CompleteRun(i) \/ CardSettles(i)
             \/ \E p \in Holders : AcquireLease(p)
             \/ GiveUp \/ ReleaseLease \/ Tick
    BY <2>4, Zenon DEF Steps, Quiet
  <2> QED
    BY <1>2, <2>1, <2>2, <2>3, <2>4 DEF Next
<1>3. ASSUME NEW h \in hosts, HostStep(h) PROVE Steps
  <2>1. CASE CallActs(h)
    <3> DEFINE c == claimed[h].command
    <3>1. Command(c) /\ Performs(c)
      BY <2>1 DEF CallActs, Sent, CallInv, Boundaries, Commanded
    <3> HIDE DEF c
    <3>2. CASE c.action = "reschedule"
      <4>1. c.op \in Ops /\ c.item \in Requests /\ c.from \in Int /\ c.to \in Int
        BY <3>1, <3>2 DEF Command, MoveCommand
      <4>2. Reschedule(c.op, c.item, c.from, c.to)
        BY <3>1, <3>2 DEF Performs
      <4>3. c.op \in Unused
        BY <4>1, <4>2 DEF Reschedule, Unused
      <4> QED
        BY <4>1, <4>2, <4>3 DEF Steps, Moving
    <3>3. CASE c.action = "adopt_proposal"
      <4>1. /\ c.op \in Ops /\ c.generation \in Ops /\ c.selected = Generate(c.input)
            /\ Readable(c.input)
        BY <3>1, <3>3 DEF Command, AdoptCommand
      <4>2. SameInput(c.input) /\ Adopt(c.generation, c.op, c.input, c.selected, c.selected)
        BY <3>1, <3>3 DEF Performs
      <4>3. c.input \in Inputs
        BY <4>1, <4>2 DEF Inputs, Scopes, SameInput, Readable
      <4>4. Placing(c.input, c.selected)
        BY <4>1, <4>2, <4>3, AdoptionIsPlacing
      <4> QED
        BY <4>3, <4>4 DEF Steps
    <3> QED
      BY <3>1, <3>2, <3>3 DEF Performs
  <2>2. CASE ~ CallActs(h)
    <3>1. UNCHANGED vars
      BY <1>3, <2>2 DEF HostStep, Delegate, CancelBegins, CallBegins, CancelCommits, CallClaims,
                        Refused, CallFails, Dies
    <3> QED
      BY <3>1 DEF Steps
  <2> QED
    BY <2>1, <2>2
<1> QED
  BY <1>1, <1>2, <1>3 DEF DelegationNext

-----------------------------------------------------------------------------
(* What the scheduler is told and what it answers. *)

\* What is assembled for a scope shows the tables, and is an input the scheduler may be given.
Shows(input) ==
  /\ input.config = active.config /\ input.revision = rev
  /\ input.from = PlanFrom /\ input.to = PlanTo
  /\ DOMAIN input.resources \in Scopes
  /\ \A r \in DOMAIN input.resources :
       /\ input.resources[r] = res[r]
       /\ input.windows[r] = BusinessWindows(active.config, r, PlanFrom, PlanTo)
  /\ DOMAIN input.candidates \subseteq Requests \ Alive
  /\ \A q \in DOMAIN input.candidates :
       /\ req[q].life = "open"
       /\ input.candidates[q] = [facts |-> req[q].facts, estimate |-> req[q].estimate,
                                 needs |-> req[q].needs]
  /\ DOMAIN input.occupied = Alive /\ Sessions(input) = {item[i] : i \in Alive}
  /\ input.running = {i \in Items : run[i].status = "active"}

LEMMA InputsShow ==
  ASSUME NEW input \in Inputs
  PROVE  Shows(input)
<1>1. PICK scope \in Scopes : input = Assemble(scope)
  BY DEF Inputs
<1> HIDE DEF Scopes
<1>2. /\ input.config = active.config /\ input.revision = rev
      /\ input.from = PlanFrom /\ input.to = PlanTo
      /\ input.running = {i \in Items : run[i].status = "active"}
  BY <1>1 DEF Assemble
<1>3. input.resources = [r \in scope |-> res[r]]
  BY <1>1 DEF Assemble
<1>4. input.windows = [r \in scope |-> BusinessWindows(active.config, r, PlanFrom, PlanTo)]
  BY <1>1 DEF Assemble
<1>5. input.candidates = [q \in {x \in Requests : req[x].life = "open" /\ x \notin Alive} |->
                            [facts |-> req[q].facts, estimate |-> req[q].estimate, needs |-> req[q].needs]]
  BY <1>1 DEF Assemble
<1>6. input.occupied = [i \in Alive |-> item[i]]
  BY <1>1 DEF Assemble
<1>7. DOMAIN input.occupied = Alive /\ Sessions(input) = {item[i] : i \in Alive}
  BY <1>6 DEF Sessions
<1>8. /\ DOMAIN input.resources \in Scopes
      /\ \A r \in DOMAIN input.resources :
           /\ input.resources[r] = res[r]
           /\ input.windows[r] = BusinessWindows(active.config, r, PlanFrom, PlanTo)
  BY <1>3, <1>4
<1>9. /\ DOMAIN input.candidates \subseteq Requests \ Alive
      /\ \A q \in DOMAIN input.candidates :
           /\ req[q].life = "open"
           /\ input.candidates[q] = [facts |-> req[q].facts, estimate |-> req[q].estimate,
                                     needs |-> req[q].needs]
  BY <1>5
<1> QED
  BY <1>2, <1>7, <1>8, <1>9 DEF Shows

LEMMA OpenOrders ==
  ASSUME Stored, NEW q \in Requests, req[q].life = "open"
  PROVE  /\ req[q] \in OrderRecords /\ req[q].estimate \in Estimates
         /\ req[q].facts \in OrderFacts /\ req[q].facts.priority \in Int /\ req[q].facts.desired \in Int
<1>1. req[q] \in OrderRecords
  BY DEF Stored, TypeOK, NoOrder
<1> QED
  BY <1>1, OrdersAssumption DEF OrderRecords

LEMMA AliveAre ==
  ASSUME Stored, Related, NEW i \in Alive
  PROVE  /\ i \in Items /\ item[i] # NoItem /\ item[i] \in ItemRecords /\ item[i].status = "confirmed"
         /\ item[i].start < item[i].end /\ item[i].buffer <= MaxBuffer
         /\ item[i].start \in Nat /\ item[i].end \in Nat /\ item[i].buffer \in Nat \cup {Unknown}
         /\ item[i].resource \in Resources \cup {None}
<1>1. i \in Items /\ item[i].status = "confirmed" /\ item[i] # NoItem
  BY DEF Alive, NoItem
<1>2. item[i] \in ItemRecords
  BY <1>1 DEF Stored, TypeOK
<1> QED
  BY <1>1, <1>2 DEF ItemRecords, Related

LEMMA InputsAreSane ==
  ASSUME Stored, Related, NEW input \in Inputs
  PROVE  Sane(input)
<1> DEFINE scope == DOMAIN input.resources
           ids == DOMAIN input.candidates
<1>1. Shows(input)
  BY InputsShow
<1>2. input.config = active.config /\ active.config \in DOMAIN Config /\ ConfigOK(Config[active.config])
  BY <1>1 DEF Shows, Stored, TypeOK
<1>3. scope \subseteq Resources /\ scope \subseteq DOMAIN Config[active.config].calendar
  BY <1>1 DEF Shows, Scopes
<1>4. IsFiniteSet(scope) /\ scope \subseteq Nat
  BY <1>3, FiniteAssumption, RequestsAssumption, FS_Subset
<1>5. IsFiniteSet(Requests \cup Blocks)
  BY FiniteAssumption
<1>6. IsFiniteSet(ids) /\ ids \subseteq Nat
  <2>1. ids \subseteq Requests
    BY <1>1 DEF Shows
  <2>2. ids \subseteq Requests \cup Blocks
    BY <2>1
  <2> HIDE DEF ids
  <2> QED
    BY <1>5, <2>1, <2>2, RequestsAssumption, FS_Subset
<1>7. IsFiniteSet(DOMAIN input.occupied)
  <2>1. DOMAIN input.occupied \subseteq Requests \cup Blocks
    BY <1>1 DEF Shows, Alive, Items
  <2> QED
    BY <1>5, <2>1, FS_Subset
<1>8. PlanFrom \in Nat /\ PlanTo \in Nat /\ PlanFrom < PlanTo /\ input.from = PlanFrom /\ input.to = PlanTo
  BY <1>1, PlanAssumption DEF Shows
<1>9. \A r \in scope :
        /\ IsFiniteSet(input.windows[r])
        /\ \A w \in input.windows[r] : w \in Nat \X Nat /\ InOneDay(w) /\ input.from <= w[1] /\ w[2] <= input.to
  <2> SUFFICES ASSUME NEW r \in scope
               PROVE  /\ IsFiniteSet(input.windows[r])
                      /\ \A w \in input.windows[r] :
                           w \in Nat \X Nat /\ InOneDay(w) /\ input.from <= w[1] /\ w[2] <= input.to
    OBVIOUS
  <2>1. input.windows[r] = BusinessWindows(active.config, r, PlanFrom, PlanTo)
    BY <1>1 DEF Shows
  <2> QED
    BY <1>2, <1>3, <1>8, <2>1, BusinessWindowsAre
<1>10. \A id \in ids :
         LET q == input.candidates[id]
         IN  q.estimate \in Estimates /\ q.facts.priority \in Int /\ q.facts.desired \in Int
  <2> SUFFICES ASSUME NEW id \in ids
               PROVE  LET q == input.candidates[id]
                      IN  q.estimate \in Estimates /\ q.facts.priority \in Int /\ q.facts.desired \in Int
    OBVIOUS
  <2>1. id \in Requests /\ req[id].life = "open"
        /\ input.candidates[id] = [facts |-> req[id].facts, estimate |-> req[id].estimate, needs |-> req[id].needs]
    BY <1>1 DEF Shows
  <2> QED
    BY <2>1, OpenOrders
<1>11. \A s \in Sessions(input) : s.start \in Nat /\ s.end \in Nat /\ s.buffer \in Nat \cup {Unknown}
  BY <1>1, AliveAre DEF Shows
<1> QED
  BY <1>2, <1>4, <1>6, <1>7, <1>8, <1>9, <1>10, <1>11 DEF Sane

\* One of the sessions the scheduler answers, against the tables.
Answers(p) ==
  /\ p.request \in Requests \ Alive /\ req[p.request].life = "open"
  /\ p.resource \in Resources /\ p.resource \in DOMAIN Config[active.config].calendar
  /\ res[p.resource].status = "active"
  /\ p.start \in Nat /\ p.end \in Nat /\ p.start < p.end /\ p.buffer \in 0 .. MaxBuffer
  /\ Release(p) \in Nat /\ p.start < Release(p)
  /\ PlanFrom <= p.start /\ p.end <= PlanTo
  /\ Inside(active.config, p.resource, p.start, Release(p))
  /\ p.end - p.start = Duration(active.config, req[p.request])
  /\ p.buffer = Buffer(active.config, req[p.request].facts.kind)
  /\ req[p.request].facts.sample
  /\ req[p.request].needs \subseteq res[p.resource].caps

LEMMA AnswersAre ==
  ASSUME Stored, Related, NEW input \in Inputs, Generable(input)
  PROVE  /\ Placed(input, DOMAIN input.candidates, Generate(input))
         /\ \A p \in Generate(input) : Answers(p)
<1>1. Shows(input) /\ Sane(input)
  BY InputsShow, InputsAreSane
<1>2. Placed(input, DOMAIN input.candidates, Generate(input))
  BY <1>1, GenerateIs
<1>3. ASSUME NEW p \in Generate(input)
      PROVE  Answers(p)
  <2> DEFINE q == input.candidates[p.request]
             order == req[p.request]
             r == p.resource
  <2>1. p.request \in DOMAIN input.candidates /\ Given(input, p)
    BY <1>2 DEF Placed
  <2>2. /\ p.request \in Requests \ Alive /\ order.life = "open"
        /\ q = [facts |-> order.facts, estimate |-> order.estimate, needs |-> order.needs]
    BY <1>1, <2>1 DEF Shows
  <2>3. q.facts = order.facts /\ q.estimate = order.estimate /\ q.needs = order.needs
    BY <2>2
  <2>4. input.config = active.config /\ active.config \in DOMAIN Config /\ ConfigOK(Config[active.config])
    BY <1>1 DEF Shows, Stored, TypeOK
  <2> HIDE DEF q, order
  <2>5. Duration(input.config, q) = Duration(active.config, order)
    BY <2>3, <2>4 DEF Duration
  <2>6. Duration(active.config, order) \in Nat \ {0}
    <3>1. order.estimate \in Estimates
      BY <2>2, OpenOrders DEF order
    <3>2. Duration(active.config, order) \in Estimates
      BY <2>4, <3>1, DurationIs
    <3> QED
      BY <2>1, <2>5, <3>2 DEF Given, q, Estimates
  <2>7. /\ p.start \in Nat /\ p.end = p.start + Duration(active.config, order)
        /\ p.buffer = Buffer(active.config, order.facts.kind) /\ p.buffer \in Nat
        /\ order.facts.sample
        /\ r \in Open(input, q)
        /\ \E w \in input.windows[r] : w[1] <= p.start /\ Release(p) <= w[2]
    BY <2>1, <2>3, <2>4, <2>5 DEF Given, q, Schedulable
  <2>8. /\ r \in DOMAIN input.resources /\ input.resources[r].status = "active"
        /\ order.needs \subseteq input.resources[r].caps
    BY <2>3, <2>7 DEF Open, Eligible
  <2>9. /\ r \in Resources /\ r \in DOMAIN Config[active.config].calendar
        /\ input.resources[r] = res[r]
        /\ input.windows[r] = BusinessWindows(active.config, r, PlanFrom, PlanTo)
    BY <1>1, <2>8 DEF Shows, Scopes
  <2>10. /\ p.end \in Nat /\ p.start < p.end /\ p.end - p.start = Duration(active.config, order)
         /\ Release(p) \in Nat /\ p.end <= Release(p) /\ p.start < Release(p)
    BY <2>6, <2>7 DEF Release
  <2>11. PICK w \in input.windows[r] : w[1] <= p.start /\ Release(p) <= w[2]
    BY <2>7
  <2>12. PlanFrom \in Nat /\ PlanTo \in Nat /\ PlanFrom < PlanTo
    BY PlanAssumption
  <2>13. /\ w \in Nat \X Nat /\ PlanFrom <= w[1] /\ w[2] <= PlanTo
         /\ \E d \in Int : \E v \in Compile(active.config, r, d) : v[1] <= w[1] /\ w[2] <= v[2]
    BY <2>4, <2>9, <2>11, <2>12, BusinessWindowsAre
  <2>14. PICK d \in Int : \E v \in Compile(active.config, r, d) : v[1] <= w[1] /\ w[2] <= v[2]
    BY <2>13
  <2>15. PICK v \in Compile(active.config, r, d) : v[1] <= w[1] /\ w[2] <= v[2]
    BY <2>14
  <2>16. v \in Int \X Int /\ d * DayLen <= v[1] /\ v[2] <= (d + 1) * DayLen
    BY <2>4, <2>9, <2>15, CompileIs
  <2>17. d * DayLen \in Int /\ (d + 1) * DayLen = d * DayLen + DayLen /\ DayLen \in Nat
    BY DayLenAssumption
  <2>18. v[1] <= p.start /\ Release(p) <= v[2]
    BY <2>7, <2>10, <2>11, <2>13, <2>15, <2>16
  <2>19. d * DayLen <= p.start /\ p.start < (d + 1) * DayLen
    BY <2>7, <2>10, <2>16, <2>17, <2>18
  <2>20. Day(p.start) = d
    BY <2>7, <2>19, DayIs
  <2>21. Inside(active.config, r, p.start, Release(p))
    BY <2>15, <2>18, <2>20 DEF Inside
  <2>22. p.buffer \in 0 .. MaxBuffer
    <3>1. p.buffer <= DayLen
      BY <2>7, <2>10, <2>16, <2>17, <2>18 DEF Release
    <3> QED
      BY <2>7, <3>1, SlotAssumption, DayLenAssumption DEF MaxBuffer
  <2>23. PlanFrom <= p.start /\ p.end <= PlanTo
    BY <2>7, <2>10, <2>11, <2>12, <2>13
  <2> QED
    BY <2>2, <2>7, <2>8, <2>9, <2>10, <2>21, <2>22, <2>23 DEF Answers, order
<1> QED
  BY <1>2, <1>3

\* A session adopted from an answer: what it is now, and what it was told.
Adopted(p, i) ==
  /\ i = p.request /\ Answers(p) /\ p.start > now /\ Placeable(p)
  /\ item'[i] = Confirmed(p.resource, p.start, p.end, p.buffer)
  /\ item'[i] \in ItemRecords
  /\ card'[i] = IF Config[active.config].notify THEN [status |-> "open", start |-> p.start] ELSE card[i]

LEMMA PlacingIs ==
  ASSUME TableInv, NEW input \in Inputs, NEW selected, Placing(input, selected)
  PROVE  /\ item' = [i \in Items |-> item'[i]] /\ card' = [i \in Items |-> card'[i]]
         /\ \A i \in Items : \/ item'[i] = item[i] /\ card'[i] = card[i]
                             \/ \E p \in selected : Adopted(p, i)
         /\ \A p, s \in selected : p # s => p.request # s.request /\ Clear(p, s)
<1> DEFINE adopted == {p.request : p \in selected}
           chosen(q) == CHOOSE p \in selected : p.request = q
<1>1. /\ \A p \in Generate(input) : Answers(p)
      /\ Placed(input, DOMAIN input.candidates, Generate(input))
  BY AnswersAre DEF TableInv, Placing
<1>2. /\ selected \subseteq Generate(input)
      /\ \A p \in selected : p.start > now /\ Placeable(p)
      /\ item' = [i \in Items |->
           IF i \in adopted
           THEN Confirmed(chosen(i).resource, chosen(i).start, chosen(i).end, chosen(i).buffer)
           ELSE item[i]]
      /\ card' = [i \in Items |->
           IF i \in adopted /\ Config[active.config].notify
           THEN [status |-> "open", start |-> chosen(i).start] ELSE card[i]]
  BY DEF Placing, Place
<1>3. \A p, s \in selected : p # s => p.request # s.request /\ Clear(p, s)
  BY <1>1, <1>2 DEF Placed
<1>4. \A i \in Items : i \notin adopted => item'[i] = item[i] /\ card'[i] = card[i]
  <2> HIDE DEF adopted, chosen
  <2> QED
    BY <1>2
<1>5. ASSUME NEW i \in Items, i \in adopted
      PROVE  \E p \in selected : Adopted(p, i)
  <2>1. PICK p \in selected : p.request = i
    BY <1>5
  <2>2. \A s \in selected : s.request = i => s = p
    BY <1>3, <2>1
  <2>3. chosen(i) = p
    BY <2>1, <2>2
  <2>4. Answers(p) /\ p.start > now /\ Placeable(p)
    BY <1>1, <1>2
  <2> HIDE DEF adopted, chosen
  <2>5. /\ item'[i] = Confirmed(p.resource, p.start, p.end, p.buffer)
        /\ card'[i] = IF Config[active.config].notify THEN [status |-> "open", start |-> p.start] ELSE card[i]
    BY <1>2, <1>5, <2>3
  <2>6. Confirmed(p.resource, p.start, p.end, p.buffer) \in ItemRecords
    BY <2>4 DEF Answers, Confirmed, ItemRecords
  <2> QED
    BY <2>1, <2>4, <2>5, <2>6 DEF Adopted
<1>6. item' = [i \in Items |-> item'[i]] /\ card' = [i \in Items |-> card'[i]]
  <2> HIDE DEF adopted, chosen
  <2> QED
    BY <1>2
<1> QED
  BY <1>3, <1>4, <1>5, <1>6

\* The buffer of an order under the configuration in force.
LEMMA BufferNowIs ==
  ASSUME Stored, NEW q, BufferNow(q) # Unknown
  PROVE  BufferNow(q) \in Nat
BY BufferIs DEF BufferNow, Stored, TypeOK, Unknown

\* A session that is inside one working window has a buffer of a day at most.
LEMMA InsideBounds ==
  ASSUME Stored, NEW r \in DOMAIN Config[active.config].calendar, NEW from \in Int, NEW to \in Int,
         Inside(active.config, r, from, to)
  PROVE  to - from <= MaxBuffer
<1>1. Day(from) \in Int /\ active.config \in DOMAIN Config /\ ConfigOK(Config[active.config])
  BY DayBounds DEF Stored, TypeOK
<1>2. PICK w \in Compile(active.config, r, Day(from)) : w[1] <= from /\ to <= w[2]
  BY DEF Inside
<1>3. w \in Int \X Int /\ Day(from) * DayLen <= w[1] /\ w[2] <= (Day(from) + 1) * DayLen
  BY <1>1, <1>2, CompileIs
<1>4. Day(from) * DayLen \in Int /\ (Day(from) + 1) * DayLen = Day(from) * DayLen + DayLen
  BY <1>1, DayLenAssumption
<1> QED
  BY <1>2, <1>3, <1>4, SlotAssumption, DayLenAssumption DEF MaxBuffer

\* A session with a new time, and the rest as it was.
Retimed(i, from, to, buffer) ==
  /\ item'[i] \in ItemRecords
  /\ item'[i].start = from /\ item'[i].end = to /\ item'[i].buffer = buffer
  /\ item'[i].status = item[i].status /\ item'[i].resource = item[i].resource
  /\ item'[i].mode = item[i].mode
  /\ Release(item'[i]) = to + buffer /\ Known(item'[i])

\* A session that gets a new time: in working hours, and with a buffer it may have.
LEMMA RescheduleIs ==
  ASSUME TableInv, NEW o, NEW i \in Requests, NEW from \in Int, NEW to \in Int,
         Reschedule(o, i, from, to)
  PROVE  /\ i \in Alive /\ Resolved(item[i]) /\ item[i] \in ItemRecords /\ Movable(i) /\ Settled(i)
         /\ item' = [item EXCEPT ![i] = item'[i]]
         /\ Retimed(i, from, to, BufferNow(i))
         /\ BufferNow(i) \in Nat /\ BufferNow(i) <= MaxBuffer
         /\ from \in Nat /\ to \in Nat /\ from < to
         /\ FreeFor(i, item[i].resource, from, to + BufferNow(i))
         /\ item[i].resource \in DOMAIN Config[active.config].calendar
         /\ Inside(active.config, item[i].resource, from, to + BufferNow(i))
<1>1. /\ MayMove(i, from, to)
      /\ item' = [item EXCEPT ![i].start = from, ![i].end = to, ![i].buffer = BufferNow(i)]
  BY DEF Reschedule
<1>2. i \in Alive /\ Resolved(item[i]) /\ Movable(i) /\ Settled(i)
  BY <1>1 DEF MayMove, Movable, Alive, Items
<1>3. item[i] \in ItemRecords /\ i \in Items
  BY <1>2, AliveAre DEF TableInv
<1>4. from \in Nat /\ to \in Nat /\ from < to
  <2>1. now \in Nat
    BY DEF TableInv, Stored, TypeOK
  <2> QED
    BY <1>1, <2>1 DEF MayMove
<1>5. BufferNow(i) \in Nat
  BY <1>1, BufferNowIs DEF MayMove, TableInv
<1>6. /\ item[i].resource \in DOMAIN Config[active.config].calendar
      /\ Inside(active.config, item[i].resource, from, to + BufferNow(i))
      /\ FreeFor(i, item[i].resource, from, to + BufferNow(i))
  BY <1>1 DEF MayMove, CalendarHolds
<1>7. (to + BufferNow(i)) - from <= MaxBuffer
  <2> DEFINE release == to + BufferNow(i)
             r == item[i].resource
  <2>1. release \in Int /\ r \in DOMAIN Config[active.config].calendar
    BY <1>4, <1>5, <1>6
  <2>2. Inside(active.config, r, from, release) /\ Stored
    BY <1>6 DEF TableInv
  <2> HIDE DEF release, r
  <2>3. release - from <= MaxBuffer
    BY <2>1, <2>2, InsideBounds
  <2> QED
    BY <2>3 DEF release
<1>8. BufferNow(i) <= MaxBuffer
  BY <1>4, <1>5, <1>7 DEF MaxBuffer
<1>9. DOMAIN item = Items
  BY DEF TableInv, Stored, TypeOK
<1>10. item'[i] = [item[i] EXCEPT !.start = from, !.end = to, !.buffer = BufferNow(i)]
  BY <1>1, <1>3, <1>9
<1>11. item' = [item EXCEPT ![i] = item'[i]]
  BY <1>1, <1>3, <1>9
<1>12. Retimed(i, from, to, BufferNow(i))
  <2> DEFINE buffer == BufferNow(i)
             new == [item[i] EXCEPT !.start = from, !.end = to, !.buffer = buffer]
  <2> HIDE DEF buffer
  <2>4. buffer \in Nat
    BY <1>5 DEF buffer
  <2>1. /\ new.start = from /\ new.end = to /\ new.buffer = buffer
        /\ new.status = item[i].status /\ new.resource = item[i].resource /\ new.mode = item[i].mode
    BY <1>3, <1>4, <2>4 DEF ItemRecords
  <2>2. new \in ItemRecords
    BY <1>3, <1>4, <2>4 DEF ItemRecords
  <2> HIDE DEF new
  <2>3. Release(new) = to + buffer /\ Known(new)
    BY <2>1, <1>4, <2>4 DEF Release, Known, Unknown
  <2>5. item'[i] = new
    BY <1>10 DEF new, buffer
  <2> QED
    BY <2>1, <2>2, <2>3, <2>5 DEF Retimed, buffer
<1> QED
  BY <1>2, <1>3, <1>4, <1>5, <1>6, <1>8, <1>11, <1>12

LEMMA AdjustPlanIs ==
  ASSUME TableInv, NEW o, NEW i \in Requests, NEW from \in Int, NEW to \in Int, NEW b \in Buffers,
         AdjustPlan(o, i, from, to, b)
  PROVE  /\ i \in Alive /\ Resolved(item[i]) /\ item[i] \in ItemRecords /\ Movable(i) /\ Settled(i)
         /\ Rearranged(i, from, to + b)
         /\ Retimed(i, from, to, b)
         /\ from \in Nat /\ to \in Nat /\ from < to /\ b \in Nat /\ b <= MaxBuffer
         /\ item[i].resource \in DOMAIN Config[active.config].calendar
         /\ Inside(active.config, item[i].resource, from, to + b)
<1> DEFINE anchor == [item[i] EXCEPT !.start = from, !.end = to, !.buffer = b]
<1>1. /\ Movable(i) /\ Settled(i) /\ from > now /\ from < to
      /\ Inside(active.config, item[i].resource, from, to + b)
      /\ Adjusted(o, i, DayAfter(i, from, to + b), anchor, run[i])
  BY DEF AdjustPlan
<1>2. i \in Requests \cap Alive /\ Resolved(item[i])
  BY <1>1 DEF Movable, Alive, Items
<1>3. item[i] \in ItemRecords
  BY <1>2, AliveAre DEF TableInv
<1>4. from \in Nat /\ to \in Nat /\ b \in Nat
  <2>1. now \in Nat
    BY DEF TableInv, Stored, TypeOK
  <2> QED
    BY <1>1, <2>1, BuffersAssumption
<1> HIDE DEF anchor
<1>5. Rearranged(i, from, to + b) /\ item'[i] = anchor
  <2> DEFINE release == to + b
  <2>1. release \in Int
    BY <1>4
  <2>2. Adjusted(o, i, DayAfter(i, from, release), anchor, run[i])
    BY <1>1
  <2>3. Stored /\ Related
    BY DEF TableInv
  <2> HIDE DEF release
  <2>4. Rearranged(i, from, release) /\ item'[i] = anchor
    BY <1>2, <2>1, <2>2, <2>3, AdjustedIs
  <2> QED
    BY <2>4 DEF release
<1>6. item[i].resource \in DOMAIN Config[active.config].calendar
  BY <1>5 DEF Rearranged, Clocked, CalendarHolds
<1>7. b <= MaxBuffer
  <2> DEFINE release == to + b
             r == item[i].resource
  <2>1. release \in Int /\ r \in DOMAIN Config[active.config].calendar /\ Stored
        /\ Inside(active.config, r, from, release)
    BY <1>1, <1>4, <1>6 DEF TableInv
  <2> HIDE DEF release, r
  <2>2. release - from <= MaxBuffer
    BY <2>1, InsideBounds
  <2> QED
    BY <1>1, <1>4, <2>2 DEF release, MaxBuffer
<1>8. Retimed(i, from, to, b)
  <2> DEFINE buffer == b
             new == [item[i] EXCEPT !.start = from, !.end = to, !.buffer = buffer]
  <2>1. /\ new.start = from /\ new.end = to /\ new.buffer = buffer
        /\ new.status = item[i].status /\ new.resource = item[i].resource /\ new.mode = item[i].mode
    BY <1>3, <1>4 DEF ItemRecords
  <2>2. new \in ItemRecords
    BY <1>3, <1>4 DEF ItemRecords
  <2> HIDE DEF new
  <2>3. Release(new) = to + buffer /\ Known(new)
    BY <2>1, <1>4 DEF Release, Known, Unknown
  <2>4. item'[i] = new
    BY <1>5 DEF new, anchor
  <2> QED
    BY <2>1, <2>2, <2>3, <2>4 DEF Retimed
<1> QED
  BY <1>1, <1>2, <1>3, <1>4, <1>5, <1>6, <1>7, <1>8

LEMMA AdjustForecastIs ==
  ASSUME TableInv, NEW o, NEW i \in Requests, NEW to \in Int, NEW b \in Buffers,
         AdjustForecast(o, i, to, b)
  PROVE  /\ i \in Alive /\ Resolved(item[i]) /\ item[i] \in ItemRecords
         /\ \E from, release \in Int : Rearranged(i, from, release)
         /\ item'[i] = item[i]
         /\ run' = [run EXCEPT ![i] = run'[i]]
         /\ run[i].status = "active" /\ run'[i] \in RunRecords /\ run'[i].status = "active"
<1> DEFINE later == [run[i] EXCEPT !.forecast = [end |-> to, buffer |-> b]]
           from == run[i].started
           release == to + b
<1>1. /\ i \in Alive /\ Resolved(item[i]) /\ run[i].status = "active" /\ to > now
      /\ Adjusted(o, i, DayAfter(i, from, release), item[i], later)
  BY DEF AdjustForecast
<1>2. item[i] \in ItemRecords /\ i \in Items
  BY <1>1, AliveAre DEF TableInv
<1>3. run[i] \in [status : {"active"}, started : Nat, forecast : {NoForecast} \cup [end : Nat, buffer : Int]]
  BY <1>1, <1>2 DEF TableInv, Stored, RunRecords, NoRun
<1>4. now \in Nat /\ b \in Nat /\ to \in Nat
  <2>1. now \in Nat
    BY DEF TableInv, Stored, TypeOK
  <2> QED
    BY <1>1, <2>1, BuffersAssumption
<1>5. later \in RunRecords /\ later.status = "active"
  BY <1>3, <1>4 DEF RunRecords
<1>6. from \in Int /\ release \in Int
  BY <1>3, <1>4
<1> HIDE DEF from, release, later
<1>7. Rearranged(i, from, release) /\ item'[i] = item[i]
  BY <1>1, <1>6, AdjustedIs DEF TableInv
<1>8. run' = [run EXCEPT ![i] = later] /\ DOMAIN run = Items
  BY <1>1 DEF Adjusted, TableInv, Stored
<1> QED
  BY <1>1, <1>2, <1>5, <1>6, <1>7, <1>8

-----------------------------------------------------------------------------
(* What a step may make of a session. *)

\* A session that is written: by the schema, in working hours, and told as it is.
Rewritten(j) ==
  /\ item'[j] \in ItemRecords /\ item'[j].start < item'[j].end /\ item'[j].buffer <= MaxBuffer
  /\ j \in Requests /\ req[j] # NoOrder /\ item'[j].mode = "single" /\ Resolved(item'[j])
  /\ item'[j].status # "confirmed" => run[j] = NoRun
  /\ InCalendar(active.config, item'[j], now)
  /\ card'[j].status = "open" => item'[j].status = "confirmed" /\ item'[j].start = card'[j].start
  /\ card'[j] \in {card[j], [status |-> "open", start |-> item'[j].start]}

Written ==
  /\ item' = [j \in Items |-> item'[j]] /\ card' = [j \in Items |-> card'[j]]
  /\ \A j \in Items : (item'[j] = item[j] /\ card'[j] = card[j]) \/ Rewritten(j)

\* A session whose card may still be sent is not one that is written without its card.
LEMMA MovedIsRewritten ==
  ASSUME TableInv, NEW i, Clocked(i), NEW j \in Items, MovedOn(i, j), card' = card
  PROVE  Rewritten(j)
<1> DEFINE c == active.config
           r == item[i].resource
           start == item'[j].start
           release == Release(item'[j])
<1>1. /\ j \in Alive /\ Pushable(j) /\ Movable(j) /\ Settled(j)
      /\ item[j].resource = r /\ item'[j].resource = r
  BY DEF MovedOn, SameResource, Pushable
<1>2. /\ item'[j] \in ItemRecords /\ item'[j].status = "confirmed" /\ start < item'[j].end
      /\ item'[j].buffer = item[j].buffer /\ item'[j].mode = item[j].mode
      /\ Known(item[j])
      /\ \E w \in DayWindows(i) : w[1] <= start /\ release <= w[2]
  BY DEF MovedOn
<1>3. item[j] # NoItem /\ item[j].buffer <= MaxBuffer
  BY <1>1, AliveAre DEF TableInv
<1>4. j \in Requests /\ req[j] # NoOrder /\ item'[j].mode = "single" /\ Resolved(item'[j])
  BY <1>1, <1>2, <1>3 DEF Movable, TableInv, Related, Resolved
<1>5. r \in DOMAIN Config[c].calendar /\ c \in DOMAIN Config /\ ConfigOK(Config[c])
  BY DEF Clocked, CalendarHolds, TableInv, Stored, TypeOK
<1>6. start \in Nat /\ release \in Nat /\ start < release
  BY <1>2 DEF ItemRecords, Release, Known, Unknown
<1>7. Inside(c, r, start, release)
  <2> DEFINE d == Day(item[i].start)
  <2>1. PICK w \in Compile(c, r, d) : w[1] <= start /\ release <= w[2]
    BY <1>2 DEF DayWindows
  <2>2. d \in Int
    <3>1. i \in Alive
      BY DEF Clocked
    <3> QED
      BY <3>1, AliveAre, DayBounds DEF TableInv
  <2> HIDE DEF d
  <2>3. w \in Int \X Int /\ d * DayLen <= w[1] /\ w[2] <= (d + 1) * DayLen
    BY <1>5, <2>1, <2>2, CompileIs
  <2>4. d * DayLen \in Int /\ (d + 1) * DayLen \in Int
    BY <2>2, DayLenAssumption
  <2>5. d * DayLen <= start /\ start < (d + 1) * DayLen
    BY <1>6, <2>1, <2>3, <2>4
  <2>6. Day(start) = d
    BY <1>6, <2>2, <2>5, DayIs
  <2> QED
    BY <2>1, <2>6 DEF Inside
<1>8. InCalendar(c, item'[j], now)
  BY <1>1, <1>5, <1>7 DEF InCalendar
<1>9. card'[j].status # "open" /\ card'[j] = card[j]
  BY <1>1 DEF Settled
<1> QED
  BY <1>2, <1>3, <1>4, <1>8, <1>9 DEF Rewritten

LEMMA PlacingWrites ==
  ASSUME TableInv, NEW input \in Inputs, NEW selected, Placing(input, selected), CardTellsTime
  PROVE  Written
<1>1. /\ item' = [i \in Items |-> item'[i]] /\ card' = [i \in Items |-> card'[i]]
      /\ \A i \in Items : \/ item'[i] = item[i] /\ card'[i] = card[i]
                          \/ \E p \in selected : Adopted(p, i)
  BY PlacingIs
<1>2. ASSUME NEW i \in Items, NEW p \in selected, Adopted(p, i)
      PROVE  Rewritten(i)
  <2>1. /\ i = p.request /\ Answers(p) /\ Placeable(p) /\ item'[i] \in ItemRecords
        /\ item'[i] = Confirmed(p.resource, p.start, p.end, p.buffer)
        /\ card'[i] = IF Config[active.config].notify THEN [status |-> "open", start |-> p.start] ELSE card[i]
    BY <1>2 DEF Adopted
  <2>2. /\ item'[i].status = "confirmed" /\ item'[i].resource = p.resource /\ item'[i].start = p.start
        /\ item'[i].end = p.end /\ item'[i].buffer = p.buffer /\ item'[i].mode = "single"
    BY <2>1 DEF Confirmed
  <2>3. Release(item'[i]) = Release(p)
    BY <2>2 DEF Release
  <2>4. /\ i \in Requests \ Alive /\ req[i].life = "open" /\ p.start < p.end
        /\ p.buffer \in 0 .. MaxBuffer
        /\ p.resource \in DOMAIN Config[active.config].calendar
        /\ Inside(active.config, p.resource, p.start, Release(p))
    BY <2>1 DEF Answers
  <2>5. req[i] # NoOrder
    BY <2>4 DEF NoOrder
  <2>6. InCalendar(active.config, item'[i], now)
    BY <2>2, <2>3, <2>4 DEF InCalendar
  <2>7. card[i].status # "open"
    BY <2>4, <1>2 DEF CardTellsTime, Alive
  <2>8. /\ card'[i] \in {card[i], [status |-> "open", start |-> item'[i].start]}
        /\ card'[i].status = "open" => item'[i].start = card'[i].start
    BY <2>1, <2>2, <2>7
  <2>9. item'[i].buffer <= MaxBuffer
    BY <2>2, <2>4
  <2>10. Resolved(item'[i])
    BY <2>1, <2>2, RequestsAssumption DEF Answers, Resolved, None
  <2> QED
    BY <2>1, <2>2, <2>4, <2>5, <2>6, <2>8, <2>9, <2>10 DEF Rewritten
<1> QED
  BY <1>1, <1>2 DEF Written

LEMMA MovingWrites ==
  ASSUME TableInv, CardTellsTime, NEW o \in Ops, NEW i \in Requests, Moving(o, i)
  PROVE  Written /\ card' = card
<1> USE DEF TableInv
<1>1. DOMAIN item = Items /\ DOMAIN card = Items /\ i \in Items /\ now \in Nat
  BY DEF Stored, TypeOK, Items
<1>2. ASSUME item' = [item EXCEPT ![i] = item'[i]], card' = card, Rewritten(i)
      PROVE  Written /\ card' = card
  <2>1. item' = [j \in Items |-> item'[j]] /\ \A j \in Items \ {i} : item'[j] = item[j]
    BY <1>1, <1>2
  <2>2. card' = [j \in Items |-> card'[j]]
    BY <1>2 DEF Stored, TypeOK
  <2>3. \A j \in Items : card'[j] = card[j]
    BY <1>2
  <2> QED
    BY <1>2, <2>1, <2>2, <2>3 DEF Written
<1>3. ASSUME NEW from, NEW release, Rearranged(i, from, release), card' = card,
             item'[i] = item[i] \/ Rewritten(i)
      PROVE  Written /\ card' = card
  <2>1. /\ Clocked(i) /\ item' = [j \in Items |-> item'[j]]
        /\ \A j \in Items \ {i} : item'[j] = item[j] \/ MovedOn(i, j)
    BY <1>3 DEF Rearranged
  <2>2. \A j \in Items \ {i} : item'[j] = item[j] \/ Rewritten(j)
    BY <1>3, <2>1, MovedIsRewritten
  <2>3. card' = [j \in Items |-> card'[j]]
    BY <1>3 DEF Stored, TypeOK
  <2>4. \A j \in Items : card'[j] = card[j]
    BY <1>3
  <2> QED
    BY <1>3, <2>1, <2>2, <2>3, <2>4 DEF Written
<1>4. i \in Alive => /\ item[i] \in ItemRecords /\ item[i].status = "confirmed"
                     /\ req[i] # NoOrder /\ item[i].mode = "single"
                     /\ Resolved(item[i])
                     /\ item[i].start < item[i].end /\ item[i].buffer <= MaxBuffer
  BY AliveAre DEF Related
\* a session that is given a new time
<1>5. ASSUME i \in Alive, Settled(i), card' = card,
             NEW start \in Nat, NEW end \in Nat, NEW buffer \in Nat,
             Retimed(i, start, end, buffer),
             start < end, buffer <= MaxBuffer,
             item[i].resource \in DOMAIN Config[active.config].calendar,
             Inside(active.config, item[i].resource, start, end + buffer)
      PROVE  Rewritten(i)
  <2>1. /\ item'[i] \in ItemRecords
        /\ item'[i].start = start /\ item'[i].end = end /\ item'[i].buffer = buffer
        /\ item'[i].status = item[i].status /\ item'[i].resource = item[i].resource
        /\ item'[i].mode = item[i].mode
        /\ Release(item'[i]) = end + buffer
        /\ Resolved(item'[i])
    BY <1>4, <1>5 DEF Retimed, Resolved
  <2>2. InCalendar(active.config, item'[i], now)
    BY <1>5, <2>1 DEF InCalendar
  <2>3. card'[i] = card[i] /\ card'[i].status # "open"
    BY <1>5 DEF Settled
  <2> QED
    BY <1>4, <1>5, <2>1, <2>2, <2>3 DEF Rewritten
<1>6. ASSUME NEW from \in Int, NEW to \in Int, Reschedule(o, i, from, to)
      PROVE  Written /\ card' = card
  <2>1. card' = card
    BY <1>6 DEF Reschedule
  <2>2. item' = [item EXCEPT ![i] = item'[i]]
    BY <1>6, RescheduleIs
  <2> DEFINE buffer == BufferNow(i)
  <2>3. /\ i \in Alive /\ Settled(i)
        /\ Retimed(i, from, to, buffer)
        /\ buffer \in Nat /\ buffer <= MaxBuffer /\ from \in Nat /\ to \in Nat /\ from < to
        /\ item[i].resource \in DOMAIN Config[active.config].calendar
        /\ Inside(active.config, item[i].resource, from, to + buffer)
    BY <1>6, RescheduleIs
  <2> HIDE DEF buffer
  <2> QED
    BY <1>2, <1>5, <2>1, <2>2, <2>3
<1>7. ASSUME NEW from \in Int, NEW to \in Int, NEW b \in Buffers, AdjustPlan(o, i, from, to, b)
      PROVE  Written /\ card' = card
  <2>1. card' = card
    BY <1>7 DEF AdjustPlan, Adjusted
  <2>2. Rearranged(i, from, to + b)
    BY <1>7, AdjustPlanIs
  <2>3. /\ i \in Alive /\ Settled(i)
        /\ Retimed(i, from, to, b)
        /\ b \in Nat /\ b <= MaxBuffer /\ from \in Nat /\ to \in Nat /\ from < to
        /\ item[i].resource \in DOMAIN Config[active.config].calendar
        /\ Inside(active.config, item[i].resource, from, to + b)
    BY <1>7, AdjustPlanIs
  <2>4. Rewritten(i)
    BY <1>5, <2>1, <2>3
  <2> QED
    BY <1>3, <2>1, <2>2, <2>4
<1>8. ASSUME NEW to \in Int, NEW b \in Buffers, AdjustForecast(o, i, to, b)
      PROVE  Written /\ card' = card
  <2>1. card' = card
    BY <1>8 DEF AdjustForecast, Adjusted
  <2>2. item'[i] = item[i] /\ \E from, release \in Int : Rearranged(i, from, release)
    BY <1>8, AdjustForecastIs
  <2> QED
    BY <1>3, <2>1, <2>2, SMTT(30)
<1>9. ASSUME Cancel(o, i)
      PROVE  Written /\ card' = card
  <2>1. /\ Movable(i) /\ Settled(i) /\ card' = card
        /\ item' = [item EXCEPT ![i].status = "cancelled"]
    BY <1>9 DEF Cancel
  <2>2. i \in Alive /\ run[i] = NoRun
    BY <1>1, <2>1 DEF Movable, Alive
  <2>3. item'[i] = [item[i] EXCEPT !.status = "cancelled"] /\ item' = [item EXCEPT ![i] = item'[i]]
    BY <1>1, <2>1
  <2>4. /\ item'[i] \in ItemRecords /\ item'[i].status = "cancelled"
        /\ item'[i].start = item[i].start /\ item'[i].end = item[i].end
        /\ item'[i].buffer = item[i].buffer /\ item'[i].mode = item[i].mode
        /\ Resolved(item'[i])
    BY <1>4, <2>2, <2>3 DEF ItemRecords, Resolved
  <2>5. card'[i] = card[i] /\ card'[i].status # "open"
    BY <2>1 DEF Settled
  <2>6. Rewritten(i)
    BY <1>4, <2>2, <2>4, <2>5 DEF Rewritten, InCalendar
  <2> QED
    BY <1>2, <2>1, <2>3, <2>6
<1> QED
  BY <1>6, <1>7, <1>8, <1>9 DEF Moving

\* The quiet steps, but for the confirmation that one of them settles.
LEMMA QuietKeeps ==
  ASSUME Quiet
  PROVE  /\ item' = item
         /\ card' = card \/ \E i \in Items : card[i].status = "open" /\ card' = [card EXCEPT ![i].status = "closed"]
         /\ active' = active \/ \E c \in published, who \in Actors :
              /\ active' = [config |-> c, by |-> who] /\ now' = now
              /\ who = "business" => CalendarFits(c)
<1>1. CASE \E o \in Unused, c \in DOMAIN Config, who \in Actors : ActivateConfig(o, c, who)
  BY <1>1 DEF ActivateConfig
<1>2. CASE \E i \in Items : CardSettles(i)
  BY <1>2 DEF CardSettles
<1> SUFFICES ASSUME ~ \E o \in Unused, c \in DOMAIN Config, who \in Actors : ActivateConfig(o, c, who),
                    ~ \E i \in Items : CardSettles(i)
             PROVE  UNCHANGED <<item, card, active>>
  BY <1>1, <1>2
<1>3. CASE \/ \E o \in Unused, q \in Requests, f \in OrderFacts : CreateOrder(o, q, f) \/ EditOrder(o, q, f)
           \/ \E o \in Unused, q \in Requests, w \in Requirements, who \in Actors : SetRequirements(o, q, w, who)
  BY <1>3, ZenonT(30) DEF CreateOrder, EditOrder, SetRequirements
<1>4. CASE \/ \E o \in Unused, r \in Resources, f \in ResourceFacts, who \in Actors : ReplaceResource(o, r, f, who)
           \/ \E o \in Unused, c \in DOMAIN Config, who \in Actors : PublishConfig(o, c, who)
  BY <1>4, ZenonT(30) DEF ReplaceResource, PublishConfig
<1>5. CASE \/ \E o \in Unused, input \in Inputs, who \in Actors : ReadInput(o, input, who)
           \/ \E o \in Unused, who \in Actors : KeepDraft(o, who)
           \/ \E o \in Unused, g \in Ops, who \in Actors : Reject(o, g, who) \/ AcceptStale(o, g, who)
  BY <1>5 DEF ReadInput, KeepDraft, Reject, AcceptStale
<1>6. CASE \E i \in Items : StartRun(i) \/ CompleteRun(i)
  BY <1>6 DEF StartRun, CompleteRun
<1>7. CASE (\E p \in Holders : AcquireLease(p)) \/ GiveUp \/ ReleaseLease \/ Tick
  BY <1>7 DEF AcquireLease, GiveUp, ReleaseLease, Tick
<1> QED
  BY <1>3, <1>4, <1>5, <1>6, <1>7 DEF Quiet

-----------------------------------------------------------------------------
(* What the quiet steps write. *)

OrderWritten ==
  \/ \E q \in Requests, f \in OrderFacts :
       req' = [req EXCEPT ![q] = [life |-> "open", facts |-> f, estimate |-> None, needs |-> {"unrecorded"}]]
  \/ \E q \in Requests, f \in OrderFacts : req[q].life = "open" /\ req' = [req EXCEPT ![q].facts = f]
  \/ \E q \in Requests, w \in Requirements :
       req[q].life # "none" /\ req' = [req EXCEPT ![q].estimate = w.estimate, ![q].needs = w.needs]
  \/ \E i \in Items : run[i].status = "active" /\ req' = [req EXCEPT ![i].life = "fulfilled"]

DraftWritten ==
  \/ StaleDrafts(Resources, {})
  \/ \E r \in Resources : StaleDrafts({r}, {})
  \/ \E o \in Ops, s \in {"rejected", "stale"} :
       Draft(o) /\ proposal' = [proposal EXCEPT ![o].status = s]
  \/ \E o \in Ops :
       /\ reading # NotReading /\ SameInput(reading.input)
       /\ proposal' = [proposal EXCEPT ![o] =
            [status |-> "draft", scope |-> DOMAIN reading.input.resources, input |-> reading.input]]

\* The revisions: what readers are shown advances one, what the schedule rests on retires drafts.
Counted ==
  /\ (rev' = rev /\ (proj' = proj \/ proj' = proj + 1)) \/ (rev' = rev + 1 /\ proj' = proj + 1)
  /\ rev' # rev \/ active' # active => StaleDrafts(Resources, {})
  /\ req' # req \/ run' # run => proj' = proj + 1

\* What a quiet step may do to each table.
QuietlyWritten ==
  /\ now' = now \/ now' = now + 1
  /\ Counted
  /\ req' = req \/ OrderWritten
  /\ run' = run \/ \E i \in Items : StartRun(i) \/ CompleteRun(i)
  /\ res' = res \/ \E r \in Resources, f \in ResourceFacts :
       (\A s \in Resources \ {r} : res[s].label # f.label) /\ res' = [res EXCEPT ![r] = f]
  /\ published' = published \/ \E c \in DOMAIN Config : ConfigOK(Config[c]) /\ published' = published \cup {c}
  /\ op' = op \/ \E o \in Ops, f \in Families : op' = [op EXCEPT ![o] = f]
  /\ leases' = leases \/ (leases < Leases /\ leases' = leases + 1)
  /\ reading' = reading \/ reading' = NotReading
       \/ \E o \in Ops, input \in Inputs : Generable(input) /\ reading' = [op |-> o, input |-> input]
  /\ proposal' = proposal \/ DraftWritten

LEMMA QuietWrites ==
  ASSUME Quiet, rev \in Nat, proj \in Nat
  PROVE  QuietlyWritten
<1>0. /\ Advance(0) => rev' = rev /\ proj' = proj + 1
      /\ Advance(1) => rev' = rev + 1 /\ proj' = proj + 1
      /\ \A c \in BOOLEAN : Advance(IF c THEN 1 ELSE 0) => Advance(0) \/ Advance(1)
  BY DEF Advance
<1>1. \A o \in Unused, f \in Families : Owns(o, f) => \E p \in Ops, g \in Families : op' = [op EXCEPT ![p] = g]
  BY DEF Owns, Unused
<1>2. {"operation", "admin", "proposalGeneration", "proposalDecision"} \subseteq Families
  BY DEF Families
<1>3. ASSUME NEW o \in Unused, NEW q \in Requests, NEW f \in OrderFacts, CreateOrder(o, q, f) \/ EditOrder(o, q, f)
      PROVE  QuietlyWritten
  <2>1. req' = req \/ OrderWritten
    BY <1>3 DEF CreateOrder, EditOrder, OrderWritten
  <2>2. Counted
    BY <1>0, <1>3 DEF CreateOrder, EditOrder, Counted
  <2> QED
    BY <1>1, <1>2, <1>3, <2>1, <2>2 DEF CreateOrder, EditOrder, QuietlyWritten
<1>4. ASSUME NEW o \in Unused, NEW q \in Requests, NEW w \in Requirements, NEW who \in Actors,
             SetRequirements(o, q, w, who)
      PROVE  QuietlyWritten
  <2>1. req' = req \/ OrderWritten
    BY <1>4 DEF SetRequirements, OrderWritten
  <2>2. Counted
    BY <1>0, <1>4 DEF SetRequirements, Counted
  <2>3. proposal' = proposal \/ DraftWritten
    BY <1>4 DEF SetRequirements, DraftWritten
  <2> QED
    BY <1>1, <1>2, <1>4, <2>1, <2>2, <2>3 DEF SetRequirements, QuietlyWritten
<1>5. ASSUME NEW o \in Unused, NEW r \in Resources, NEW f \in ResourceFacts, NEW who \in Actors,
             ReplaceResource(o, r, f, who)
      PROVE  QuietlyWritten
  <2> DEFINE capacity == res[r].status # f.status \/ res[r].caps # f.caps
  <2>1. UNCHANGED <<now, req, run, active, published, reading, leases>> /\ Owns(o, "admin")
    BY <1>5 DEF ReplaceResource
  <2>2. (rev' = rev /\ proj' = proj /\ proposal' = proposal)
        \/ (Advance(IF capacity THEN 1 ELSE 0) /\ StaleDrafts(IF capacity THEN Resources ELSE {r}, {}))
    BY <1>5 DEF ReplaceResource
  <2>3. Counted /\ (proposal' = proposal \/ DraftWritten)
    <3>1. CASE capacity
      BY <1>0, <2>1, <2>2, <3>1 DEF Counted, DraftWritten
    <3>2. CASE ~ capacity
      BY <1>0, <2>1, <2>2, <3>2 DEF Counted, DraftWritten
    <3> QED
      BY <3>1, <3>2
  <2>4. res' = res \/ ((\A s \in Resources \ {r} : res[s].label # f.label) /\ res' = [res EXCEPT ![r] = f])
    BY <1>5 DEF ReplaceResource
  <2> HIDE DEF capacity
  <2> QED
    BY <1>1, <1>2, <2>1, <2>3, <2>4 DEF QuietlyWritten
<1>6. ASSUME NEW o \in Unused, NEW c \in DOMAIN Config, NEW who \in Actors,
             PublishConfig(o, c, who) \/ ActivateConfig(o, c, who)
      PROVE  QuietlyWritten
  <2>1. Counted
    BY <1>0, <1>6 DEF PublishConfig, ActivateConfig, Counted
  <2>2. proposal' = proposal \/ DraftWritten
    BY <1>6 DEF PublishConfig, ActivateConfig, DraftWritten
  <2> QED
    BY <1>1, <1>2, <1>6, <2>1, <2>2 DEF PublishConfig, ActivateConfig, QuietlyWritten
<1>7. ASSUME NEW i \in Items, StartRun(i) \/ CompleteRun(i) \/ CardSettles(i)
      PROVE  QuietlyWritten
  <2>1. Counted
    BY <1>7 DEF StartRun, CompleteRun, CardSettles, Counted
  <2>2. req' = req \/ OrderWritten
    BY <1>7 DEF StartRun, CompleteRun, CardSettles, OrderWritten
  <2>3. run' = run \/ StartRun(i) \/ CompleteRun(i)
    BY <1>7 DEF CardSettles
  <2>4. UNCHANGED <<now, res, published, op, leases, reading, proposal>>
    BY <1>7 DEF StartRun, CompleteRun, CardSettles
  <2> QED
    BY <2>1, <2>2, <2>3, <2>4 DEF QuietlyWritten
<1>8. ASSUME NEW o \in Unused, NEW input \in Inputs, NEW who \in Actors, ReadInput(o, input, who)
      PROVE  QuietlyWritten
  <2>1. o \in Ops
    BY DEF Unused
  <2> QED
    BY <1>8, <2>1 DEF ReadInput, Counted, QuietlyWritten
<1>9. ASSUME NEW o \in Unused, NEW who \in Actors, KeepDraft(o, who)
      PROVE  QuietlyWritten
  <2>1. DraftWritten
    BY <1>9 DEF KeepDraft, DraftWritten, Unused
  <2> QED
    BY <1>1, <1>2, <1>9, <2>1 DEF KeepDraft, Counted, QuietlyWritten
<1>10. ASSUME NEW o \in Unused, NEW g \in Ops, NEW who \in Actors, Reject(o, g, who) \/ AcceptStale(o, g, who)
       PROVE  QuietlyWritten
  <2>1. DraftWritten
    BY <1>10 DEF Reject, AcceptStale, DraftWritten
  <2> QED
    BY <1>1, <1>2, <1>10, <2>1 DEF Reject, AcceptStale, Counted, QuietlyWritten
<1>11. CASE (\E p \in Holders : AcquireLease(p)) \/ GiveUp \/ ReleaseLease \/ Tick
  BY <1>11 DEF AcquireLease, GiveUp, ReleaseLease, Tick, Counted, QuietlyWritten
<1> QED
  BY <1>3, <1>4, <1>5, <1>6, <1>7, <1>8, <1>9, <1>10, <1>11 DEF Quiet

LEMMA MovingKeeps ==
  ASSUME TableInv, NEW o \in Ops, NEW i \in Requests, Moving(o, i)
  PROVE  /\ UNCHANGED <<now, res, card, published, active, reading, lease, leases>>
         /\ rev' = rev + 1 /\ proj' = proj + 1 /\ StaleDrafts(Resources, {})
         /\ \E f \in Families : op' = [op EXCEPT ![o] = f]
         /\ run' = run \/ (/\ run[i].status = "active" /\ run' = [run EXCEPT ![i] = run'[i]]
                           /\ run'[i] \in RunRecords)
         /\ req' = req \/ (req[i].life = "open" /\ req' = [req EXCEPT ![i].life = "cancelled"])
<1>1. rev + 1 \in Nat /\ i \in Items /\ run = [j \in Items |-> run[j]]
  BY DEF TableInv, Stored, TypeOK, Items
<1>2. CASE \E from \in Int, to \in Int : Reschedule(o, i, from, to)
  BY <1>2 DEF Reschedule, Advance, Owns, Families
<1>3. CASE \E from \in Int, to \in Int, b \in Buffers : AdjustPlan(o, i, from, to, b)
  <2>1. PICK from \in Int, to \in Int, b \in Buffers : AdjustPlan(o, i, from, to, b)
    BY <1>3
  <2>2. PICK anchor : Adjusted(o, i, DayAfter(i, from, to + b), anchor, run[i])
    BY <2>1 DEF AdjustPlan
  <2>3. run' = [run EXCEPT ![i] = run[i]]
    BY <2>2 DEF Adjusted
  <2>4. run' = run
    BY <1>1, <2>3
  <2> QED
    BY <2>2, <2>4 DEF Adjusted, Advance, Owns, Families
<1>4. CASE \E to \in Int, b \in Buffers : AdjustForecast(o, i, to, b)
  <2>1. PICK to \in Int, b \in Buffers : AdjustForecast(o, i, to, b)
    BY <1>4
  <2>2. /\ run' = [run EXCEPT ![i] = run'[i]]
        /\ run[i].status = "active" /\ run'[i] \in RunRecords
    BY <2>1, AdjustForecastIs
  <2>3. PICK day, later : Adjusted(o, i, day, item[i], later)
    BY <2>1 DEF AdjustForecast
  <2> QED
    BY <2>2, <2>3 DEF Adjusted, Advance, Owns, Families
<1>5. CASE Cancel(o, i)
  BY <1>5 DEF Cancel, Movable, Advance, Owns, Families
<1> QED
  BY <1>2, <1>3, <1>4, <1>5 DEF Moving

-----------------------------------------------------------------------------
(* The invariant, part by part. *)

LEMMA OrdersStay ==
  ASSUME TableInv, OrderWritten
  PROVE  /\ req' \in [Requests -> OrderRecords \cup {NoOrder}]
         /\ \A q \in Requests : req[q] # NoOrder => req'[q] # NoOrder
<1>1. req \in [Requests -> OrderRecords \cup {NoOrder}]
  BY DEF TableInv, Stored, TypeOK
<1>2. \A r \in OrderRecords : r # NoOrder
  BY DEF OrderRecords, NoOrder
<1>3. ASSUME NEW q \in Requests, req' = [req EXCEPT ![q] = req'[q]], req'[q] \in OrderRecords
      PROVE  /\ req' \in [Requests -> OrderRecords \cup {NoOrder}]
             /\ \A s \in Requests : req[s] # NoOrder => req'[s] # NoOrder
  <2>1. req' \in [Requests -> OrderRecords \cup {NoOrder}]
    BY <1>1, <1>3
  <2>2. \A s \in Requests : s = q \/ req'[s] = req[s]
    BY <1>1, <1>3
  <2> QED
    BY <1>2, <1>3, <2>1, <2>2
<1>4. CASE \E q \in Requests, f \in OrderFacts :
             req' = [req EXCEPT ![q] = [life |-> "open", facts |-> f, estimate |-> None, needs |-> {"unrecorded"}]]
  <2>1. PICK q \in Requests, f \in OrderFacts :
          req' = [req EXCEPT ![q] = [life |-> "open", facts |-> f, estimate |-> None, needs |-> {"unrecorded"}]]
    BY <1>4
  <2>2. req'[q] = [life |-> "open", facts |-> f, estimate |-> None, needs |-> {"unrecorded"}]
    BY <1>1, <2>1
  <2>3. req'[q] \in OrderRecords
    BY <2>2 DEF OrderRecords, Estimates
  <2> QED
    BY <1>3, <2>1, <2>2, <2>3
<1>5. CASE \E q \in Requests, f \in OrderFacts : req[q].life = "open" /\ req' = [req EXCEPT ![q].facts = f]
  <2>1. PICK q \in Requests, f \in OrderFacts : req[q].life = "open" /\ req' = [req EXCEPT ![q].facts = f]
    BY <1>5
  <2>2. req[q] \in OrderRecords
    BY <1>1, <2>1 DEF NoOrder
  <2>3. req'[q] = [req[q] EXCEPT !.facts = f] /\ req' = [req EXCEPT ![q] = req'[q]]
    BY <1>1, <2>1
  <2>4. req'[q] \in OrderRecords
    BY <2>2, <2>3 DEF OrderRecords
  <2> QED
    BY <1>3, <2>3, <2>4
<1>6. CASE \E q \in Requests, w \in Requirements :
             req[q].life # "none" /\ req' = [req EXCEPT ![q].estimate = w.estimate, ![q].needs = w.needs]
  <2>1. PICK q \in Requests, w \in Requirements :
             req[q].life # "none" /\ req' = [req EXCEPT ![q].estimate = w.estimate, ![q].needs = w.needs]
    BY <1>6
  <2>2. req[q] \in OrderRecords
    BY <1>1, <2>1 DEF NoOrder
  <2>3. req'[q] = [req[q] EXCEPT !.estimate = w.estimate, !.needs = w.needs] /\ req' = [req EXCEPT ![q] = req'[q]]
    BY <1>1, <2>1
  <2>4. w.estimate \in Estimates
    BY OrdersAssumption
  <2>5. req'[q] \in OrderRecords
    BY <2>2, <2>3, <2>4, ZenonT(30) DEF OrderRecords
  <2> QED
    BY <1>3, <2>3, <2>5
<1>7. CASE \E i \in Items : run[i].status = "active" /\ req' = [req EXCEPT ![i].life = "fulfilled"]
  <2>1. PICK i \in Items : run[i].status = "active" /\ req' = [req EXCEPT ![i].life = "fulfilled"]
    BY <1>7
  <2>2. i \in Requests \cap Alive
    BY <2>1 DEF TableInv, Related, NoRun
  <2>3. item[i] # NoItem
    BY <2>2 DEF Alive, NoItem
  <2>4. req[i] \in OrderRecords
    BY <1>1, <2>2, <2>3 DEF TableInv, Related
  <2>5. req'[i] = [req[i] EXCEPT !.life = "fulfilled"] /\ req' = [req EXCEPT ![i] = req'[i]]
    BY <1>1, <2>1, <2>2
  <2>6. req'[i] \in OrderRecords
    BY <2>4, <2>5 DEF OrderRecords
  <2> QED
    BY <1>3, <2>2, <2>5, <2>6
<1> QED
  BY <1>4, <1>5, <1>6, <1>7 DEF OrderWritten

LEMMA CancelledOrders ==
  ASSUME TableInv, NEW i \in Requests, req[i].life = "open", req' = [req EXCEPT ![i].life = "cancelled"]
  PROVE  /\ req' \in [Requests -> OrderRecords \cup {NoOrder}]
         /\ \A q \in Requests : req[q] # NoOrder => req'[q] # NoOrder
<1>1. req \in [Requests -> OrderRecords \cup {NoOrder}]
  BY DEF TableInv, Stored, TypeOK
<1>2. \A r \in OrderRecords : r # NoOrder
  BY DEF OrderRecords, NoOrder
<1>3. req[i] \in OrderRecords
  BY <1>1 DEF NoOrder
<1>4. req'[i] = [req[i] EXCEPT !.life = "cancelled"] /\ \A q \in Requests : q = i \/ req'[q] = req[q]
  BY <1>1
<1>5. req'[i] \in OrderRecords
  BY <1>3, <1>4 DEF OrderRecords
<1>6. req' = [req EXCEPT ![i] = req'[i]]
  BY <1>1
<1> QED
  BY <1>1, <1>2, <1>4, <1>5, <1>6

LEMMA RunsStay ==
  ASSUME TableInv, NEW i \in Items, StartRun(i) \/ CompleteRun(i)
  PROVE  /\ run' = [run EXCEPT ![i] = run'[i]] /\ run'[i] \in RunRecords
         /\ i \in Requests \cap Alive
         /\ item' = item
<1>1. DOMAIN run = Items /\ now \in Nat
  BY DEF TableInv, Stored, TypeOK
<1>2. CASE StartRun(i)
  <2>1. i \in Requests \cap Alive
    BY <1>2 DEF StartRun, Alive
  <2>2. /\ run'[i] = [status |-> "active", started |-> now, forecast |-> NoForecast]
        /\ run' = [run EXCEPT ![i] = run'[i]] /\ item' = item
    BY <1>1, <1>2 DEF StartRun
  <2> QED
    BY <1>1, <2>1, <2>2 DEF RunRecords
<1>3. CASE CompleteRun(i)
  <2>1. run[i].status = "active"
    BY <1>3 DEF CompleteRun
  <2>2. i \in Requests \cap Alive
    BY <2>1 DEF TableInv, Related, NoRun
  <2>3. run[i].started \in Nat
    BY <2>1 DEF TableInv, Stored, RunRecords, NoRun
  <2>4. /\ run'[i] = [status |-> "completed", started |-> run[i].started, ended |-> now]
        /\ run' = [run EXCEPT ![i] = run'[i]] /\ item' = item
    BY <1>1, <1>3 DEF CompleteRun
  <2> QED
    BY <1>1, <2>2, <2>3, <2>4 DEF RunRecords
<1> QED
  BY <1>2, <1>3

LEMMA PlacingKeeps ==
  ASSUME NEW input, NEW selected, Placing(input, selected)
  PROVE  /\ UNCHANGED <<now, res, req, run, published, active, reading, lease, leases>>
         /\ rev' = rev + 1 /\ proj' = proj + 1
         /\ op' \in [Ops -> Families \cup {"free"}]
BY DEF Placing, Place, Advance

\* What a step may do to each table.
LEMMA TablesStay ==
  ASSUME TableInv, CardTellsTime, Steps
  PROVE  /\ Written \/ (item' = item /\ (card' = card \/ \E i \in Items :
              card[i].status = "open" /\ card' = [card EXCEPT ![i].status = "closed"]))
         /\ req' \in [Requests -> OrderRecords \cup {NoOrder}]
         /\ \A q \in Requests : req[q] # NoOrder => req'[q] # NoOrder
         /\ run' = run \/ \E i \in Requests \cap Alive :
              run' = [run EXCEPT ![i] = run'[i]] /\ run'[i] \in RunRecords /\ (item' = item \/ run[i] # NoRun)
<1>1. /\ req \in [Requests -> OrderRecords \cup {NoOrder}] /\ rev \in Nat /\ proj \in Nat
      /\ item = [i \in Items |-> item[i]]
  BY DEF TableInv, Stored, TypeOK
<1>2. CASE Quiet
  <2>1. item' = item /\ (card' = card \/ \E i \in Items :
              card[i].status = "open" /\ card' = [card EXCEPT ![i].status = "closed"])
    BY <1>2, QuietKeeps
  <2>2. req' = req \/ OrderWritten
    BY <1>1, <1>2, QuietWrites DEF QuietlyWritten
  <2>3. run' = run \/ \E i \in Items : StartRun(i) \/ CompleteRun(i)
    BY <1>1, <1>2, QuietWrites DEF QuietlyWritten
  <2>4. /\ req' \in [Requests -> OrderRecords \cup {NoOrder}]
        /\ \A q \in Requests : req[q] # NoOrder => req'[q] # NoOrder
    BY <1>1, <2>2, OrdersStay
  <2>5. run' = run \/ \E i \in Requests \cap Alive : run' = [run EXCEPT ![i] = run'[i]] /\ run'[i] \in RunRecords
    BY <2>3, RunsStay
  <2> QED
    BY <2>1, <2>4, <2>5
<1>3. ASSUME NEW input \in Inputs, NEW selected, Placing(input, selected)
      PROVE  Written /\ req' = req /\ run' = run
  BY <1>3, PlacingWrites, PlacingKeeps
<1>4. ASSUME NEW o \in Ops, NEW i \in Requests, Moving(o, i)
      PROVE  /\ Written
             /\ req' \in [Requests -> OrderRecords \cup {NoOrder}]
             /\ \A q \in Requests : req[q] # NoOrder => req'[q] # NoOrder
             /\ run' = run \/ (/\ i \in Requests \cap Alive /\ run[i] # NoRun
                               /\ run' = [run EXCEPT ![i] = run'[i]] /\ run'[i] \in RunRecords)
  <2>1. Written
    BY <1>4, MovingWrites
  <2>2. /\ run' = run \/ (/\ run[i].status = "active" /\ run' = [run EXCEPT ![i] = run'[i]]
                          /\ run'[i] \in RunRecords)
        /\ req' = req \/ (req[i].life = "open" /\ req' = [req EXCEPT ![i].life = "cancelled"])
    BY <1>4, MovingKeeps
  <2>3. /\ req' \in [Requests -> OrderRecords \cup {NoOrder}]
        /\ \A q \in Requests : req[q] # NoOrder => req'[q] # NoOrder
    BY <1>1, <2>2, CancelledOrders
  <2>4. run[i].status = "active" => i \in Alive /\ run[i] # NoRun
    BY DEF TableInv, Related, NoRun, Items
  <2> QED
    BY <2>1, <2>2, <2>3, <2>4
<1>5. CASE UNCHANGED vars
  BY <1>1, <1>5 DEF vars
<1>6. CASE \E input \in Inputs : \E selected : Placing(input, selected)
  BY <1>1, <1>3, <1>6
<1>7. CASE \E o \in Unused, i \in Requests : Moving(o, i)
  BY <1>4, <1>7 DEF Unused
<1> QED
  BY <1>2, <1>5, <1>6, <1>7 DEF Steps

LEMMA StoredStays ==
  ASSUME TableInv, CardTellsTime, Steps
  PROVE  Stored'
<1> USE DEF TableInv
<1>1. /\ now \in Nat /\ rev \in Nat /\ proj \in Nat /\ rev <= proj
      /\ item \in [Items -> ItemRecords \cup {NoItem}]
      /\ card \in [Items -> [status : {"open", "closed"}, start : Nat] \cup {NoCard}]
      /\ published \subseteq DOMAIN Config /\ active.config \in published
      /\ op \in [Ops -> Families \cup {"free"}]
      /\ leases \in 0 .. Leases
      /\ run \in [Items -> RunRecords \cup {NoRun}]
      /\ res \in [Resources -> ResourceFacts]
      /\ \A r, t \in Resources : r # t => res[r].label # res[t].label
      /\ \A c \in published : ConfigOK(Config[c])
  BY DEF Stored, TypeOK
<1>2. item' \in [Items -> ItemRecords \cup {NoItem}]
  <2>1. CASE Written
    <3>1. \A j \in Items : item'[j] \in ItemRecords \cup {NoItem}
      BY <1>1, <2>1 DEF Written, Rewritten
    <3> QED
      BY <2>1, <3>1 DEF Written
  <2> QED
    BY <1>1, <2>1, TablesStay
<1>3. card' \in [Items -> [status : {"open", "closed"}, start : Nat] \cup {NoCard}]
  <2>1. CASE Written
    <3>1. ASSUME NEW j \in Items
          PROVE  card'[j] \in [status : {"open", "closed"}, start : Nat] \cup {NoCard}
      <4>1. CASE card'[j] = card[j]
        BY <1>1, <4>1
      <4>2. CASE Rewritten(j) /\ card'[j] # card[j]
        <5>1. card'[j] = [status |-> "open", start |-> item'[j].start] /\ item'[j] \in ItemRecords
          BY <4>2 DEF Rewritten
        <5> QED
          BY <5>1 DEF ItemRecords
      <4> QED
        BY <2>1, <4>1, <4>2 DEF Written
    <3> QED
      BY <2>1, <3>1 DEF Written
  <2>2. CASE \E i \in Items : card[i].status = "open" /\ card' = [card EXCEPT ![i].status = "closed"]
    <3>1. PICK i \in Items : card[i].status = "open" /\ card' = [card EXCEPT ![i].status = "closed"]
      BY <2>2
    <3>2. card[i] \in [status : {"open", "closed"}, start : Nat]
      BY <1>1, <3>1 DEF NoCard
    <3>3. [card[i] EXCEPT !.status = "closed"] \in [status : {"open", "closed"}, start : Nat]
      BY <3>2
    <3> QED
      BY <1>1, <3>1, <3>3
  <2> QED
    BY <1>1, <2>1, <2>2, TablesStay
<1>4. run' \in [Items -> RunRecords \cup {NoRun}]
  BY <1>1, TablesStay DEF Items
<1>5. req' \in [Requests -> OrderRecords \cup {NoOrder}]
  BY TablesStay
\* the rest of the tables
<1>6. /\ now' \in Nat /\ rev' \in Nat /\ proj' \in Nat /\ rev' <= proj'
      /\ published' \subseteq DOMAIN Config /\ active'.config \in published'
      /\ op' \in [Ops -> Families \cup {"free"}]
      /\ leases' \in 0 .. Leases
      /\ res' \in [Resources -> ResourceFacts]
      /\ \A r, t \in Resources : r # t => res'[r].label # res'[t].label
      /\ \A c \in published' : ConfigOK(Config[c])
  <2>1. CASE Quiet
    <3>1. /\ now' = now \/ now' = now + 1
          /\ Counted
          /\ res' = res \/ \E r \in Resources, f \in ResourceFacts :
               (\A s \in Resources \ {r} : res[s].label # f.label) /\ res' = [res EXCEPT ![r] = f]
          /\ published' = published \/ \E c \in DOMAIN Config : ConfigOK(Config[c]) /\ published' = published \cup {c}
          /\ op' = op \/ \E o \in Ops, f \in Families : op' = [op EXCEPT ![o] = f]
          /\ leases' = leases \/ (leases < Leases /\ leases' = leases + 1)
      BY <1>1, <2>1, QuietWrites DEF QuietlyWritten
    <3>2. active' = active \/ \E c \in published, who \in Actors : active' = [config |-> c, by |-> who]
      BY <2>1, QuietKeeps
    <3>3. now' \in Nat /\ rev' \in Nat /\ proj' \in Nat /\ rev' <= proj'
      BY <1>1, <3>1 DEF Counted
    <3>4. /\ published' \subseteq DOMAIN Config /\ published \subseteq published'
          /\ \A c \in published' : ConfigOK(Config[c])
      BY <1>1, <3>1
    <3>5. active'.config \in published'
      BY <1>1, <3>2, <3>4
    <3>6. op' \in [Ops -> Families \cup {"free"}]
      BY <1>1, <3>1
    <3>7. leases' \in 0 .. Leases
      BY <1>1, <3>1, LeasesAssumption
    <3>8. /\ res' \in [Resources -> ResourceFacts]
          /\ \A r, t \in Resources : r # t => res'[r].label # res'[t].label
      <4>1. CASE res' = res
        BY <1>1, <4>1
      <4>2. ASSUME NEW r \in Resources, NEW f \in ResourceFacts,
                   \A s \in Resources \ {r} : res[s].label # f.label, res' = [res EXCEPT ![r] = f]
            PROVE  /\ res' \in [Resources -> ResourceFacts]
                   /\ \A s, t \in Resources : s # t => res'[s].label # res'[t].label
        <5>1. res' \in [Resources -> ResourceFacts]
          BY <1>1, <4>2
        <5>2. res'[r] = f /\ \A s \in Resources \ {r} : res'[s] = res[s]
          BY <1>1, <4>2
        <5> QED
          BY <1>1, <4>2, <5>1, <5>2
      <4> QED
        BY <3>1, <4>1, <4>2
    <3> QED
      BY <3>3, <3>4, <3>5, <3>6, <3>7, <3>8
  <2>2. CASE \E input \in Inputs : \E selected : Placing(input, selected)
    BY <1>1, <2>2, PlacingKeeps
  <2>3. ASSUME NEW o \in Ops, NEW i \in Requests, Moving(o, i)
        PROVE  /\ UNCHANGED <<now, res, published, active, leases>>
               /\ rev' = rev + 1 /\ proj' = proj + 1
               /\ op' \in [Ops -> Families \cup {"free"}]
    BY <1>1, <2>3, MovingKeeps
  <2>4. CASE \E o \in Unused, i \in Requests : Moving(o, i)
    BY <1>1, <2>3, <2>4 DEF Unused
  <2>5. CASE UNCHANGED vars
    BY <1>1, <2>5 DEF vars
  <2> QED
    BY <2>1, <2>2, <2>4, <2>5 DEF Steps
<1> QED
  BY <1>2, <1>3, <1>4, <1>5, <1>6 DEF Stored, TypeOK

LEMMA RelatedStays ==
  ASSUME TableInv, CardTellsTime, Steps
  PROVE  Related'
<1>1. Related /\ item \in [Items -> ItemRecords \cup {NoItem}] /\ run \in [Items -> RunRecords \cup {NoRun}]
  BY DEF TableInv, Stored, TypeOK
<1>2. \A j \in Items : item'[j] = item[j] \/ Rewritten(j)
  BY TablesStay DEF Written
<1>3. \A i \in Items : item'[i] # NoItem => item'[i].start < item'[i].end /\ item'[i].buffer <= MaxBuffer
  BY <1>1, <1>2 DEF Related, Rewritten
<1>4. \A q \in Requests : item'[q] # NoItem =>
        req'[q] # NoOrder /\ item'[q].mode = "single" /\ Resolved(item'[q])
  BY <1>1, <1>2, TablesStay DEF Related, Rewritten, Items
<1>5. ASSUME NEW i \in Items, run'[i] # NoRun
      PROVE  i \in Requests \cap Alive'
  <2>1. i \in Requests \cap Alive /\ (item' = item \/ run[i] # NoRun)
    <3>1. CASE run'[i] = run[i]
      BY <1>1, <1>5, <3>1 DEF Related
    <3>2. CASE run'[i] # run[i]
      <4>1. PICK j \in Requests \cap Alive :
              run' = [run EXCEPT ![j] = run'[j]] /\ (item' = item \/ run[j] # NoRun)
        BY <3>2, TablesStay
      <4>2. j = i
        BY <1>1, <3>2, <4>1
      <4> QED
        BY <4>1, <4>2
    <3> QED
      BY <3>1, <3>2
  <2>2. item'[i].status = "confirmed"
    BY <1>2, <2>1 DEF Alive, Rewritten
  <2> QED
    BY <2>1, <2>2 DEF Alive
<1> QED
  BY <1>3, <1>4, <1>5 DEF Related

\* A proposal as it is remembered.
Proposal(x) ==
  /\ x \in [status : {"draft", "stale", "rejected", "accepted", "partiallyAccepted"},
            scope : SUBSET Resources, input : {x.input}]
  /\ x.status = "draft" => Readable(x.input) /\ x.scope = DOMAIN x.input.resources

LEMMA InputsAreReadable ==
  ASSUME NEW input \in Inputs, Generable(input)
  PROVE  Readable(input)
<1>1. Shows(input)
  BY InputsShow
<1> QED
  BY <1>1 DEF Shows, Scopes, Readable

\* What a step makes of the proposals: it retires drafts, decides them, or keeps a new one.
LEMMA ProposalsStay ==
  ASSUME TableInv, Steps
  PROVE  /\ proposal' = [o \in Ops |-> proposal'[o]]
         /\ \A o \in Ops : proposal'[o] = NoProposal \/ Proposal(proposal'[o])
         /\ \A o \in Ops : proposal'[o].status = "draft" =>
              \/ proposal'[o] = proposal[o] /\ rev' = rev /\ active' = active
              \/ proposal'[o].input.revision = rev' /\ proposal'[o].input.config = active'.config
<1>1. /\ proposal = [o \in Ops |-> proposal[o]]
      /\ \A o \in Ops : proposal[o] = NoProposal \/ Proposal(proposal[o])
  BY DEF TableInv, Remembered, Proposal, Draft
<1>2. rev \in Nat /\ proj \in Nat
  BY DEF TableInv, Stored, TypeOK
\* drafts that are retired
<1>3. ASSUME NEW o \in Ops, NEW s, s \in {"stale", "rejected"}, Proposal(proposal[o])
      PROVE  Proposal([proposal[o] EXCEPT !.status = s]) /\ [proposal[o] EXCEPT !.status = s].status # "draft"
  <2> DEFINE x == proposal[o]
             y == [x EXCEPT !.status = s]
  <2>1. x \in [status : {"draft", "stale", "rejected", "accepted", "partiallyAccepted"},
               scope : SUBSET Resources, input : {x.input}]
    BY <1>3 DEF Proposal
  <2> HIDE DEF x
  <2>2. y.input = x.input /\ y.status = s
    BY <2>1
  <2>3. y \in [status : {"draft", "stale", "rejected", "accepted", "partiallyAccepted"},
               scope : SUBSET Resources, input : {x.input}]
    BY <1>3, <2>1
  <2>4. s # "draft"
    BY <1>3
  <2> HIDE DEF y
  <2>5. Proposal(y) /\ y.status # "draft"
    BY <2>2, <2>3, <2>4 DEF Proposal
  <2> QED
    BY <2>5 DEF x, y
<1>4. ASSUME NEW touched, StaleDrafts(touched, {})
      PROVE  /\ proposal' = [o \in Ops |-> proposal'[o]]
             /\ \A o \in Ops : proposal'[o] = NoProposal \/ Proposal(proposal'[o])
             /\ \A o \in Ops : proposal'[o].status = "draft" =>
                  proposal'[o] = proposal[o] /\ proposal[o].scope \cap touched = {}
  <2>1. ASSUME NEW o \in Ops
        PROVE  /\ proposal'[o] = NoProposal \/ Proposal(proposal'[o])
               /\ proposal'[o].status = "draft" => proposal'[o] = proposal[o] /\ proposal[o].scope \cap touched = {}
    <3>1. CASE proposal[o].status = "draft" /\ proposal[o].scope \cap touched # {}
      <4>1. proposal'[o] = [proposal[o] EXCEPT !.status = "stale"]
        BY <1>4, <3>1 DEF StaleDrafts
      <4>2. Proposal(proposal[o])
        BY <1>1, <3>1 DEF NoProposal
      <4> QED
        BY <1>3, <4>1, <4>2
    <3>2. CASE ~ (proposal[o].status = "draft" /\ proposal[o].scope \cap touched # {})
      <4>1. proposal'[o] = proposal[o]
        BY <1>4, <3>2 DEF StaleDrafts
      <4> QED
        BY <1>1, <3>2, <4>1
    <3> QED
      BY <3>1, <3>2
  <2>2. proposal' = [o \in Ops |-> proposal'[o]]
    BY <1>4 DEF StaleDrafts
  <2> QED
    BY <2>1, <2>2
<1>5. StaleDrafts(Resources, {}) => \A o \in Ops : proposal'[o].status # "draft"
  <2> SUFFICES ASSUME StaleDrafts(Resources, {}), NEW o \in Ops, proposal'[o].status = "draft"
               PROVE  FALSE
    OBVIOUS
  <2>1. proposal'[o] = proposal[o] /\ proposal[o].scope \cap Resources = {}
    BY <1>4
  <2>2. proposal[o] # NoProposal
    BY <2>1 DEF NoProposal
  <2>3. proposal[o].scope \in (SUBSET Resources) \ {{}}
    <3>1. Proposal(proposal[o]) /\ proposal[o].status = "draft"
      BY <1>1, <2>1, <2>2
    <3>2. proposal[o].scope = DOMAIN proposal[o].input.resources /\ Readable(proposal[o].input)
      BY <3>1 DEF Proposal
    <3> QED
      BY <3>2 DEF Readable
  <2>4. PICK r : r \in proposal[o].scope
    BY <2>3
  <2>5. r \in proposal[o].scope \cap Resources
    BY <2>3, <2>4
  <2> QED
    BY <2>1, <2>5
<1>6. CASE StaleDrafts(Resources, {})
  BY <1>4, <1>5, <1>6
<1>7. CASE Quiet /\ ~ StaleDrafts(Resources, {})
  <2>1. (proposal' = proposal \/ DraftWritten) /\ Counted
    BY <1>2, <1>7, QuietWrites DEF QuietlyWritten
  <2>2. rev' = rev /\ active' = active
    BY <1>7, <2>1 DEF Counted
  <2>3. CASE proposal' = proposal
    BY <1>1, <2>2, <2>3
  <2>4. ASSUME NEW r \in Resources, StaleDrafts({r}, {})
        PROVE  /\ proposal' = [o \in Ops |-> proposal'[o]]
               /\ \A o \in Ops : proposal'[o] = NoProposal \/ Proposal(proposal'[o])
               /\ \A o \in Ops : proposal'[o].status = "draft" => proposal'[o] = proposal[o]
    BY <1>4, <2>4
  <2>5. ASSUME NEW o \in Ops, NEW s \in {"rejected", "stale"}, Draft(o),
               proposal' = [proposal EXCEPT ![o].status = s]
        PROVE  /\ proposal' = [x \in Ops |-> proposal'[x]]
               /\ \A x \in Ops : proposal'[x] = NoProposal \/ Proposal(proposal'[x])
               /\ \A x \in Ops : proposal'[x].status = "draft" => proposal'[x] = proposal[x]
    <3>1. Proposal(proposal[o])
      BY <1>1, <2>5 DEF Draft, NoProposal
    <3>2. proposal'[o] = [proposal[o] EXCEPT !.status = s] /\ \A x \in Ops : x = o \/ proposal'[x] = proposal[x]
      BY <1>1, <2>5
    <3>3. Proposal(proposal'[o]) /\ proposal'[o].status # "draft"
      BY <1>3, <3>1, <3>2
    <3>4. proposal' = [x \in Ops |-> proposal'[x]]
      BY <1>1, <2>5
    <3> QED
      BY <1>1, <3>2, <3>3, <3>4
  <2>6. ASSUME NEW o \in Ops, reading # NotReading, SameInput(reading.input),
               proposal' = [proposal EXCEPT ![o] =
                 [status |-> "draft", scope |-> DOMAIN reading.input.resources, input |-> reading.input]]
        PROVE  /\ proposal' = [x \in Ops |-> proposal'[x]]
               /\ \A x \in Ops : proposal'[x] = NoProposal \/ Proposal(proposal'[x])
               /\ \A x \in Ops : proposal'[x].status = "draft" => proposal'[x] = proposal[x] \/
                    (proposal'[x].input.revision = rev /\ proposal'[x].input.config = active.config)
    <3> DEFINE input == reading.input
               new == [status |-> "draft", scope |-> DOMAIN input.resources, input |-> input]
    <3>1. Readable(input) /\ input.revision = rev /\ input.config = active.config
      BY <2>6 DEF TableInv, Remembered, SameInput
    <3> HIDE DEF input
    <3>2. DOMAIN input.resources \in SUBSET Resources
      BY <3>1 DEF Readable
    <3>3. Proposal(new)
      BY <3>1, <3>2 DEF Proposal
    <3>4. proposal'[o] = new /\ \A x \in Ops : x = o \/ proposal'[x] = proposal[x]
      BY <1>1, <2>6 DEF input
    <3>5. proposal' = [x \in Ops |-> proposal'[x]]
      BY <1>1, <2>6
    <3>6. new.input = input
      OBVIOUS
    <3> HIDE DEF new
    <3> QED
      BY <1>1, <3>1, <3>3, <3>4, <3>5, <3>6
  <2> QED
    BY <1>7, <2>1, <2>2, <2>3, <2>4, <2>5, <2>6 DEF DraftWritten
<1>8. ASSUME NEW input \in Inputs, NEW selected, Placing(input, selected)
      PROVE  /\ proposal' = [x \in Ops |-> proposal'[x]]
             /\ \A x \in Ops : proposal'[x] = NoProposal \/ Proposal(proposal'[x])
             /\ \A x \in Ops : proposal'[x].status # "draft"
  <2>1. PICK o \in Ops, decided \in [status : {"accepted", "partiallyAccepted"}, scope : SUBSET Resources,
                                     input : {input}] : Decided(o, decided)
    BY <1>8 DEF Placing
  <2>2. Proposal(decided) /\ decided.status # "draft"
    BY DEF Proposal
  <2>3. ASSUME NEW x \in Ops
        PROVE  /\ proposal'[x] = NoProposal \/ Proposal(proposal'[x])
               /\ proposal'[x].status # "draft"
    <3>1. CASE x = o
      BY <2>1, <2>2, <3>1 DEF Decided
    <3>2. CASE x # o /\ Draft(x)
      <4>1. proposal'[x] = [proposal[x] EXCEPT !.status = "stale"]
        BY <2>1, <3>2 DEF Decided
      <4>2. Proposal(proposal[x])
        BY <1>1, <3>2 DEF Draft, NoProposal
      <4> QED
        BY <1>3, <4>1, <4>2
    <3>3. CASE x # o /\ ~ Draft(x)
      BY <1>1, <2>1, <3>3 DEF Decided, Draft
    <3> QED
      BY <3>1, <3>2, <3>3
  <2>4. proposal' = [x \in Ops |-> proposal'[x]]
    BY <2>1 DEF Decided
  <2> QED
    BY <2>3, <2>4
<1>9. CASE \E input \in Inputs : \E selected : Placing(input, selected)
  BY <1>8, <1>9
<1>10. CASE \E o \in Unused, i \in Requests : Moving(o, i)
  <2>1. StaleDrafts(Resources, {})
    BY <1>10, MovingKeeps DEF Unused
  <2> QED
    BY <1>6, <2>1
<1>11. CASE UNCHANGED vars
  BY <1>1, <1>11 DEF vars
<1> QED
  BY <1>6, <1>7, <1>9, <1>10, <1>11 DEF Steps

LEMMA RememberedStays ==
  ASSUME TableInv, Steps
  PROVE  Remembered'
<1>1. /\ proposal' = [o \in Ops |-> proposal'[o]]
      /\ \A o \in Ops : proposal'[o] = NoProposal \/ Proposal(proposal'[o])
  BY ProposalsStay
<1>2. reading' = reading \/ reading' = NotReading
        \/ \E o \in Ops, input \in Inputs : Generable(input) /\ reading' = [op |-> o, input |-> input]
  <2>1. CASE Quiet
    BY <2>1, QuietWrites DEF QuietlyWritten, TableInv, Stored, TypeOK
  <2>2. CASE ~ Quiet
    <3>1. reading' = reading
      BY <2>2, PlacingKeeps, MovingKeeps DEF Steps, Unused, vars
    <3> QED
      BY <3>1
  <2> QED
    BY <2>1, <2>2
<1>3. reading' # NotReading => reading' \in [op : Ops, input : {reading'.input}] /\ Readable(reading'.input)
  <2>1. CASE reading' = reading
    BY <2>1 DEF TableInv, Remembered
  <2>2. ASSUME NEW o \in Ops, NEW input \in Inputs, Generable(input), reading' = [op |-> o, input |-> input]
        PROVE  reading' \in [op : Ops, input : {reading'.input}] /\ Readable(reading'.input)
    BY <2>2, InputsAreReadable
  <2> QED
    BY <1>2, <2>1, <2>2
<1>4. \A o \in Ops : proposal'[o] # NoProposal => Proposal(proposal'[o])
  BY <1>1
<1> QED
  BY <1>1, <1>3, <1>4 DEF Remembered, Proposal, Draft, Readable

LEMMA DraftsStay ==
  ASSUME TableInv, DraftsCurrent, Steps
  PROVE  DraftsCurrent'
BY ProposalsStay DEF DraftsCurrent, Draft

LEMMA CardsStay ==
  ASSUME TableInv, CardTellsTime, Steps
  PROVE  CardTellsTime'
<1>1. CASE Written
  BY <1>1 DEF Written, Rewritten, CardTellsTime
<1>2. CASE item' = item /\ card' = card
  BY <1>2 DEF CardTellsTime
<1>3. ASSUME item' = item, NEW i \in Items, card' = [card EXCEPT ![i].status = "closed"]
      PROVE  CardTellsTime'
  <2>1. DOMAIN card = Items
    BY DEF TableInv, Stored, TypeOK
  <2>2. card'[i] = [card[i] EXCEPT !.status = "closed"] /\ \A j \in Items : j = i \/ card'[j] = card[j]
    BY <1>3, <2>1
  <2>3. card'[i].status # "open"
    <3>1. card[i] \in [status : {"open", "closed"}, start : Nat] \cup {NoCard}
      BY DEF TableInv, Stored, TypeOK
    <3> QED
      BY <2>2, <3>1 DEF NoCard
  <2> QED
    BY <1>3, <2>2, <2>3 DEF CardTellsTime
<1> QED
  BY <1>1, <1>2, <1>3, TablesStay

LEMMA CalendarStays ==
  ASSUME TableInv, CardTellsTime, CalendarKept, Steps
  PROVE  CalendarKept'
<1> SUFFICES ASSUME active'.by = "business", NEW i \in Items
             PROVE  InCalendar(active'.config, item'[i], now')
  BY DEF CalendarKept
<1>1. now \in Nat /\ item \in [Items -> ItemRecords \cup {NoItem}]
  BY DEF TableInv, Stored, TypeOK
<1>2. CASE Written /\ now' = now /\ active' = active
  <2>1. CASE item'[i] = item[i]
    BY <1>2, <2>1 DEF CalendarKept
  <2>2. CASE Rewritten(i)
    BY <1>2, <2>2 DEF Rewritten
  <2> QED
    BY <1>2, <2>1, <2>2 DEF Written
<1>3. CASE Quiet
  <2>1. item' = item /\ (now' = now \/ now' = now + 1)
    BY <1>3, QuietKeeps, QuietWrites DEF QuietlyWritten, TableInv, Stored, TypeOK
  <2>2. CASE active' = active
    <3>1. InCalendar(active.config, item[i], now)
      BY <2>2 DEF CalendarKept
    <3> DEFINE row == item[i]
    <3> HIDE DEF row
    <3>2. row.status = "confirmed" /\ Resolved(row) /\ Known(row) /\ Release(row) >= now' => Release(row) >= now
      <4>1. row.status = "confirmed" => row \in ItemRecords
        BY <1>1 DEF row, NoItem
      <4>2. row \in ItemRecords /\ Known(row) => Release(row) \in Nat
        BY DEF ItemRecords, Known, Unknown, Release
      <4> QED
        BY <1>1, <2>1, <4>1, <4>2
    <3> QED
      BY <2>1, <2>2, <3>1, <3>2 DEF InCalendar, row
  <2>3. CASE active' # active
    <3>1. PICK c \in published, who \in Actors :
            /\ active' = [config |-> c, by |-> who] /\ now' = now
            /\ who = "business" => CalendarFits(c)
      BY <1>3, <2>3, QuietKeeps
    <3>2. CalendarFits(c) /\ active'.config = c
      BY <3>1
    <3> QED
      BY <2>1, <3>1, <3>2 DEF CalendarFits, InCalendar, Alive
  <2> QED
    BY <2>2, <2>3
<1>4. CASE \E input \in Inputs : \E selected : Placing(input, selected)
  BY <1>2, <1>4, PlacingWrites, PlacingKeeps
<1>5. CASE \E o \in Unused, s \in Requests : Moving(o, s)
  BY <1>2, <1>5, MovingWrites, MovingKeeps DEF Unused
<1>6. CASE UNCHANGED vars
  BY <1>6 DEF vars, CalendarKept
<1> QED
  BY <1>3, <1>4, <1>5, <1>6 DEF Steps

-----------------------------------------------------------------------------
(* No two sessions at the same time. *)

LEMMA ApartEitherWay ==
  ASSUME NEW rows, NEW i, NEW j, ApartIn(rows, i, j)
  PROVE  ApartIn(rows, j, i)
BY DEF ApartIn, Resolved

LEMMA PlacingApart ==
  ASSUME TableInv, NoOverlap, NEW input \in Inputs, NEW selected, Placing(input, selected)
  PROVE  NoOverlap'
<1>1. /\ \A i \in Items : item'[i] = item[i] \/ \E p \in selected : Adopted(p, i)
      /\ \A p, s \in selected : p # s => p.request # s.request /\ Clear(p, s)
  BY PlacingIs
\* a session adopted now, and one that was there before
<1>2. ASSUME NEW i \in Items, NEW j \in Items, i # j, NEW p \in selected, Adopted(p, i), item'[j] = item[j]
      PROVE  ApartIn(item', i, j)
  <2>1. /\ item'[i] = Confirmed(p.resource, p.start, p.end, p.buffer) /\ Placeable(p) /\ Answers(p)
    BY <1>2 DEF Adopted
  <2>2. /\ item'[i].resource = p.resource /\ item'[i].start = p.start /\ Release(item'[i]) = Release(p)
    BY <2>1 DEF Confirmed, Release
  <2>3. CASE item[j].status = "confirmed" /\ item[j].resource = p.resource
    <3>1. j \in Alive
      BY <2>3 DEF Alive
    <3>2. ~ (item[j].start < Release(p) /\ p.start < Release(item[j])) /\ Known(item[j])
      BY <2>1, <2>3, <3>1 DEF Placeable
    <3>3. /\ item[j].start \in Nat /\ Release(item[j]) \in Int /\ p.start \in Nat /\ Release(p) \in Nat
      BY <2>1, <3>1, <3>2, AliveAre DEF TableInv, Answers, Release, Known
    <3> QED
      BY <1>2, <2>2, <3>2, <3>3 DEF ApartIn
  <2>4. CASE ~ (item[j].status = "confirmed" /\ item[j].resource = p.resource)
    BY <1>2, <2>2, <2>4 DEF ApartIn
  <2> QED
    BY <2>3, <2>4
<1>3. ASSUME NEW i \in Items, NEW j \in Items, i # j, NEW p \in selected, Adopted(p, i),
             NEW s \in selected, Adopted(s, j)
      PROVE  ApartIn(item', i, j)
  <2>1. /\ item'[i] = Confirmed(p.resource, p.start, p.end, p.buffer) /\ i = p.request
        /\ item'[j] = Confirmed(s.resource, s.start, s.end, s.buffer) /\ j = s.request
    BY <1>3 DEF Adopted
  <2>2. Clear(p, s)
    BY <1>1, <1>3, <2>1
  <2> QED
    BY <2>1, <2>2 DEF Confirmed, Clear, ApartIn, Release
<1>4. ASSUME NEW i \in Requests, NEW j \in Items \ {i}
      PROVE  ApartIn(item', i, j)
  <2>1. i \in Items /\ j \in Items /\ i # j
    BY DEF Items
  <2>2. CASE item'[i] = item[i] /\ item'[j] = item[j]
    <3>1. ApartIn(item, i, j)
      BY DEF NoOverlap
    <3> QED
      BY <2>2, <3>1 DEF ApartIn
  <2> QED
    BY <1>1, <1>2, <1>3, <2>1, <2>2, ApartEitherWay
<1> QED
  BY <1>4 DEF NoOverlap

LEMMA RescheduleApart ==
  ASSUME TableInv, NoOverlap, NEW o, NEW i \in Requests, NEW from \in Int, NEW to \in Int,
         Reschedule(o, i, from, to)
  PROVE  NoOverlap'
<1> DEFINE release == to + BufferNow(i)
<1>1. /\ i \in Items /\ item[i] \in ItemRecords
      /\ \A j \in Items \ {i} : item'[j] = item[j]
      /\ item'[i].start = from /\ Release(item'[i]) = release
      /\ item'[i].resource = item[i].resource
      /\ from \in Nat /\ release \in Nat
      /\ FreeFor(i, item[i].resource, from, release)
  <2>1. DOMAIN item = Items /\ i \in Items
    BY DEF TableInv, Stored, TypeOK, Items
  <2>2. item' = [item EXCEPT ![i] = item'[i]] /\ item[i] \in ItemRecords
    BY RescheduleIs
  <2>3. Retimed(i, from, to, BufferNow(i)) /\ BufferNow(i) \in Nat /\ from \in Nat /\ to \in Nat
        /\ FreeFor(i, item[i].resource, from, to + BufferNow(i))
    BY RescheduleIs
  <2> QED
    BY <2>1, <2>2, <2>3 DEF Retimed
<1> HIDE DEF release
<1>2. ASSUME NEW j \in Items \ {i}
      PROVE  ApartIn(item', i, j)
  <2>1. CASE item[j].status = "confirmed" /\ item[j].resource = item[i].resource
    <3>1. j \in Alive
      BY <2>1 DEF Alive
    <3>2. ~ (item[j].start < release /\ from < Release(item[j])) /\ Known(item[j])
      BY <1>1, <1>2, <2>1, <3>1 DEF FreeFor
    <3>3. item[j].start \in Nat /\ Release(item[j]) \in Int
      BY <3>1, <3>2, AliveAre DEF TableInv, Release, Known
    <3> QED
      BY <1>1, <1>2, <3>2, <3>3 DEF ApartIn
  <2>2. CASE ~ (item[j].status = "confirmed" /\ item[j].resource = item[i].resource)
    BY <1>1, <1>2, <2>2 DEF ApartIn
  <2> QED
    BY <2>1, <2>2
<1>3. ASSUME NEW k \in Requests, NEW j \in Items \ {k}
      PROVE  ApartIn(item', k, j)
  <2>1. k \in Items /\ ApartIn(item, k, j)
    BY DEF NoOverlap, Items
  <2>2. CASE k = i
    BY <1>2, <2>2
  <2>3. CASE j = i /\ k # i
    BY <1>2, <2>1, <2>3, ApartEitherWay
  <2>4. CASE j # i /\ k # i
    BY <1>1, <2>1, <2>4 DEF ApartIn
  <2> QED
    BY <2>2, <2>3, <2>4
<1> QED
  BY <1>3 DEF NoOverlap

\* The day around an anchor: it is where it was, or it has the interval the day was checked for.
LEMMA RearrangedApart ==
  ASSUME TableInv, NoOverlap, NEW i \in Requests, i \in Alive, NEW from \in Int, NEW release \in Int,
         Rearranged(i, from, release),
         \/ item'[i] = item[i]
         \/ /\ item'[i].start = from /\ Release(item'[i]) = release
            /\ item'[i].resource = item[i].resource
  PROVE  NoOverlap'
<1> DEFINE rows == SameResource(i)
<1>1. /\ Clocked(i)
      /\ \A j \in Items \ {i} : item'[j] = item[j] \/ MovedOn(i, j)
      /\ \A j \in rows \ {i} : release <= item'[j].start \/ Release(item'[j]) <= from
      /\ \A j, k \in rows \ {i} : j # k /\ item'[j] # item[j] =>
           Release(item'[j]) <= item'[k].start \/ Release(item'[k]) <= item'[j].start
  BY DEF Rearranged
<1>2. i \in Items /\ rows \subseteq Alive /\ i \in rows /\ item'[i].resource = item[i].resource
  BY DEF Items, SameResource
\* what is on the resource of the anchor afterwards was there before
<1>3. ASSUME NEW j \in Items \ {i}, item'[j].status = "confirmed", item'[j].resource = item[i].resource
      PROVE  j \in rows
  <2>1. item[j].status = "confirmed" /\ item[j].resource = item[i].resource
    BY <1>1, <1>3 DEF MovedOn, SameResource, Alive
  <2> QED
    BY <2>1 DEF SameResource, Alive
<1>4. \A j \in Items \ {i} : item'[j].resource = item[j].resource
  BY <1>1 DEF MovedOn
<1>5. \A j \in rows : Timely(j)
  BY <1>1, <1>2, RowsAreTimely DEF TableInv, Clocked, SameResource
<1>6. ASSUME NEW j \in Items \ {i}
      PROVE  ApartIn(item', i, j)
  <2>1. CASE item'[j].status = "confirmed" /\ item'[j].resource = item[i].resource
    <3>1. j \in rows \ {i}
      BY <1>3, <1>6, <2>1
    <3>2. CASE item'[i] = item[i]
      <4>1. ApartIn(item, i, j)
        BY <1>6 DEF NoOverlap
      <4>2. CASE item'[j] = item[j]
        BY <3>2, <4>1, <4>2 DEF ApartIn
      <4>3. CASE MovedOn(i, j)
        <5>1. /\ item[i].start <= item[j].start /\ item[j].start <= item'[j].start
              /\ Known(item[j]) /\ item[j].resource = item[i].resource /\ item[j].status = "confirmed"
              /\ item'[j] \in ItemRecords
          BY <4>3 DEF MovedOn, SameResource, Alive
        <5>2. /\ item[i].start \in Nat /\ Release(item[i]) \in Nat
              /\ item[j].start \in Nat /\ Release(item[j]) \in Nat /\ item[j].start < Release(item[j])
          BY <1>2, <1>5, <3>1 DEF Timely
        <5>3. item[i].status = "confirmed" /\ Resolved(item[i]) /\ Known(item[i])
          BY <1>1, <1>2 DEF Clocked, Alive
        <5>4. Release(item[i]) <= item[j].start
          BY <4>1, <5>1, <5>2, <5>3 DEF ApartIn
        <5>5. item'[j].start \in Nat
          BY <5>1 DEF ItemRecords
        <5>6. Release(item'[i]) <= item'[j].start
          BY <3>2, <5>1, <5>2, <5>4, <5>5
        <5> QED
          BY <5>6 DEF ApartIn
      <4> QED
        BY <1>1, <1>6, <4>2, <4>3
    <3>3. CASE item'[i].start = from /\ Release(item'[i]) = release
      BY <1>1, <3>1, <3>3 DEF ApartIn
    <3> QED
      BY <3>2, <3>3
  <2>2. CASE ~ (item'[j].status = "confirmed" /\ item'[j].resource = item[i].resource)
    BY <1>2, <2>2 DEF ApartIn
  <2> QED
    BY <2>1, <2>2
<1>7. ASSUME NEW k \in Requests \ {i}, NEW j \in Items \ {i, k}
      PROVE  ApartIn(item', k, j)
  <2>1. k \in Items \ {i} /\ ApartIn(item, k, j)
    BY DEF NoOverlap, Items
  <2>2. CASE item'[k] = item[k] /\ item'[j] = item[j]
    BY <2>1, <2>2 DEF ApartIn
  <2>3. CASE item'[k] # item[k]
    <3>1. MovedOn(i, k)
      BY <1>1, <2>1, <2>3
    <3>2. k \in rows \ {i} /\ item'[k].resource = item[i].resource
      BY <2>1, <3>1 DEF MovedOn, SameResource
    <3>3. CASE item'[j].status = "confirmed" /\ item'[j].resource = item'[k].resource
      <4>1. j \in rows \ {i}
        BY <1>3, <1>7, <3>2, <3>3
      <4> QED
        BY <1>1, <1>7, <2>3, <3>2, <4>1 DEF ApartIn
    <3> QED
      BY <3>3 DEF ApartIn
  <2>4. CASE item'[j] # item[j]
    <3>1. MovedOn(i, j)
      BY <1>1, <1>7, <2>4
    <3>2. j \in rows \ {i} /\ item'[j].resource = item[i].resource
      BY <1>7, <3>1 DEF MovedOn, SameResource
    <3>3. CASE item'[k].status = "confirmed" /\ item'[j].resource = item'[k].resource
      <4>1. k \in rows \ {i}
        BY <1>3, <2>1, <3>2, <3>3
      <4> QED
        BY <1>1, <1>7, <2>4, <3>2, <4>1 DEF ApartIn
    <3> QED
      BY <3>3 DEF ApartIn
  <2> QED
    BY <2>2, <2>3, <2>4
<1>8. ASSUME NEW k \in Requests, NEW j \in Items \ {k}
      PROVE  ApartIn(item', k, j)
  <2>1. CASE k = i
    BY <1>6, <2>1
  <2>2. CASE j = i /\ k # i
    <3>1. k \in Items \ {i}
      BY <2>2 DEF Items
    <3> QED
      BY <1>6, <2>2, <3>1, ApartEitherWay
  <2>3. CASE j # i /\ k # i
    BY <1>7, <2>3
  <2> QED
    BY <2>1, <2>2, <2>3
<1> QED
  BY <1>8 DEF NoOverlap

LEMMA OverlapStays ==
  ASSUME TableInv, NoOverlap, Steps
  PROVE  NoOverlap'
<1>1. CASE item' = item
  BY <1>1 DEF NoOverlap, ApartIn
<1>2. CASE \E input \in Inputs : \E selected : Placing(input, selected)
  BY <1>2, PlacingApart
<1>3. ASSUME NEW o \in Unused, NEW i \in Requests, Moving(o, i)
      PROVE  NoOverlap'
  <2>1. CASE \E from \in Int, to \in Int : Reschedule(o, i, from, to)
    BY <2>1, RescheduleApart
  <2>2. ASSUME NEW from \in Int, NEW to \in Int, NEW b \in Buffers, AdjustPlan(o, i, from, to, b)
        PROVE  NoOverlap'
    <3> DEFINE release == to + b
    <3>1. /\ i \in Alive /\ Rearranged(i, from, release) /\ b \in Nat /\ to \in Nat
          /\ Retimed(i, from, to, b)
      BY <2>2, AdjustPlanIs
    <3>2. release \in Int /\ item'[i].start = from /\ Release(item'[i]) = release
          /\ item'[i].resource = item[i].resource
      BY <3>1 DEF Retimed
    <3> HIDE DEF release
    <3> QED
      BY <3>1, <3>2, RearrangedApart
  <2>3. ASSUME NEW to \in Int, NEW b \in Buffers, AdjustForecast(o, i, to, b)
        PROVE  NoOverlap'
    <3>1. i \in Alive /\ item'[i] = item[i] /\ \E from, release \in Int : Rearranged(i, from, release)
      BY <2>3, AdjustForecastIs
    <3> QED
      BY <3>1, RearrangedApart
  <2>4. CASE Cancel(o, i)
    <3>1. DOMAIN item = Items /\ i \in Items
      BY DEF TableInv, Stored, TypeOK, Items
    <3>2. /\ item' = [item EXCEPT ![i].status = "cancelled"] /\ item[i].status = "confirmed"
      BY <2>4 DEF Cancel, Movable
    <3>3. item[i] \in ItemRecords
      BY <3>1, <3>2 DEF TableInv, Stored, TypeOK, NoItem
    <3>4. item'[i].status = "cancelled" /\ \A j \in Items \ {i} : item'[j] = item[j]
      BY <3>1, <3>2, <3>3 DEF ItemRecords
    <3>5. ASSUME NEW k \in Requests, NEW j \in Items \ {k}
          PROVE  ApartIn(item', k, j)
      <4>1. k \in Items /\ ApartIn(item, k, j)
        BY DEF NoOverlap, Items
      <4> QED
        BY <3>4, <4>1 DEF ApartIn
    <3> QED
      BY <3>5 DEF NoOverlap
  <2> QED
    BY <1>3, <2>1, <2>2, <2>3, <2>4 DEF Moving
<1>4. Quiet \/ UNCHANGED vars => item' = item
  BY QuietKeeps DEF vars
<1> QED
  BY <1>1, <1>2, <1>3, <1>4 DEF Steps

-----------------------------------------------------------------------------
(* The delegations. *)

LEMMA OfferedAre ==
  ASSUME TableInv, NEW a \in Assistants, NEW c \in Offered(a)
  PROVE  Command(c)
<1>1. PICK o \in Unused : c \in MoveCommands(o, a) \/ c \in AdoptCommands(o, a)
  BY DEF Offered
<1>2. o \in Ops
  BY DEF Unused
<1>3. CASE c \in MoveCommands(o, a)
  <2>1. PICK i \in {j \in Requests : item[j].status = "confirmed"} :
          \E m \in Moves \cup Shifted(i) :
            c = [action |-> "reschedule", op |-> o, item |-> i, from |-> m[1], to |-> m[2],
                 rev |-> rev, proj |-> proj, config |-> active.config, by |-> a]
    BY <1>3 DEF MoveCommands
  <2>2. item[i].start \in Int /\ item[i].end \in Int
    BY DEF TableInv, Stored, TypeOK, Items, NoItem, ItemRecords
  <2>3. \A m \in Moves \cup Shifted(i) : m[1] \in Int /\ m[2] \in Int
    <3>1. \A m \in Moves : m[1] \in Int /\ m[2] \in Int
      BY MovesAssumption
    <3>2. ASSUME NEW m \in Shifted(i)
          PROVE  m[1] \in Int /\ m[2] \in Int
      <4>1. PICK k \in Shifts : m = <<item[i].start + k, item[i].end + k>>
        BY DEF Shifted
      <4>2. k \in Int
        BY ShiftsAssumption
      <4> QED
        BY <2>2, <4>1, <4>2
    <3> QED
      BY <3>1, <3>2
  <2>4. MoveCommand(c) /\ c.action = "reschedule"
    BY <1>2, <2>1, <2>3 DEF MoveCommand
  <2> QED
    BY <2>4 DEF Command
<1>4. CASE c \in AdoptCommands(o, a)
  <2>1. PICK g \in Unused, input \in Inputs :
          /\ Generable(input)
          /\ c = [action |-> "adopt_proposal", op |-> o, generation |-> g, input |-> input,
                  selected |-> Generate(input), by |-> a]
    BY <1>4 DEF AdoptCommands
  <2>2. g \in Ops /\ Readable(input)
    BY <2>1, InputsAreReadable DEF Unused
  <2>3. AdoptCommand(c) /\ c.action = "adopt_proposal"
    <3> HIDE DEF Inputs, Generable, Generate, Readable
    <3>1. /\ c.action = "adopt_proposal" /\ c.op = o /\ c.generation = g /\ c.input = input
          /\ c.selected = Generate(input) /\ c.by = a
      BY <2>1
    <3>2. c \in [action : {"adopt_proposal"}, op : Ops, generation : Ops, input : {input},
                 selected : {Generate(input)}, by : Assistants]
      BY <1>2, <2>1, <2>2
    <3> QED
      BY <2>2, <3>1, <3>2 DEF AdoptCommand
  <2> QED
    BY <2>3 DEF Command
<1> QED
  BY <1>1, <1>3, <1>4

LEMMA DelegatedAre ==
  ASSUME CallInv, NEW c \in Delegated
  PROVE  Command(c)
<1>1. PICK h \in hosts, s \in Sources : c = records[h][s].command /\ c # NoCommand
  BY DEF Delegated
<1>2. records[h][s] # NoRecord
  BY <1>1 DEF NoRecord
<1> QED
  BY <1>1, <1>2 DEF CallInv, Boundaries, Commanded

\* Whoever a command was made for.
LEMMA MadeForSomebody ==
  ASSUME NEW c, Command(c)
  PROVE  c.by \in Assistants
BY DEF Command, MoveCommand, AdoptCommand

\* The records that a step of a process writes are commands somebody was offered.
LEMMA RecordsStay ==
  ASSUME Boundaries, Commanded, NEW h \in Processes, NEW s \in Sources, NEW r,
         r \in [command : {r.command}, until : Nat, cancelled : BOOLEAN], Command(r.command),
         records' = [records EXCEPT ![h][s] = r]
  PROVE  /\ records' = [g \in Processes |-> [t \in Sources |-> records'[g][t]]]
         /\ \A g \in Processes, t \in Sources :
              records'[g][t] # NoRecord =>
                /\ records'[g][t] \in [command : {records'[g][t].command}, until : Nat, cancelled : BOOLEAN]
                /\ Command(records'[g][t].command)
<1>1. /\ records' = [g \in Processes |-> [t \in Sources |-> records'[g][t]]]
      /\ records'[h][s] = r
      /\ \A g \in Processes, t \in Sources : (g = h /\ t = s) \/ records'[g][t] = records[g][t]
  <2>1. DOMAIN records = Processes /\ \A g \in Processes : records[g] = [t \in Sources |-> records[g][t]]
    BY DEF Boundaries
  <2>2. /\ records' = [g \in Processes |-> records'[g]]
        /\ records'[h] = [records[h] EXCEPT ![s] = r]
        /\ \A g \in Processes \ {h} : records'[g] = records[g]
    BY <2>1
  <2>3. records'[h] = [t \in Sources |-> records'[h][t]]
    BY <2>1, <2>2
  <2>4. /\ records'[h][s] = r
        /\ \A t \in Sources \ {s} : records'[h][t] = records[h][t]
    BY <2>1, <2>2
  <2>5. \A g \in Processes : records'[g] = [t \in Sources |-> records'[g][t]]
    BY <2>1, <2>2, <2>3
  <2> QED
    BY <2>2, <2>4, <2>5
<1>2. ASSUME NEW g \in Processes, NEW t \in Sources, records'[g][t] # NoRecord
      PROVE  /\ records'[g][t] \in [command : {records'[g][t].command}, until : Nat, cancelled : BOOLEAN]
             /\ Command(records'[g][t].command)
  <2>1. CASE g = h /\ t = s
    BY <1>1, <2>1
  <2>2. CASE records'[g][t] = records[g][t]
    BY <1>2, <2>2 DEF Commanded
  <2> QED
    BY <1>1, <2>1, <2>2
<1> QED
  BY <1>1, <1>2

LEMMA CallsStay ==
  ASSUME TableInv, CallInv, [DelegationNext]_allVars
  PROVE  CallInv'
<1>1. now \in Nat /\ Window \in Nat
  BY WindowAssumption DEF TableInv, Stored, TypeOK
<1>2. Boundaries /\ Commanded /\ OneAttempt
  BY DEF CallInv
<1>3. CASE UNCHANGED delegationVars
  BY <1>2, <1>3 DEF delegationVars, boundaryVars, CallInv, Boundaries, Commanded, OneAttempt
<1>4. ASSUME NEW h \in hosts, HostStep(h)
      PROVE  CallInv'
  <2>1. h \in Processes
    BY <1>2 DEF Boundaries
  <2>2. ASSUME NEW s \in Sources, NEW c, Command(c), Delegate(h, s, c)
        PROVE  CallInv'
    <3> DEFINE r == [command |-> c, until |-> now + Window, cancelled |-> FALSE]
    <3>1. r \in [command : {r.command}, until : Nat, cancelled : BOOLEAN] /\ r.command = c
      BY <1>1
    <3>2. records' = [records EXCEPT ![h][s] = r]
      BY <2>2 DEF Delegate
    <3> HIDE DEF r
    <3>3. /\ records' = [g \in Processes |-> [t \in Sources |-> records'[g][t]]]
          /\ \A g \in Processes, t \in Sources :
               records'[g][t] # NoRecord =>
                 /\ records'[g][t] \in [command : {records'[g][t].command}, until : Nat, cancelled : BOOLEAN]
                 /\ Command(records'[g][t].command)
      BY <1>2, <2>1, <2>2, <3>1, <3>2, RecordsStay
    <3>4. UNCHANGED <<hosts, doing, claimed, tombstone, attempts, sent, effective>>
      BY <2>2 DEF Delegate
    <3> QED
      BY <1>2, <3>3, <3>4 DEF CallInv, Boundaries, Commanded, OneAttempt
  \* what a process has at hand, and what it is asked to cancel or is about to call
  <2>3. ASSUME NEW x, \/ x = Nothing
                      \/ /\ \/ x \in [at : {"cancelling"}, source : Sources, command : {x.command}]
                            \/ x \in [at : {"calling"}, source : Sources, command : {x.command}, until : Nat]
                         /\ Command(x.command),
               doing' = [doing EXCEPT ![h] = x],
               UNCHANGED <<hosts, records, claimed, tombstone, attempts, sent, effective>>
        PROVE  CallInv'
    <3>1. doing' = [g \in Processes |-> doing'[g]] /\ \A g \in Processes : doing'[g] = x \/ doing'[g] = doing[g]
      BY <1>2, <2>3 DEF Boundaries
    <3>2. \A g \in Processes : doing'[g] # Nothing =>
            /\ \/ doing'[g] \in [at : {"cancelling"}, source : Sources, command : {doing'[g].command}]
               \/ doing'[g] \in [at : {"calling"}, source : Sources, command : {doing'[g].command}, until : Nat]
            /\ Command(doing'[g].command)
      BY <1>2, <2>3, <3>1 DEF Commanded
    <3> QED
      BY <1>2, <2>3, <3>1, <3>2 DEF CallInv, Boundaries, Commanded, OneAttempt
  <2>4. ASSUME NEW s \in Sources, NEW c, Command(c), CancelBegins(h, s, c)
        PROVE  CallInv'
    <3> DEFINE x == [at |-> "cancelling", source |-> s, command |-> c]
    <3>1. x \in [at : {"cancelling"}, source : Sources, command : {x.command}] /\ x.command = c
      OBVIOUS
    <3>2. doing' = [doing EXCEPT ![h] = x]
          /\ UNCHANGED <<hosts, records, claimed, tombstone, attempts, sent, effective>>
      BY <2>4 DEF CancelBegins
    <3> HIDE DEF x
    <3> QED
      BY <2>3, <2>4, <3>1, <3>2
  <2>5. ASSUME NEW s \in Sources, CallBegins(h, s)
        PROVE  CallInv'
    <3> DEFINE x == [at |-> "calling", source |-> s, command |-> records[h][s].command,
                     until |-> records[h][s].until]
    <3>1. records[h][s] # NoRecord
      BY <2>5 DEF CallBegins, Record
    <3>2. Command(records[h][s].command) /\ records[h][s].until \in Nat
      BY <1>2, <2>1, <3>1 DEF Commanded
    <3>3. x \in [at : {"calling"}, source : Sources, command : {x.command}, until : Nat]
          /\ x.command = records[h][s].command
      BY <3>2
    <3>4. doing' = [doing EXCEPT ![h] = x]
          /\ UNCHANGED <<hosts, records, claimed, tombstone, attempts, sent, effective>>
      BY <2>5 DEF CallBegins, Record
    <3> HIDE DEF x
    <3> QED
      BY <2>3, <3>2, <3>3, <3>4
  <2>6. CASE Refused(h)
    BY <2>3, <2>6 DEF Refused
  <2>7. CASE CancelCommits(h)
    <3> DEFINE s == doing[h].source
               c == doing[h].command
               r == IF records[h][s] = NoRecord THEN [command |-> c, until |-> now, cancelled |-> TRUE]
                    ELSE [records[h][s] EXCEPT !.cancelled = TRUE]
    <3>1. /\ doing[h].at = "cancelling"
          /\ tombstone' = [tombstone EXCEPT ![s] = [command |-> c]]
          /\ records' = [records EXCEPT ![h][s] = r]
          /\ doing' = [doing EXCEPT ![h] = Nothing]
          /\ UNCHANGED <<hosts, claimed, attempts, sent, effective>>
      BY <2>7 DEF CancelCommits, Record
    <3>2. s \in Sources /\ Command(c)
      BY <1>2, <2>1, <3>1 DEF Commanded, Nothing
    <3>3. r \in [command : {r.command}, until : Nat, cancelled : BOOLEAN] /\ Command(r.command)
      <4>1. CASE records[h][s] = NoRecord
        BY <1>1, <3>2, <4>1
      <4>2. CASE records[h][s] # NoRecord
        <5> DEFINE x == records[h][s]
                   y == [x EXCEPT !.cancelled = TRUE]
        <5>1. x \in [command : {x.command}, until : Nat, cancelled : BOOLEAN] /\ Command(x.command)
          BY <1>2, <2>1, <3>2, <4>2 DEF Commanded
        <5>2. r = y
          BY <4>2
        <5> HIDE DEF x, s, c, r
        <5>3. y \in [command : {y.command}, until : Nat, cancelled : BOOLEAN] /\ y.command = x.command
          BY <5>1
        <5> QED
          BY <5>1, <5>2, <5>3
      <4> QED
        BY <4>1, <4>2
    <3> HIDE DEF r, s, c
    <3>4. /\ records' = [g \in Processes |-> [t \in Sources |-> records'[g][t]]]
          /\ \A g \in Processes, t \in Sources :
               records'[g][t] # NoRecord =>
                 /\ records'[g][t] \in [command : {records'[g][t].command}, until : Nat, cancelled : BOOLEAN]
                 /\ Command(records'[g][t].command)
      BY <1>2, <2>1, <3>1, <3>2, <3>3, RecordsStay
    <3>5. /\ tombstone' = [t \in Sources |-> tombstone'[t]]
          /\ \A t \in Sources : tombstone'[t] = [command |-> c] \/ tombstone'[t] = tombstone[t]
          /\ doing' = [g \in Processes |-> doing'[g]]
          /\ \A g \in Processes : doing'[g] = Nothing \/ doing'[g] = doing[g]
      BY <1>2, <3>1 DEF Boundaries
    <3>6. Boundaries'
      BY <1>2, <3>1, <3>4, <3>5 DEF Boundaries
    <3>7. \A g \in Processes : doing'[g] # Nothing =>
            /\ \/ doing'[g] \in [at : {"cancelling"}, source : Sources, command : {doing'[g].command}]
               \/ doing'[g] \in [at : {"calling"}, source : Sources, command : {doing'[g].command}, until : Nat]
            /\ Command(doing'[g].command)
      BY <1>2, <3>5 DEF Commanded
    <3>8. \A t \in Sources : tombstone'[t] # NoRecord =>
            tombstone'[t] \in [command : {tombstone'[t].command}] /\ Command(tombstone'[t].command)
      BY <1>2, <3>2, <3>5 DEF Commanded
    <3>9. Commanded'
      BY <1>2, <3>1, <3>4, <3>7, <3>8 DEF Commanded
    <3>10. OneAttempt'
      BY <1>2, <3>1 DEF OneAttempt
    <3> QED
      BY <3>6, <3>9, <3>10 DEF CallInv
  <2>8. CASE CallClaims(h)
    <3> DEFINE call == doing[h]
               s == call.source
    <3>1. /\ call.at = "calling"
          /\ attempts[s] = {}
          /\ attempts' = [attempts EXCEPT ![s] = attempts[s] \cup {call.command}]
          /\ claimed' = [claimed EXCEPT ![h] = call]
          /\ doing' = [doing EXCEPT ![h] = Nothing]
          /\ UNCHANGED <<hosts, records, tombstone, sent, effective>>
      BY <2>8 DEF CallClaims, Unclaimed
    <3>2. /\ call \in [at : {"calling"}, source : Sources, command : {call.command}, until : Nat]
          /\ Command(call.command)
      BY <1>2, <2>1, <3>1 DEF Commanded, Nothing
    <3>3. s \in Sources /\ call # Nothing
      BY <3>1, <3>2 DEF Nothing
    <3> HIDE DEF call
    <3>4. /\ attempts' = [t \in Sources |-> attempts'[t]]
          /\ attempts'[s] = {call.command}
          /\ \A t \in Sources \ {s} : attempts'[t] = attempts[t]
          /\ claimed' = [g \in Processes |-> claimed'[g]]
          /\ claimed'[h] = call
          /\ \A g \in Processes \ {h} : claimed'[g] = claimed[g]
          /\ doing' = [g \in Processes |-> doing'[g]]
          /\ \A g \in Processes : doing'[g] = Nothing \/ doing'[g] = doing[g]
      BY <1>2, <2>1, <3>1, <3>3 DEF Boundaries
    <3>5. Boundaries'
      BY <1>2, <3>1, <3>4 DEF Boundaries
    <3>6. \A g \in Processes : doing'[g] # Nothing =>
            /\ \/ doing'[g] \in [at : {"cancelling"}, source : Sources, command : {doing'[g].command}]
               \/ doing'[g] \in [at : {"calling"}, source : Sources, command : {doing'[g].command}, until : Nat]
            /\ Command(doing'[g].command)
      BY <1>2, <3>4 DEF Commanded
    <3>7. \A g \in Processes : claimed'[g] # Nothing =>
            /\ claimed'[g] \in [at : {"calling"}, source : Sources, command : {claimed'[g].command}, until : Nat]
            /\ Command(claimed'[g].command)
      BY <1>2, <3>2, <3>4 DEF Commanded
    <3>8. Commanded'
      <4>1. \A t \in Sources : \A x \in attempts'[t] : Command(x)
        BY <1>2, <3>2, <3>3, <3>4 DEF Commanded
      <4> QED
        BY <1>2, <3>1, <3>6, <3>7, <4>1 DEF Commanded
    <3>9. sent[s] = << >> /\ \A g \in Processes \ {h} : claimed[g] # Nothing => claimed[g].source # s
      BY <1>2, <3>1, <3>3 DEF OneAttempt
    <3>10. \A g \in Processes : claimed[g] # Nothing => claimed[g].source \in Sources
      BY <1>2 DEF Commanded
    <3>11. \A t \in Sources : sent'[t] # << >> => \E x \in attempts'[t] : sent'[t] = <<x.by>>
      BY <1>2, <3>1, <3>3, <3>4, <3>9 DEF OneAttempt
    <3>12. \A g \in Processes : claimed'[g] # Nothing =>
             sent'[claimed'[g].source] = << >> /\ claimed'[g].command \in attempts'[claimed'[g].source]
      BY <1>2, <3>1, <3>3, <3>4, <3>9, <3>10 DEF OneAttempt
    <3>13. \A f, g \in Processes :
             f # g /\ claimed'[f] # Nothing /\ claimed'[g] # Nothing => claimed'[f].source # claimed'[g].source
      BY <1>2, <3>4, <3>9 DEF OneAttempt
    <3>14. OneAttempt'
      BY <3>11, <3>12, <3>13 DEF OneAttempt
    <3> QED
      BY <3>5, <3>8, <3>14 DEF CallInv
  <2>9. CASE Sent(h) /\ effective' \in {effective, effective \cup {claimed[h].source}}
    <3> DEFINE call == claimed[h]
               s == call.source
    <3>1. /\ claimed[h] # Nothing
          /\ sent' = [sent EXCEPT ![s] = Append(sent[s], call.command.by)]
          /\ claimed' = [claimed EXCEPT ![h] = Nothing]
          /\ UNCHANGED <<hosts, records, doing, tombstone, attempts>>
      BY <2>9 DEF Sent
    <3>2. /\ s \in Sources /\ call.command.by \in Assistants
          /\ sent[s] = << >> /\ call.command \in attempts[s]
      BY <1>2, <2>1, <3>1, MadeForSomebody DEF Commanded, OneAttempt
    <3>3. /\ claimed' = [g \in Processes |-> claimed'[g]]
          /\ claimed'[h] = Nothing
          /\ \A g \in Processes \ {h} : claimed'[g] = claimed[g]
          /\ \A g \in Processes \ {h} : claimed[g] # Nothing => claimed[g].source # s /\ claimed[g].source \in Sources
      BY <1>2, <2>1, <3>1 DEF Boundaries, OneAttempt, Commanded
    <3> HIDE DEF call
    <3> HIDE DEF s
    <3>4. Append(sent[s], call.command.by) = <<call.command.by>>
      BY <3>2
    <3>5. /\ sent' = [t \in Sources |-> sent'[t]]
          /\ sent'[s] = <<call.command.by>>
          /\ \A t \in Sources \ {s} : sent'[t] = sent[t]
      BY <1>2, <3>1, <3>2, <3>4 DEF Boundaries
    <3>6. \A t \in Sources : sent'[t] = << >> \/ \E a \in Assistants : sent'[t] = <<a>>
      BY <1>2, <3>2, <3>5 DEF Boundaries
    <3>7. effective' \subseteq Sources
      BY <1>2, <2>9, <3>2 DEF Boundaries, call, s
    <3>8. Boundaries'
      BY <1>2, <3>1, <3>3, <3>5, <3>6, <3>7 DEF Boundaries
    <3>9. Commanded'
      BY <1>2, <3>1, <3>3 DEF Commanded
    <3>10. OneAttempt'
      BY <1>2, <3>1, <3>2, <3>3, <3>5 DEF OneAttempt
    <3> QED
      BY <3>8, <3>9, <3>10 DEF CallInv
  <2>10. CASE Dies(h)
    <3>1. /\ records' = [records EXCEPT ![h] = [s \in Sources |-> NoRecord]]
          /\ doing' = [doing EXCEPT ![h] = Nothing]
          /\ claimed' = [claimed EXCEPT ![h] = Nothing]
          /\ UNCHANGED <<hosts, tombstone, attempts, sent, effective>>
      BY <2>10 DEF Dies
    <3>2. /\ records' = [g \in Processes |-> records'[g]]
          /\ records'[h] = [s \in Sources |-> NoRecord]
          /\ \A g \in Processes \ {h} : records'[g] = records[g]
          /\ doing' = [g \in Processes |-> doing'[g]]
          /\ \A g \in Processes : doing'[g] = Nothing \/ doing'[g] = doing[g]
          /\ claimed' = [g \in Processes |-> claimed'[g]]
          /\ \A g \in Processes : claimed'[g] = Nothing \/ claimed'[g] = claimed[g]
      BY <1>2, <2>1, <3>1 DEF Boundaries
    <3>3. \A g \in Processes : records[g] = [t \in Sources |-> records[g][t]]
      BY <1>2 DEF Boundaries
    <3>4. \A g \in Processes : records'[g] = [t \in Sources |-> records'[g][t]]
      BY <3>2, <3>3
    <3>5. \A g \in Processes, t \in Sources : records'[g][t] = NoRecord \/ records'[g][t] = records[g][t]
      BY <3>2
    <3>6. records' = [g \in Processes |-> [t \in Sources |-> records'[g][t]]]
      BY <3>2, <3>4
    <3>7. Boundaries'
      BY <1>2, <3>1, <3>2, <3>6 DEF Boundaries
    <3>8. Commanded'
      BY <1>2, <3>1, <3>2, <3>5 DEF Commanded
    <3>9. OneAttempt'
      BY <1>2, <3>1, <3>2 DEF OneAttempt
    <3> QED
      BY <3>7, <3>8, <3>9 DEF CallInv
  <2>11. CASE \E s \in Sources, a \in Assistants : \E c \in Offered(a) : Delegate(h, s, c)
    BY <2>2, <2>11, OfferedAre
  <2>12. CASE \E s \in Sources, c \in Delegated : Delegate(h, s, c) \/ CancelBegins(h, s, c)
    BY <2>2, <2>4, <2>12, DelegatedAre
  <2>13. CallActs(h) \/ CallFails(h) => CallInv'
    BY <2>9 DEF CallActs, CallFails
  <2> QED
    BY <1>4, <2>5, <2>6, <2>7, <2>8, <2>10, <2>11, <2>12, <2>13 DEF HostStep
<1> QED
  BY <1>3, <1>4 DEF DelegationNext, allVars

-----------------------------------------------------------------------------
(* The invariant. *)

LEMMA InvAtFirst ==
  ASSUME DelegationInit
  PROVE  TableInv /\ PlanInv /\ CallInv
<1>1. PICK s \in Starts :
        /\ req = s.req /\ item = s.item /\ leases = s.leases
        /\ published = s.published
        /\ \E used \in SUBSET Ops : op = [o \in Ops |-> IF o \in used THEN "operation" ELSE "free"]
        /\ active = [config |-> s.active, by |-> "business"]
        /\ res \in [Resources -> {f \in ResourceFacts : f.status = "active"}]
        /\ \A r, t \in Resources : r # t => res[r].label # res[t].label
  BY DEF DelegationInit, Init
<1>2. /\ s.active \in s.published /\ s.published \subseteq DOMAIN Config
      /\ \A c \in s.published : ConfigOK(Config[c])
      /\ s.leases \in 0 .. Leases
      /\ s.req \in [Requests -> OrderRecords \cup {NoOrder}]
      /\ s.item \in [Items -> ItemRecords \cup {NoItem}]
      /\ \A i \in Items : s.item[i] # NoItem =>
           /\ s.item[i].start < s.item[i].end /\ s.item[i].buffer <= MaxBuffer
           /\ i \in Requests => /\ s.req[i] # NoOrder
                              /\ s.item[i].mode = "single" /\ Resolved(s.item[i])
      /\ \A i \in Requests : \A j \in Items \ {i} : ApartIn(s.item, i, j)
      /\ \A i \in Items : InCalendar(s.active, s.item[i], FirstNow)
  BY StartsAssumption
<1>3. /\ now = FirstNow /\ rev = 0 /\ proj = 0
      /\ run = [i \in Items |-> NoRun] /\ card = [i \in Items |-> NoCard]
      /\ reading = NotReading /\ proposal = [o \in Ops |-> NoProposal]
  BY DEF DelegationInit, Init
<1>4. TypeOK
  <2>1. op \in [Ops -> Families \cup {"free"}]
    BY <1>1 DEF Families
  <2> QED
    BY <1>1, <1>2, <1>3, <2>1, ClockAssumption DEF TypeOK
<1>5. Stored
  BY <1>1, <1>2, <1>3, <1>4 DEF Stored
<1>6. Related
  BY <1>1, <1>2, <1>3 DEF Related, Items
<1>7. Remembered
  BY <1>3 DEF Remembered
<1>8. DraftsCurrent /\ CardTellsTime
  BY <1>3 DEF DraftsCurrent, CardTellsTime, Draft, NoProposal, NoCard
<1>9. NoOverlap /\ CalendarKept
  BY <1>1, <1>2, <1>3 DEF NoOverlap, CalendarKept
<1>10. /\ hosts \subseteq Processes
       /\ records = [h \in Processes |-> [x \in Sources |-> NoRecord]]
       /\ tombstone = [x \in Sources |-> NoRecord] /\ attempts = [x \in Sources |-> {}]
       /\ doing = [h \in Processes |-> Nothing] /\ claimed = [h \in Processes |-> Nothing]
       /\ sent = [x \in Sources |-> << >>] /\ effective = {}
  BY DEF DelegationInit
<1>11. CallInv
  BY <1>10 DEF CallInv, Boundaries, Commanded, OneAttempt
<1> QED
  BY <1>5, <1>6, <1>7, <1>8, <1>9, <1>11 DEF TableInv, PlanInv

LEMMA InvStays ==
  ASSUME TableInv, PlanInv, CallInv, [DelegationNext]_allVars
  PROVE  TableInv' /\ PlanInv' /\ CallInv'
<1>1. Steps
  BY StepIs
<1>2. TableInv'
  BY <1>1, StoredStays, RelatedStays, RememberedStays DEF TableInv, PlanInv
<1>3. PlanInv'
  BY <1>1, DraftsStay, CardsStay, CalendarStays, OverlapStays DEF PlanInv
<1> QED
  BY <1>2, <1>3, CallsStay

\* The invariant holds in every state a schedule with its delegations reaches.
THEOREM ScheduleInvariant == DelegationSpec => [](TableInv /\ PlanInv /\ CallInv)
<1>1. DelegationInit => TableInv /\ PlanInv /\ CallInv
  BY InvAtFirst
<1>2. TableInv /\ PlanInv /\ CallInv /\ [DelegationNext]_allVars => (TableInv /\ PlanInv /\ CallInv)'
  BY InvStays
<1> QED
  BY <1>1, <1>2, PTL DEF DelegationSpec

-----------------------------------------------------------------------------
(* What the schedule keeps. *)

\* A draft that can still be accepted was computed from the schedule and the configuration in
\* force, whichever of the commands that change either one came between.
THEOREM DraftsAreCurrent == DelegationSpec => []DraftsCurrent
<1>1. TableInv /\ PlanInv /\ CallInv => DraftsCurrent
  BY DEF PlanInv
<1> QED
  BY <1>1, ScheduleInvariant, PTL

\* A confirmation that can still be sent tells the time its session is planned for.
THEOREM CardsTellTheTime == DelegationSpec => []CardTellsTime
<1>1. TableInv /\ PlanInv /\ CallInv => CardTellsTime
  BY DEF PlanInv
<1> QED
  BY <1>1, ScheduleInvariant, PTL

\* Accepting, adopting, rescheduling and adjusting a day never let two sessions overlap.
THEOREM SessionsNeverOverlap == DelegationSpec => []NoOverlap
<1>1. TableInv /\ PlanInv /\ CallInv => NoOverlap
  BY DEF PlanInv
<1> QED
  BY <1>1, ScheduleInvariant, PTL

\* While the business application chose the configuration in force, the sessions that are not
\* over lie within its calendar.
THEOREM CalendarIsKept == DelegationSpec => []CalendarKept
<1>1. TableInv /\ PlanInv /\ CallInv => CalendarKept
  BY DEF PlanInv
<1> QED
  BY <1>1, ScheduleInvariant, PTL

\* Whatever the tables hold, the scheduler gives every request, in their order, the earliest
\* time open to it, and none only when none is.
THEOREM SchedulerPlacesEarliest == DelegationSpec => []EarliestPlacement
<1>1. TableInv /\ PlanInv /\ CallInv => EarliestPlacement
  <2> SUFFICES ASSUME TableInv, NEW input \in Inputs, Generable(input),
                      NEW id \in DOMAIN input.candidates
               PROVE  PlacedEarliest(input, Generate(input), id)
    BY DEF EarliestPlacement
  <2> QED
    BY AnswersAre DEF TableInv, Placed
<1> QED
  BY <1>1, ScheduleInvariant, PTL

LEMMA InputsAreOK ==
  ASSUME TableInv, NEW input \in Inputs,
         \A q \in DOMAIN input.candidates : CandidateOK(input.config, input.candidates[q])
  PROVE  InputOK(input)
<1> USE DEF TableInv
<1>1. Shows(input)
  BY InputsShow
<1>2. PlanFrom \in Nat /\ PlanTo \in Nat /\ PlanFrom < PlanTo
  BY PlanAssumption
<1>3. active.config \in DOMAIN Config /\ ConfigOK(Config[active.config])
  BY DEF Stored, TypeOK
<1>4. ASSUME NEW r \in DOMAIN input.resources
      PROVE  ResourceOK(input, r)
  <2>1. r \in DOMAIN Config[active.config].calendar
    BY <1>1 DEF Shows, Scopes
  <2> DEFINE ws == BusinessWindows(active.config, r, PlanFrom, PlanTo)
  <2>2. (\A w \in ws : PlanFrom <= w[1] /\ w[1] < w[2] /\ w[2] <= PlanTo) /\ Apart(ws)
    BY <1>2, <1>3, <2>1, BusinessWindowsAre
  <2>3. input.windows[r] = ws /\ input.from = PlanFrom /\ input.to = PlanTo
    BY <1>1 DEF Shows
  <2> HIDE DEF ws
  <2> QED
    BY <2>2, <2>3 DEF ResourceOK
<1>5. \A r, s \in DOMAIN input.resources : r # s => input.resources[r].label # input.resources[s].label
  BY <1>1 DEF Shows, Scopes, Stored
<1>6. \A i \in Sessions(input) : OccupiedOK(i)
  BY <1>1, AliveAre DEF Shows, OccupiedOK
<1>7. input.running \subseteq DOMAIN input.occupied
  BY <1>1 DEF Shows, Related, NoRun
<1>8. DOMAIN input.candidates \cap DOMAIN input.occupied = {}
  BY <1>1 DEF Shows
<1> QED
  BY <1>1, <1>2, <1>4, <1>5, <1>6, <1>7, <1>8 DEF InputOK, Shows

LEMMA AnswersAreOK ==
  ASSUME TableInv, NEW input \in Inputs, Generable(input)
  PROVE  EnvelopeOK(input, Generate(input))
<1>1. Shows(input)
  BY InputsShow
<1>2. /\ Placed(input, DOMAIN input.candidates, Generate(input))
      /\ \A p \in Generate(input) : Answers(p)
  BY AnswersAre DEF TableInv
<1>3. ResultOK(Generate(input))
  BY <1>2 DEF Placed, Answers, ResultOK
<1>4. ASSUME NEW p \in Generate(input)
      PROVE  /\ p.request \in DOMAIN input.candidates
             /\ p.resource \in DOMAIN input.resources
             /\ input.resources[p.resource].status = "active"
             /\ input.from <= p.start /\ p.end <= input.to
  <2>1. Given(input, p) /\ Answers(p)
    BY <1>2 DEF Placed
  <2>2. p.resource \in DOMAIN input.resources /\ input.resources[p.resource].status = "active"
    BY <2>1 DEF Given, Open, Eligible
  <2> QED
    BY <1>1, <2>1, <2>2 DEF Given, Answers, Shows
<1> QED
  BY <1>3, <1>4 DEF EnvelopeOK

\* Where the contract admits the text of every waiting order, no sequence of commands leads to
\* tables that the scheduler is not given, or to an answer of its that is not stored.
THEOREM TablesCanBePlanned == DelegationSpec => []PlannableButForOrders
<1>1. TableInv /\ PlanInv /\ CallInv => PlannableButForOrders
  BY InputsAreOK, AnswersAreOK DEF PlannableButForOrders
<1> QED
  BY <1>1, ScheduleInvariant, PTL

\* Only accepting and adopting put a session where there was none.
LEMMA NewSessions ==
  ASSUME TableInv, CardTellsTime, Steps, NEW q \in Requests, q \notin Alive, item'[q].status = "confirmed"
  PROVE  \E p : Adopted(p, q)
<1>1. q \in Items /\ item[q].status # "confirmed"
  BY DEF Alive, Items
<1>2. CASE item' = item
  BY <1>1, <1>2
<1>3. ASSUME NEW input \in Inputs, NEW selected, Placing(input, selected)
      PROVE  \E p : Adopted(p, q)
  BY <1>1, <1>3, PlacingIs
<1>4. ASSUME NEW o \in Unused, NEW i \in Requests, Moving(o, i)
      PROVE  FALSE
  <2>1. i \in Alive /\ \A j \in Items \ {i} : item'[j] = item[j] \/ j \in Alive
    <3>1. CASE \E from \in Int, to \in Int : Reschedule(o, i, from, to)
      <4>1. i \in Alive /\ item' = [item EXCEPT ![i] = item'[i]]
        BY <3>1, RescheduleIs
      <4> QED
        BY <4>1 DEF TableInv, Stored, TypeOK
    <3>2. ASSUME NEW from \in Int, NEW release \in Int, Rearranged(i, from, release)
          PROVE  \A j \in Items \ {i} : item'[j] = item[j] \/ j \in Alive
      BY <3>2 DEF Rearranged, MovedOn, SameResource
    <3>3. CASE \E from \in Int, to \in Int, b \in Buffers : AdjustPlan(o, i, from, to, b)
      <4>1. PICK from \in Int, to \in Int, b \in Buffers : AdjustPlan(o, i, from, to, b)
        BY <3>3
      <4>2. i \in Alive /\ Rearranged(i, from, to + b) /\ to + b \in Int
        BY <4>1, AdjustPlanIs
      <4> QED
        BY <3>2, <4>2
    <3>4. CASE \E to \in Int, b \in Buffers : AdjustForecast(o, i, to, b)
      BY <3>2, <3>4, AdjustForecastIs
    <3>5. CASE Cancel(o, i)
      <4>1. i \in Alive /\ item' = [item EXCEPT ![i].status = "cancelled"]
        BY <3>5 DEF Cancel, Movable, Alive, Items
      <4> QED
        BY <4>1 DEF TableInv, Stored, TypeOK
    <3> QED
      BY <1>4, <3>1, <3>3, <3>4, <3>5 DEF Moving
  <2> QED
    BY <1>1, <2>1
<1>5. Quiet \/ UNCHANGED vars => item' = item
  BY QuietKeeps, SMTT(30) DEF vars
<1> QED
  BY <1>2, <1>3, <1>4, <1>5 DEF Steps

\* However old a proposal is, a session is adopted for what its order says at that moment.
THEOREM SessionsAreAdoptedAsOrdered == DelegationSpec => AdoptedAsOrdered
<1> DEFINE Adoption ==
      \A q \in Requests :
        q \notin Alive /\ item'[q].status = "confirmed" =>
          /\ item'[q].end - item'[q].start = Duration(active.config, req[q])
          /\ item'[q].buffer = Buffer(active.config, req[q].facts.kind)
          /\ req[q].facts.sample
          /\ req[q].needs \subseteq res[item'[q].resource].caps
<1>1. TableInv /\ PlanInv /\ CallInv /\ [DelegationNext]_allVars => [Adoption]_vars
  <2> SUFFICES ASSUME TableInv, PlanInv, CallInv, [DelegationNext]_allVars,
                      NEW q \in Requests, q \notin Alive, item'[q].status = "confirmed"
               PROVE  /\ item'[q].end - item'[q].start = Duration(active.config, req[q])
                      /\ item'[q].buffer = Buffer(active.config, req[q].facts.kind)
                      /\ req[q].facts.sample
                      /\ req[q].needs \subseteq res[item'[q].resource].caps
    OBVIOUS
  <2>1. PICK p : Adopted(p, q)
    BY StepIs, NewSessions DEF PlanInv
  <2>2. q = p.request /\ item'[q] = Confirmed(p.resource, p.start, p.end, p.buffer) /\ Answers(p)
    BY <2>1 DEF Adopted
  <2>3. /\ item'[q].resource = p.resource /\ item'[q].start = p.start
        /\ item'[q].end = p.end /\ item'[q].buffer = p.buffer
    BY <2>2 DEF Confirmed
  <2> QED
    BY <2>2, <2>3 DEF Answers
<1> HIDE DEF Adoption
<1>2. DelegationSpec => [][Adoption]_vars
  BY <1>1, ScheduleInvariant, PTL DEF DelegationSpec
<1> QED
  BY <1>2, SMTT(30) DEF AdoptedAsOrdered, Adoption

\* What the snapshot needs of the tables is there after every command, so no command is
\* refused for it.
LEMMA SnapshotIsValid ==
  ASSUME TableInv
  PROVE  Projectable
<1> USE DEF TableInv
<1>1. ASSUME NEW q \in Recorded PROVE RequestProjects(q)
  <2>1. q \in Requests /\ req[q] # NoOrder
    BY DEF Recorded, NoOrder
  <2>2. req[q] \in OrderRecords
    BY <2>1 DEF Stored, TypeOK
  <2> QED
    BY <2>2 DEF RequestProjects, OrderRecords
<1>2. ASSUME NEW i \in Planned PROVE ItemProjects(i)
  <2>1. i \in Items /\ item[i] # NoItem
    BY DEF Planned
  <2>2. ASSUME i \in Requests PROVE item[i].mode = "single" /\ req[i].life # "none"
    <3>1. req[i] # NoOrder /\ item[i].mode = "single"
      BY <2>1, <2>2 DEF Related
    <3>2. req[i] \in OrderRecords
      BY <2>2, <3>1 DEF Stored, TypeOK
    <3> QED
      BY <3>1, <3>2 DEF OrderRecords
  <2> QED
    BY <2>1, <2>2 DEF ItemProjects, Bindings, Recorded, Related
<1>3. ASSUME NEW i \in Executed PROVE RunProjects(i)
  <2>1. i \in Requests \cap Alive
    BY DEF Executed, Related
  <2>2. i \in Items /\ item[i] # NoItem
    BY <2>1 DEF Alive, NoItem
  <2> QED
    BY <2>1, <2>2 DEF RunProjects, Bindings, Planned, Related
<1> QED
  BY <1>1, <1>2, <1>3 DEF Projectable

LEMMA SnapshotIsCounted ==
  ASSUME TableInv, Steps, Snapshot' # Snapshot
  PROVE  proj' > proj
<1>1. rev \in Nat /\ proj \in Nat
  BY DEF TableInv, Stored, TypeOK
<1>2. ~ UNCHANGED <<req, item, run>>
  BY DEF Snapshot, RequestView, Bindings, Recorded, Planned, Executed
<1>3. CASE Quiet
  <2>1. item' = item /\ Counted
    BY <1>1, <1>3, QuietKeeps, QuietWrites DEF QuietlyWritten
  <2> QED
    BY <1>1, <1>2, <2>1 DEF Counted
<1>4. CASE \E input \in Inputs : \E selected : Placing(input, selected)
  BY <1>1, <1>4, PlacingKeeps
<1>5. CASE \E o \in Unused, i \in Requests : Moving(o, i)
  BY <1>1, <1>5, MovingKeeps DEF Unused
<1> QED
  BY <1>2, <1>3, <1>4, <1>5 DEF Steps, vars

\* A projection revision names one snapshot, and every command can store its own.
THEOREM RevisionsNameSnapshots == DelegationSpec => RevisionNamesSnapshot
<1> DEFINE Named == /\ Snapshot' # Snapshot => proj' > proj
                    /\ Projectable'
<1>1. TableInv => Projectable
  BY SnapshotIsValid
<1>2. TableInv /\ PlanInv /\ CallInv /\ [DelegationNext]_allVars => (Snapshot' # Snapshot => proj' > proj)
  BY StepIs, SnapshotIsCounted
<1>3. TableInv /\ PlanInv /\ CallInv /\ [DelegationNext]_allVars /\ Projectable' => [Named]_vars
  BY <1>2
<1> HIDE DEF Named
<1>4. DelegationSpec => [][Named]_vars
  BY <1>1, <1>3, ScheduleInvariant, PTL DEF DelegationSpec
<1> QED
  BY <1>4 DEF RevisionNamesSnapshot, Named

-----------------------------------------------------------------------------
(* What the views tell. *)

LEMMA RunStatusIs ==
  ASSUME Stored, NEW i \in Items
  PROVE  RunStatus(i) = "shooting" <=> run[i].status = "active"
<1>1. run[i] \in RunRecords \cup {NoRun}
  BY DEF Stored
<1>2. run[i].status \in {"none", "active", "completed"}
  BY <1>1 DEF RunRecords, NoRun
<1>3. CASE run[i].status = "none"
  BY <1>3 DEF RunStatus
<1>4. CASE run[i].status = "active"
  BY <1>4 DEF RunStatus
<1>5. CASE run[i].status = "completed"
  BY <1>5 DEF RunStatus
<1> QED
  BY <1>2, <1>3, <1>4, <1>5

\* A session of a request has a place, so it is shown as long as it is not called off.
LEMMA ShownAre ==
  ASSUME TableInv
  PROVE  /\ BoundOrders = Requests \cap Alive
         /\ Shooting(TodaySessions(Day(now))) = {i \in Items : run[i].status = "active"}
<1> USE DEF TableInv
<1>1. ASSUME NEW q \in Requests, q \in Alive
      PROVE  q \in Shown
  <2>1. q \in Items /\ item[q] # NoItem /\ item[q].resource \in Resources \cup {None}
    BY <1>1, AliveAre
  <2>2. item[q].resource # None
    BY <1>1, <2>1 DEF Related, Resolved
  <2> QED
    BY <1>1, <2>1, <2>2 DEF Shown, Board, Planned
<1>2. Shown \subseteq Alive /\ Shown \subseteq Items
  BY DEF Shown, Alive
<1>3. BoundOrders = Requests \cap Alive
  BY <1>1, <1>2 DEF BoundOrders, Bindings
<1>4. ASSUME NEW i \in Items
      PROVE  i \in Shooting(TodaySessions(Day(now))) <=> run[i].status = "active"
  <2>1. RunStatus(i) = "shooting" <=> run[i].status = "active"
    BY RunStatusIs
  <2>2. ASSUME run[i].status = "active" PROVE i \in Shown
    <3>1. i \in Requests \cap Alive
      BY <2>2 DEF Related, NoRun
    <3> QED
      BY <1>1, <3>1
  <2> QED
    BY <2>1, <2>2 DEF Shooting, TodaySessions
<1>5. Shooting(TodaySessions(Day(now))) \subseteq Items
  BY <1>2 DEF Shooting, TodaySessions
<1> QED
  BY <1>3, <1>4, <1>5

\* An order that waits for a slot has no session that has not been called off, and one that
\* has been called off has a place.
LEMMA WaitingAre ==
  ASSUME TableInv, NEW q \in Requests, req[q].life = "open", q \notin Alive
  PROVE  q \in Orders \ BoundOrders
<1>1. q \in Recorded
  BY DEF Recorded
<1>2. q \in Planned => Resolved(item[q])
  BY DEF Planned, TableInv, Related
<1> QED
  BY <1>1, <1>2, ShownAre DEF Orders

\* The orders the scheduler would look for a slot for, among those that wait for one.
LEMMA ConsideredAre ==
  ASSUME TableInv
  PROVE  Considered = {q \in ReadyUnscheduled : /\ req[q].facts.priority # None
                                                /\ \A i \in Alive : Resolved(item[i])}
<1> DEFINE input == Assemble(Resources)
           waiting == {q \in Requests : req[q].life = "open" /\ q \notin Alive}
           told(q) == [facts |-> req[q].facts, estimate |-> req[q].estimate, needs |-> req[q].needs]
<1>1. /\ input.config = active.config
      /\ input.candidates = [q \in waiting |-> told(q)]
      /\ input.occupied = [i \in Alive |-> item[i]]
  BY DEF Assemble
<1>2. Sessions(input) = {item[i] : i \in Alive}
  BY <1>1 DEF Sessions
<1>3. Considered = {q \in DOMAIN input.candidates :
                      /\ Schedulable(input, input.candidates[q])
                      /\ Duration(input.config, input.candidates[q]) # None}
  BY DEF Considered
<1> HIDE DEF input
<1>4. ASSUME NEW q \in waiting
      PROVE  q \in Considered <=> /\ req[q].facts.sample /\ req[q].facts.priority # None
                                  /\ \A i \in Alive : Resolved(item[i])
                                  /\ Duration(active.config, req[q]) # None
  <2>1. input.candidates[q] = told(q) /\ q \in DOMAIN input.candidates
    BY <1>1
  <2>2. /\ input.candidates[q].facts = req[q].facts
        /\ input.candidates[q].estimate = req[q].estimate
    BY <2>1
  <2>3. Duration(input.config, input.candidates[q]) = Duration(active.config, req[q])
    BY <1>1, <2>2 DEF Duration
  <2>4. Schedulable(input, input.candidates[q]) <=>
          /\ req[q].facts.sample /\ req[q].facts.priority # None
          /\ \A i \in Alive : Resolved(item[i])
    BY <1>2, <2>2 DEF Schedulable
  <2> QED
    BY <1>3, <2>1, <2>3, <2>4
<1>5. Considered \subseteq waiting
  BY <1>1, <1>3
<1>6. ASSUME NEW q
      PROVE  q \in ReadyUnscheduled <=> /\ q \in waiting /\ req[q].facts.sample
                                        /\ Duration(active.config, req[q]) # None
  <2>1. q \in ReadyUnscheduled => q \in waiting
    BY ShownAre DEF ReadyUnscheduled, Orders, Recorded
  <2>2. q \in waiting => q \in Orders \ BoundOrders
    BY WaitingAre
  <2> QED
    BY <2>1, <2>2 DEF ReadyUnscheduled
<1> QED
  BY <1>4, <1>5, <1>6

\* What the briefing says of a day, and what of it an agent is told.
LEMMA BriefingIs ==
  ASSUME TableInv, NEW d, d = Day(now)
  PROVE  LET view == Daily(d)
             shooting == Shooting(TodaySessions(d))
             brief == Briefing(view)
             told == AgentBriefing(view)
         IN  /\ "conflict" \notin {brief.today, brief.next, brief.ready}
             /\ told.today = brief.today /\ told.current = brief.current /\ told.next = brief.next
             /\ Cardinality(shooting) <= 1 => brief.current # "conflict" /\ view.current = shooting
             /\ Cardinality(shooting) > 1 => brief.current = "conflict" /\ view.current = {}
             /\ view.ready = ReadyUnscheduled
<1> DEFINE view == Daily(d)
           today == TodaySessions(d)
           shooting == Shooting(today)
           supplied == IF Cardinality(shooting) = 1 THEN shooting ELSE {}
           masked == [view EXCEPT !.ready = {}]
           having(v, s) == {i \in v.today : v.status[i] = s}
<1>1. /\ view.date = d /\ view.today = today /\ view.current = supplied
      /\ view.status = [i \in today |-> RunStatus(i)] /\ view.tasks = [i \in today |-> Bindings(i)]
      /\ view.next = First(Pending(today)) /\ view.ready = ReadyUnscheduled
  BY DEF Daily
<1>2. /\ masked.date = d /\ masked.today = today /\ masked.current = supplied
      /\ masked.status = view.status /\ masked.next = First(Pending(today))
  <2>1. view = [date |-> d, today |-> today, status |-> [i \in today |-> RunStatus(i)],
                tasks |-> [i \in today |-> Bindings(i)], current |-> supplied,
                next |-> First(Pending(today)), ready |-> ReadyUnscheduled]
    BY DEF Daily
  <2> HIDE DEF view, supplied, today
  <2> QED
    BY <2>1
<1>3. shooting \subseteq today /\ shooting = {i \in today : RunStatus(i) = "shooting"}
  BY DEF Shooting
<1>4. Pending(today) = {i \in today : RunStatus(i) = "notStarted"}
  BY DEF Pending
<1>5. \A i \in today : Touches(i, d) \/ (d = Day(now) /\ RunStatus(i) = "shooting")
  BY DEF TodaySessions
<1>6. Cardinality(shooting) \in Nat /\ (Cardinality(shooting) = 0 <=> shooting = {})
  <2>1. IsFiniteSet(Items)
    BY FiniteAssumption DEF Items
  <2>2. shooting \subseteq Items
    BY DEF Shooting, TodaySessions, Shown, Alive
  <2>3. IsFiniteSet(shooting)
    BY <2>1, <2>2, FS_Subset
  <2> QED
    BY <2>3, FS_CardinalityType, FS_EmptySet
<1> HIDE DEF view, masked, today, shooting, supplied
\* the list, and with it each pointer, is read alike with and without the orders
<1>7. ASSUME NEW v, v.date = d, v.today = today, v.current = supplied,
             v.status = view.status, v.next = First(Pending(today))
      PROVE  /\ having(v, "shooting") = shooting
             /\ having(v, "notStarted") = Pending(today)
             /\ TodayState(v) = IF today # {} THEN "ready" ELSE "empty"
  <2>1. \A i \in today : v.status[i] = RunStatus(i)
    BY <1>1, <1>7
  <2>2. having(v, "shooting") = shooting /\ having(v, "notStarted") = Pending(today)
    BY <1>3, <1>4, <1>7, <2>1
  <2>3. {i \in v.today : ~ Touches(i, v.date)
                         /\ ~ (v.date = Day(now) /\ v.status[i] = "shooting")} = {}
    BY <1>5, <1>7, <2>1
  <2> QED
    BY <1>7, <2>2, <2>3 DEF TodayState
<1>8. /\ TodayState(view) = TodayState(masked) /\ TodayState(view) \in {"ready", "empty"}
      /\ having(view, "shooting") = shooting /\ having(masked, "shooting") = shooting
      /\ having(view, "notStarted") = Pending(today) /\ having(masked, "notStarted") = Pending(today)
  BY <1>1, <1>2, <1>7
<1>9. \A s, c : PointerState(view, s, c) = PointerState(masked, s, c)
  BY <1>1, <1>2, <1>8 DEF PointerState
<1>10. /\ Briefing(view).today = TodayState(view)
       /\ Briefing(view).current = PointerState(view, supplied, shooting)
       /\ Briefing(view).next = PointerState(view, First(Pending(today)), First(Pending(today)))
       /\ Briefing(view).ready = ReadyState(view)
  BY <1>1, <1>8 DEF Briefing
<1>11. /\ Briefing(masked).today = TodayState(masked)
       /\ Briefing(masked).current = PointerState(masked, supplied, shooting)
       /\ Briefing(masked).next = PointerState(masked, First(Pending(today)), First(Pending(today)))
  BY <1>2, <1>8 DEF Briefing
<1>12. /\ AgentBriefing(view).today = Briefing(masked).today
       /\ AgentBriefing(view).current = Briefing(masked).current
       /\ AgentBriefing(view).next = Briefing(masked).next
  <2>1. Briefing(masked) = [today |-> Briefing(masked).today, current |-> Briefing(masked).current,
                            next |-> Briefing(masked).next, ready |-> Briefing(masked).ready]
    BY DEF Briefing
  <2> HIDE DEF masked
  <2>2. AgentBriefing(view) = [Briefing(masked) EXCEPT !.ready = "unknown"]
    BY DEF AgentBriefing, masked
  <2> QED
    BY <2>1, <2>2
\* the pointers
<1>13. \A s : PointerState(view, s, s) # "conflict"
  BY <1>8 DEF PointerState
<1>14. shooting # {} => PointerState(view, {}, shooting) = "conflict"
  BY <1>8 DEF PointerState
<1>15. ReadyState(view) # "conflict"
  <2>1. \A i \in today : view.tasks[i] = Bindings(i) /\ i \in Shown
    BY <1>1 DEF today, TodaySessions
  <2>2. UNION {view.tasks[i] : i \in view.today} \subseteq BoundOrders
    BY <1>1, <2>1 DEF BoundOrders
  <2>3. view.ready \cap BoundOrders = {}
    BY <1>1 DEF ReadyUnscheduled
  <2> QED
    BY <2>2, <2>3 DEF ReadyState
<1>16. CASE Cardinality(shooting) <= 1
  <2>1. supplied = shooting
    BY <1>6, <1>16 DEF supplied
  <2> QED
    BY <1>1, <1>6, <1>8, <1>9, <1>10, <1>11, <1>12, <1>13, <1>15, <1>16, <2>1 DEF view, shooting, today
<1>17. CASE Cardinality(shooting) > 1
  <2>1. supplied = {} /\ shooting # {}
    BY <1>6, <1>17 DEF supplied
  <2> QED
    BY <1>1, <1>6, <1>8, <1>9, <1>10, <1>11, <1>12, <1>13, <1>14, <1>15, <1>17, <2>1 DEF view, shooting, today
<1> QED
  BY <1>6, <1>16, <1>17

\* No order that waits is left without a reason.
LEMMA WaitingAreTold ==
  ASSUME TableInv, NEW d, NEW q \in Orders \ Alive, req[q].life = "open"
  PROVE  \E code \in Reasons : <<code, "request", q>> \in Attention(d)
<1>1. q \in Requests
  BY DEF Orders, Recorded
<1>2. q \in Orders \ BoundOrders
  BY <1>1, WaitingAre
<1>3. CASE ~ req[q].facts.sample
  BY <1>2, <1>3 DEF Attention, Reasons
<1>4. CASE Duration(active.config, req[q]) = None
  BY <1>2, <1>4 DEF Attention, Reasons
<1>5. CASE req[q].facts.sample /\ Duration(active.config, req[q]) # None
  <2>1. q \in ReadyUnscheduled
    BY <1>2, <1>5 DEF ReadyUnscheduled
  <2> QED
    BY <2>1 DEF Attention, Reasons
<1> QED
  BY <1>3, <1>4, <1>5

\* The snapshot's readers, the boards, the day, the briefings and the scheduler tell one story,
\* however many resources there are and however many sessions are being shot.
THEOREM ViewsTellOneStory == DelegationSpec => []ViewsAgree
<1>1. ASSUME TableInv PROVE ViewsAgree
  <2> DEFINE d == Day(now)
             view == Daily(d)
             shot == {i \in Items : run[i].status = "active"}
  <2>1. /\ BoundOrders = Requests \cap Alive
        /\ Shooting(TodaySessions(d)) = shot
    BY <1>1, ShownAre
  <2>2. /\ "conflict" \notin {Briefing(view).today, Briefing(view).next, Briefing(view).ready}
        /\ AgentBriefing(view).today = Briefing(view).today
        /\ AgentBriefing(view).current = Briefing(view).current
        /\ AgentBriefing(view).next = Briefing(view).next
        /\ Cardinality(shot) <= 1 => Briefing(view).current # "conflict" /\ view.current = shot
        /\ Cardinality(shot) > 1 => Briefing(view).current = "conflict" /\ view.current = {}
        /\ view.ready = ReadyUnscheduled
    BY <1>1, <2>1, BriefingIs
  <2>3. Cardinality(shot) \in Nat
    <3>1. IsFiniteSet(shot)
      BY FiniteAssumption, FS_Subset DEF Items
    <3> QED
      BY <3>1, FS_CardinalityType
  <2>4. Cardinality(shot) > 1 => <<"UNKNOWN_OCCUPANCY", "day", d>> \in Attention(d)
    BY <2>1 DEF Attention
  <2>5. /\ Considered \subseteq ReadyUnscheduled
        /\ \A q \in ReadyUnscheduled \ Considered :
             req[q].facts.priority = None \/ \E i \in Alive : ~ Resolved(item[i])
    BY <1>1, ConsideredAre
  <2>6. PublicBoard \subseteq Shown
    BY DEF PublicBoard, Shown
  <2>7. \A q \in PublicOrders : ~ Editable(q) /\ q \notin ReadyUnscheduled
    <3>1. \A q \in PublicOrders : q \in Planned /\ q \in Requests \cap Alive
      BY DEF PublicOrders, Board, Orders, Recorded
    <3> QED
      BY <2>1, <3>1 DEF Editable, ReadyUnscheduled
  <2>8. \A q \in Orders \ Alive :
          req[q].life = "open" => \E code \in Reasons : <<code, "request", q>> \in Attention(d)
    BY <1>1, WaitingAreTold
  <2> HIDE DEF view, d, shot
  <2>9. Cardinality(shot) <= 1 \/ Cardinality(shot) > 1
    BY <2>3
  <2> QED
    BY <2>2, <2>3, <2>4, <2>5, <2>6, <2>7, <2>8, <2>9 DEF ViewsAgree, view, d, shot
<1> QED
  BY <1>1, ScheduleInvariant, PTL

-----------------------------------------------------------------------------
(* What a delegation promises. *)

\* The assistants with an attempt, and those a cancellation was answered for.
AttemptedBy(s) == {x.by : x \in attempts[s]}
WithdrawnFor(s) == IF Cancelled(s) THEN {tombstone[s].command.by} ELSE {}

LEMMA ClaimKeepsPromise ==
  ASSUME CallInv, NEW h \in hosts, CallClaims(h)
  PROVE  \E s \in Sources, a \in Assistants : Promise!Attempt(s, a)
<1>1. h \in Processes /\ doing[h].at = "calling"
  BY DEF CallClaims, CallInv, Boundaries
<1>2. doing[h].source \in Sources /\ Command(doing[h].command)
  BY <1>1 DEF CallInv, Commanded, Nothing
<1>3. \E s \in Sources : \E c : s = doing[h].source /\ c = doing[h].command /\ Command(c)
  BY <1>2
<1>4. PICK s \in Sources : \E c : s = doing[h].source /\ c = doing[h].command /\ Command(c)
  BY <1>3
<1>5. PICK c : s = doing[h].source /\ c = doing[h].command /\ Command(c)
  BY <1>4
<1>6. /\ attempts[s] = {}
      /\ attempts' = [attempts EXCEPT ![s] = {c}]
      /\ UNCHANGED <<tombstone, sent, effective>>
  BY <1>5 DEF CallClaims, Unclaimed
<1>7. c.by \in Assistants
  BY <1>5, MadeForSomebody
<1>8. attempts'[s] = {c} /\ \A x \in Sources \ {s} : attempts'[x] = attempts[x]
  BY <1>6 DEF CallInv, Boundaries
<1>9. AttemptedBy(s)' = {c.by} /\ \A x \in Sources \ {s} : AttemptedBy(x)' = AttemptedBy(x)
  BY <1>8 DEF AttemptedBy
<1>10. [x \in Sources |-> AttemptedBy(x)]' = [[x \in Sources |-> AttemptedBy(x)] EXCEPT ![s] = {c.by}]
  BY <1>9
<1>11. [x \in Sources |-> AttemptedBy(x)][s] = {}
  BY <1>6 DEF AttemptedBy
<1>12. [x \in Sources |-> WithdrawnFor(x)]' = [x \in Sources |-> WithdrawnFor(x)]
  BY <1>6 DEF WithdrawnFor, Cancelled
<1> QED
  BY <1>6, <1>7, <1>10, <1>11, <1>12 DEF Promise!Attempt, AttemptedBy, WithdrawnFor

LEMMA CallKeepsPromise ==
  ASSUME CallInv, NEW h \in hosts, CallActs(h) \/ CallFails(h)
  PROVE  \E s \in Sources, a \in Assistants : Promise!Dispatch(s, a)
<1> DEFINE s == claimed[h].source
           a == claimed[h].command.by
<1>1. /\ Sent(h)
      /\ effective' = effective \/ (~ Cancelled(s) /\ effective' = effective \cup {s})
  BY DEF CallActs, CallFails, Stands
<1>2. /\ h \in Processes /\ claimed[h] # Nothing
      /\ sent' = [sent EXCEPT ![s] = Append(sent[s], a)] /\ UNCHANGED <<tombstone, attempts>>
  BY <1>1 DEF Sent, CallInv, Boundaries
<1>3. s \in Sources /\ sent[s] = << >> /\ a \in AttemptedBy(s)
  BY <1>2 DEF CallInv, Commanded, OneAttempt, AttemptedBy
<1>4. a \in Assistants
  BY <1>2, MadeForSomebody DEF CallInv, Commanded
<1> HIDE DEF s, a
<1>5. Append(sent[s], a) = <<a>>
  BY <1>3
<1>6. sent' = [sent EXCEPT ![s] = <<a>>]
  BY <1>2, <1>5
<1>7. /\ [x \in Sources |-> WithdrawnFor(x)]' = [x \in Sources |-> WithdrawnFor(x)]
      /\ [x \in Sources |-> AttemptedBy(x)]' = [x \in Sources |-> AttemptedBy(x)]
  BY <1>2 DEF WithdrawnFor, Cancelled, AttemptedBy
<1>8. \/ effective' = effective
      \/ [x \in Sources |-> WithdrawnFor(x)][s] = {} /\ effective' = effective \cup {s}
  BY <1>1, <1>3 DEF WithdrawnFor, s
<1>9. a \in [x \in Sources |-> AttemptedBy(x)][s]
  BY <1>3
<1> QED
  BY <1>3, <1>4, <1>6, <1>7, <1>8, <1>9 DEF Promise!Dispatch, WithdrawnFor, AttemptedBy

\* A cancellation names an assistant without an attempt; where the source is approved for one
\* assistant only, nobody has one.
LEMMA CancellationKeepsPromise ==
  ASSUME CallInv, NEW h \in hosts, CancelCommits(h)
  PROVE  \E s \in Sources, a \in Assistants :
           /\ Promise!Withdraw(s, a)
           /\ (\A b \in Assistants : b = a) => Promise!WithdrawUnattempted(s, a)
<1>1. h \in Processes /\ doing[h].at = "cancelling"
  BY DEF CancelCommits, CallInv, Boundaries
<1>2. doing[h].source \in Sources /\ Command(doing[h].command)
  BY <1>1 DEF CallInv, Commanded, Nothing
<1>3. \E s \in Sources : \E c : s = doing[h].source /\ c = doing[h].command /\ Command(c)
  BY <1>2
<1>4. PICK s \in Sources : \E c : s = doing[h].source /\ c = doing[h].command /\ Command(c)
  BY <1>3
<1>5. PICK c : s = doing[h].source /\ c = doing[h].command /\ Command(c)
  BY <1>4
<1>6. /\ ~ Cancelled(s)
      /\ \A x \in attempts[s] : x.by # c.by
      /\ tombstone' = [tombstone EXCEPT ![s] = [command |-> c]]
      /\ UNCHANGED <<attempts, sent, effective>>
  BY <1>5 DEF CancelCommits
<1>7. c.by \in Assistants /\ c # NoCommand
  BY <1>5, MadeForSomebody DEF Command, NoCommand
<1>8. [x \in Sources |-> AttemptedBy(x)]' = [x \in Sources |-> AttemptedBy(x)]
  BY <1>6 DEF AttemptedBy
<1>9. tombstone'[s] = [command |-> c] /\ \A x \in Sources \ {s} : tombstone'[x] = tombstone[x]
  BY <1>6 DEF CallInv, Boundaries
<1>10. WithdrawnFor(s)' = {c.by} /\ \A x \in Sources \ {s} : WithdrawnFor(x)' = WithdrawnFor(x)
  <2>1. [command |-> c] # NoRecord
    BY <1>7 DEF NoRecord
  <2> QED
    BY <1>9, <2>1 DEF WithdrawnFor, Cancelled
<1>11. WithdrawnFor(s) = {}
  BY <1>6 DEF WithdrawnFor
<1>12. [x \in Sources |-> WithdrawnFor(x)]' =
         [[x \in Sources |-> WithdrawnFor(x)] EXCEPT ![s] = {c.by}]
  BY <1>10
<1>13. c.by \notin [x \in Sources |-> AttemptedBy(x)][s]
  BY <1>6 DEF AttemptedBy
<1>14. Promise!Withdraw(s, c.by)
  BY <1>6, <1>8, <1>11, <1>12, <1>13 DEF Promise!Withdraw, WithdrawnFor, AttemptedBy
<1>15. ASSUME \A b \in Assistants : b = c.by
       PROVE  [x \in Sources |-> AttemptedBy(x)][s] = {}
  <2>1. \A x \in attempts[s] : x.by \in Assistants
    BY MadeForSomebody DEF CallInv, Commanded
  <2> QED
    BY <1>6, <1>15, <2>1 DEF AttemptedBy
<1> QED
  BY <1>7, <1>14, <1>15 DEF Promise!WithdrawUnattempted, AttemptedBy

\* What every step is to the promise.
LEMMA StepKeepsPromise ==
  ASSUME CallInv, [DelegationNext]_allVars
  PROVE  /\ [Promise!KeptNext]_(Promise!permitVars)
         /\ (\A a, b \in Assistants : a = b) => [Promise!PermitNext]_(Promise!permitVars)
<1>1. UNCHANGED <<attempts, sent, effective, tombstone>> => UNCHANGED Promise!permitVars
  BY DEF Promise!permitVars, Cancelled
<1>2. ASSUME NEW h \in hosts, HostStep(h)
      PROVE  /\ [Promise!KeptNext]_(Promise!permitVars)
             /\ (\A a, b \in Assistants : a = b) => [Promise!PermitNext]_(Promise!permitVars)
  <2>1. CASE CallClaims(h)
    BY <2>1, ClaimKeepsPromise DEF Promise!KeptNext, Promise!PermitNext
  <2>2. CASE CallActs(h) \/ CallFails(h)
    BY <2>2, CallKeepsPromise DEF Promise!KeptNext, Promise!PermitNext
  <2>3. CASE CancelCommits(h)
    <3>1. PICK s \in Sources, a \in Assistants :
            /\ Promise!Withdraw(s, a)
            /\ (\A b \in Assistants : b = a) => Promise!WithdrawUnattempted(s, a)
      BY <2>3, CancellationKeepsPromise
    <3> QED
      BY <3>1 DEF Promise!KeptNext, Promise!PermitNext
  <2>4. CASE ~ (CallClaims(h) \/ CallActs(h) \/ CallFails(h) \/ CancelCommits(h))
    <3>1. UNCHANGED <<attempts, sent, effective, tombstone>>
      BY <1>2, <2>4 DEF HostStep, Delegate, CancelBegins, CallBegins, Refused, Dies
    <3> QED
      BY <1>1, <3>1
  <2> QED
    BY <2>1, <2>2, <2>3, <2>4
<1> QED
  BY <1>1, <1>2 DEF DelegationNext, allVars, delegationVars

\* However the processes, their cancellations and their deaths interleave, a source leads to
\* one attempt and one dispatch at most, and a cancellation that was answered is final.
THEOREM DelegationsKeepTheirPromise == DelegationSpec => KeptPermit
<1>1. DelegationInit => Promise!PermitInit
  BY DEF DelegationInit, Promise!PermitInit, Cancelled
<1>2. TableInv /\ PlanInv /\ CallInv /\ [DelegationNext]_allVars => [Promise!KeptNext]_(Promise!permitVars)
  BY StepKeepsPromise
<1> QED
  BY <1>1, <1>2, ScheduleInvariant, PTL DEF DelegationSpec, KeptPermit, Promise!KeptSpec

\* Where all sources are approved for one and the same assistant, the boundary keeps what is
\* documented: no cancellation is answered once there is an attempt.
THEOREM OneAssistantKeepsDocumentation ==
  ASSUME \A a, b \in Assistants : a = b
  PROVE  DelegationSpec => DocumentedPermit
<1>1. DelegationInit => Promise!PermitInit
  BY DEF DelegationInit, Promise!PermitInit, Cancelled
<1>2. TableInv /\ PlanInv /\ CallInv /\ [DelegationNext]_allVars => [Promise!PermitNext]_(Promise!permitVars)
  BY StepKeepsPromise
<1> QED
  BY <1>1, <1>2, ScheduleInvariant, PTL DEF DelegationSpec, DocumentedPermit, Promise!PermitSpec

=============================================================================
