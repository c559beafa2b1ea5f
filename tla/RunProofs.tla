------------------------------ MODULE RunProofs ------------------------------
(***************************************************************************)
(* Runs, their events and the queue of a kiosk, for any number of items,   *)
(* runs, events, times and tabs.                                           *)
(*                                                                         *)
(* The inductive invariant of the server says that the facts of a run are  *)
(* numbered from one without a gap, that each was folded into what the     *)
(* receipt of the one before it keeps, and that the last one left the run  *)
(* as it stands.  From it follow that every accepted receipt can be        *)
(* rebuilt, that a run is what its facts say, what becomes of items and    *)
(* requests, and that the runs the recorder starts on a resource never     *)
(* overlap.                                                                *)
(*                                                                         *)
(* The inductive invariant of the queue says that what was confirmed       *)
(* before an event, and the event that takes the run to the revision it    *)
(* was recorded against, is ahead of it in the queue or applied; that what *)
(* a tab sends has nothing before it; and that an event refused is one     *)
(* that nothing the server does can make applicable again.                 *)
(***************************************************************************)
EXTENDS FieldRuns, KioskQueue, FiniteSetTheorems, WellFoundedInduction, TLAPS

Response(e) == receipt[e].response

\* A fact is kept under its own id, with a receipt that says how it left the run.
FactsKept ==
  /\ \A e \in Events : receipt[e].kind = "accepted" => e \in Facts
  /\ \A e \in Facts :
       /\ receipt[e].kind = "accepted"
       /\ Response(e).rev = fact[e].rev
       /\ Response(e).status = fact[e].result
       /\ fact[e].projection <= projection

\* The event was folded into that state of the run, which it could follow.
FoldedInto(e, before, last) ==
  LET cmd == fact[e].cmd
  IN  /\ fact[e].previous = before.status
      /\ CanFold(before, cmd.type, cmd.at, last)
      /\ Response(e) = Fold(before, cmd.type, cmd.at)

\* The first fact of a run begins it, every other one follows the one before it.
Chained ==
  \A e \in Facts :
    /\ fact[e].rev = 1 => FoldedInto(e, Scheduled(fact[e].cmd.item), NoTime)
    /\ \A f \in Facts :
         fact[f].cmd.run = fact[e].cmd.run /\ fact[e].rev = fact[f].rev + 1
           => /\ FoldedInto(e, Response(f), fact[f].cmd.at)
              /\ fact[f].projection < fact[e].projection

\* The facts of a run are numbered from one to its revision, each number once.
Numbered ==
  /\ \A e \in Facts : /\ run[fact[e].cmd.run] # NoRun
                      /\ fact[e].rev \in 1 .. run[fact[e].cmd.run].rev
  /\ \A e, f \in Facts :
       fact[e].cmd.run = fact[f].cmd.run /\ fact[e].rev = fact[f].rev => e = f
  /\ \A r \in Runs : run[r] # NoRun =>
       /\ run[r].rev >= 1
       /\ \A k \in 1 .. run[r].rev : \E e \in Facts : fact[e].cmd.run = r /\ fact[e].rev = k

\* The last fact of a run left it as it stands, and all its facts are about its item.
LeftByLast ==
  \A e \in Facts :
    /\ run[fact[e].cmd.run].item = fact[e].cmd.item
    /\ fact[e].rev = run[fact[e].cmd.run].rev => Response(e) = run[fact[e].cmd.run]

\* A stored run has begun; it is over exactly when it has an end; a block is dated by the
\* event that began it.
RunsTimed ==
  \A r \in Runs : run[r] # NoRun =>
    /\ run[r].status # "scheduled"
    /\ run[r].started # NoTime
    /\ run[r].status = "completed" <=> run[r].completed # NoTime
    /\ run[r].status = "blocked" =>
         \A e \in Facts : fact[e].cmd.run = r /\ fact[e].rev = run[r].rev
                            => run[r].blockedAt = fact[e].cmd.at

\* An item has one run, a cancelled one none; its request is fulfilled by the completion.
OneRunEach ==
  /\ \A r, q \in Runs : run[r] # NoRun /\ run[q] # NoRun /\ run[r].item = run[q].item => r = q
  /\ \A i \in TaskItems :
       /\ request[i] = "fulfilled" <=> \E r \in Runs : /\ run[r] # NoRun /\ run[r].item = i
                                                       /\ run[r].status = "completed"
       /\ i \in cancelled => request[i] = "cancelled"
  /\ \A r \in Runs : run[r] # NoRun => run[r].item \notin cancelled

\* What is announced is the completion of its run.
Announced == \A e \in notices : e \in Facts /\ fact[e].result = "completed"

\* The times of some facts, added up; F stands for the table of facts in some state.
SumAt(F, S) == MapThenSumSet(LAMBDA e : F[e].cmd.at, S)
Picked(S) == CHOOSE x \in S : TRUE

OfType(r, type) == {e \in Facts : fact[e].cmd.run = r /\ fact[e].cmd.type = type}

\* The blocked time of a run is that of its closed blocks, less the begin of an open one;
\* with its start it never exceeds the time of its last fact, which a completed run keeps.
Measured ==
  /\ IsFiniteSet(Facts)
  /\ \A r \in Runs : run[r] # NoRun =>
       /\ run[r].blocked = SumAt(fact, OfType(r, "resume")) - SumAt(fact, OfType(r, "block"))
                             + IF run[r].status = "blocked" THEN run[r].blockedAt ELSE 0
       /\ run[r].status = "completed" => run[r].started + run[r].blocked <= run[r].completed
       /\ run[r].status # "completed" =>
            \A e \in Facts : fact[e].cmd.run = r /\ fact[e].rev = run[r].rev
                               => run[r].started + run[r].blocked <= fact[e].cmd.at

Inv == /\ ServerTypeOK /\ FactsKept /\ Numbered /\ LeftByLast /\ Chained
       /\ RunsTimed /\ OneRunEach /\ Announced /\ Measured

-----------------------------------------------------------------------------
(* Induction over numbers and over finite sets. *)

\* A set of naturals that is not empty has a least member.
LEMMA Least ==
  ASSUME NEW T, T \subseteq Nat, T # {}
  PROVE  \E m \in T : \A k \in T : m <= k
<1> DEFINE D == {0 .. n : n \in T}
<1>1. D \subseteq FiniteSubsetsOf(Nat)
  <2>1. ASSUME NEW n \in T PROVE 0 .. n \in FiniteSubsetsOf(Nat)
    <3>1. IsFiniteSet(0 .. n)
      BY FS_Interval
    <3> QED
      BY <3>1 DEF FiniteSubsetsOf
  <2> QED
    BY <2>1
<1>2. D # {}
  OBVIOUS
<1>3. IsWellFoundedOn(StrictSubsetOrdering(Nat), FiniteSubsetsOf(Nat))
  BY FS_StrictSubsetOrderingWellFounded
<1>4. PICK x \in D : \A y \in D : ~ (<<y, x>> \in StrictSubsetOrdering(Nat))
  <2> HIDE DEF D
  <2> QED
    BY <1>1, <1>2, <1>3, WFMin
<1>5. PICK m \in T : x = 0 .. m
  OBVIOUS
<1>6. ASSUME NEW k \in T, k < m PROVE FALSE
  <2>1. 0 .. k \in D /\ 0..k \in SUBSET Nat /\ x \in SUBSET Nat /\ 0 .. k \subseteq x /\ 0 .. k # x
    BY <1>5, <1>6
  <2> QED
    BY <2>1, <1>4, Zenon DEF StrictSubsetOrdering
<1> QED
  BY <1>6


\* A set that holds zero and the successor of each of its naturals holds every natural.
LEMMA Induct ==
  ASSUME NEW S, 0 \in S, \A n \in Nat : n \in S => n+1 \in S
  PROVE  \A n \in Nat : n \in S
<1> DEFINE T == {n \in Nat : n \notin S}
<1> SUFFICES ASSUME T # {} PROVE FALSE
  OBVIOUS
<1>1. PICK m \in T : \A k \in T : m <= k
  BY Least
<1>2. m # 0
  OBVIOUS
<1>3. m - 1 \in Nat /\ m - 1 \notin T
  BY <1>1, <1>2
<1> QED
  BY <1>3

-----------------------------------------------------------------------------
(* Sums of times over finite sets of facts. *)

\* Induction over the finite subsets of a set: P holds them all if it holds each one whose
\* strict subsets it holds.
LEMMA FiniteSubsets ==
  ASSUME NEW U, NEW P,
         \A T \in FiniteSubsetsOf(U) : (\A s \in SUBSET T : s # T => s \in P) => T \in P
  PROVE  \A T \in FiniteSubsetsOf(U) : T \in P
<1> DEFINE Bad == {T \in FiniteSubsetsOf(U) : T \notin P}
<1> SUFFICES ASSUME Bad # {} PROVE FALSE
  OBVIOUS
<1>1. IsWellFoundedOn(StrictSubsetOrdering(U), FiniteSubsetsOf(U))
  BY FS_StrictSubsetOrderingWellFounded
<1>2. PICK x \in Bad : \A y \in Bad : ~ (<<y, x>> \in StrictSubsetOrdering(U))
  <2>1. Bad \subseteq FiniteSubsetsOf(U)
    OBVIOUS
  <2> HIDE DEF Bad
  <2> QED
    BY <1>1, <2>1, WFMin
<1>3. PICK s \in SUBSET x : s # x /\ s \notin P
  OBVIOUS
<1>4. x \in SUBSET U /\ IsFiniteSet(x)
  BY DEF FiniteSubsetsOf
<1>5. s \in SUBSET U /\ IsFiniteSet(s)
  BY <1>4, FS_Subset
<1>6. s \in Bad
  BY <1>3, <1>5 DEF FiniteSubsetsOf
<1> QED
  BY <1>2, <1>3, <1>4, <1>5, <1>6, Zenon DEF StrictSubsetOrdering

\* The sum is the time of the member chosen first and the sum of the others.
LEMMA SumUnfolds ==
  ASSUME NEW F, NEW T, IsFiniteSet(T)
  PROVE  SumAt(F, T) = IF T = {} THEN 0 ELSE F[Picked(T)].cmd.at + SumAt(F, T \ {Picked(T)})
<1> DEFINE body(g, s) == IF s = {} THEN 0 ELSE F[Picked(s)].cmd.at + g[s \ {Picked(s)}]
           iter(S) == CHOOSE g : g = [s \in SUBSET S |-> body(g, s)]
           P == {S \in SUBSET T : /\ iter(S) = [s \in SUBSET S |-> body(iter(S), s)]
                                  /\ \A s \in SUBSET S : iter(S)[s] = SumAt(F, s)}
<1>1. \A S : SumAt(F, S) = iter(S)[S]
  BY Zenon DEF SumAt, MapThenSumSet, MapThenFoldSet, Picked
<1>2. \A S : S # {} => Picked(S) \in S
  BY DEF Picked
<1>3. ASSUME NEW S \in FiniteSubsetsOf(T), \A s \in SUBSET S : s # S => s \in P
      PROVE  S \in P
  <2> DEFINE G == [s \in SUBSET S |->
                     IF s = {} THEN 0 ELSE F[Picked(s)].cmd.at + SumAt(F, s \ {Picked(s)})]
  <2> HIDE DEF iter
  <2>1. S \in SUBSET T /\ IsFiniteSet(S)
    BY DEF FiniteSubsetsOf
  <2>2. ASSUME NEW s \in SUBSET S, s # S
        PROVE  SumAt(F, s) = G[s]
    <3>1. s \in P
      BY <1>3, <2>2
    <3>2. iter(s)[s] = body(iter(s), s)
      BY <3>1
    <3>3. s # {} => iter(s)[s \ {Picked(s)}] = SumAt(F, s \ {Picked(s)})
      BY <3>1
    <3> QED
      BY <1>1, <3>2, <3>3
  <2>3. G = [s \in SUBSET S |-> body(G, s)]
    <3>1. ASSUME NEW s \in SUBSET S, s # {}
          PROVE  G[s \ {Picked(s)}] = SumAt(F, s \ {Picked(s)})
      <4>1. s \ {Picked(s)} \in SUBSET S /\ s \ {Picked(s)} # S
        BY <1>2, <3>1
      <4> QED
        BY <2>2, <4>1
    <3> QED
      BY <3>1
  <2>4. iter(S) = [s \in SUBSET S |-> body(iter(S), s)]
    <3> HIDE DEF body, G
    <3> QED
      BY <2>3 DEF iter
  <2>5. iter(S) = G
    <3> DEFINE Q == {s \in SUBSET S : iter(S)[s] = G[s]}
    <3>1. ASSUME NEW X \in FiniteSubsetsOf(S), \A s \in SUBSET X : s # X => s \in Q
          PROVE  X \in Q
      <4>1. X \in SUBSET S
        BY DEF FiniteSubsetsOf
      <4>2. iter(S)[X] = body(iter(S), X) /\ G[X] = body(G, X)
        BY <2>3, <2>4, <4>1
      <4>3. X # {} => X \ {Picked(X)} \in Q
        BY <1>2, <3>1
      <4> HIDE DEF G
      <4> QED
        BY <4>1, <4>2, <4>3
    <3>2. \A X \in FiniteSubsetsOf(S) : X \in Q
      <4> HIDE DEF Q
      <4> QED
        BY <3>1, FiniteSubsets
    <3>3. \A X \in SUBSET S : iter(S)[X] = G[X]
      BY <2>1, <3>2, FS_FiniteSubsetsOfFinite
    <3> HIDE DEF body
    <3> QED
      BY <2>4, <3>3
  <2>6. \A s \in SUBSET S : iter(S)[s] = SumAt(F, s)
    BY <1>1, <2>2, <2>5
  <2> QED
    BY <2>1, <2>4, <2>6
<1>4. T \in P
  <2>1. T \in FiniteSubsetsOf(T)
    BY DEF FiniteSubsetsOf
  <2> HIDE DEF P
  <2> QED
    BY <1>3, <2>1, FiniteSubsets
<1> HIDE DEF iter
<1>5. iter(T)[T] = body(iter(T), T)
  BY <1>4
<1>6. T # {} => iter(T)[T \ {Picked(T)}] = SumAt(F, T \ {Picked(T)})
  BY <1>4
<1> QED
  BY <1>1, <1>5, <1>6

LEMMA SumIsInt ==
  ASSUME NEW F, NEW T, IsFiniteSet(T), \A e \in T : F[e].cmd.at \in Int
  PROVE  SumAt(F, T) \in Int
<1> DEFINE P == {S \in SUBSET T : SumAt(F, S) \in Int}
<1>1. ASSUME NEW S \in FiniteSubsetsOf(T), \A s \in SUBSET S : s # S => s \in P
      PROVE  S \in P
  <2>1. S \in SUBSET T /\ IsFiniteSet(S)
    BY DEF FiniteSubsetsOf
  <2>2. S # {} => Picked(S) \in S
    BY DEF Picked
  <2>3. S # {} => SumAt(F, S \ {Picked(S)}) \in Int
    BY <1>1, <2>2
  <2> QED
    BY <2>1, <2>2, <2>3, SumUnfolds
<1>2. T \in FiniteSubsetsOf(T)
  BY DEF FiniteSubsetsOf
<1>3. T \in P
  <2> HIDE DEF P
  <2> QED
    BY <1>1, <1>2, FiniteSubsets
<1> QED
  BY <1>3

\* Two tables that agree on some facts give the same sum of their times.
LEMMA SumAgrees ==
  ASSUME NEW F, NEW G, NEW T, IsFiniteSet(T), \A e \in T : F[e] = G[e]
  PROVE  SumAt(F, T) = SumAt(G, T)
<1> DEFINE P == {S \in SUBSET T : SumAt(F, S) = SumAt(G, S)}
<1>1. ASSUME NEW S \in FiniteSubsetsOf(T), \A s \in SUBSET S : s # S => s \in P
      PROVE  S \in P
  <2>1. S \in SUBSET T /\ IsFiniteSet(S)
    BY DEF FiniteSubsetsOf
  <2>2. S # {} => Picked(S) \in S
    BY DEF Picked
  <2>3. S # {} => SumAt(F, S \ {Picked(S)}) = SumAt(G, S \ {Picked(S)})
    BY <1>1, <2>2
  <2>4. /\ SumAt(F, S) = IF S = {} THEN 0 ELSE F[Picked(S)].cmd.at + SumAt(F, S \ {Picked(S)})
        /\ SumAt(G, S) = IF S = {} THEN 0 ELSE G[Picked(S)].cmd.at + SumAt(G, S \ {Picked(S)})
    BY <2>1, SumUnfolds
  <2>5. S # {} => F[Picked(S)] = G[Picked(S)]
    BY <2>1, <2>2
  <2>6. SumAt(F, S) = SumAt(G, S)
    BY <2>3, <2>4, <2>5
  <2> QED
    BY <2>1, <2>6
<1>2. T \in FiniteSubsetsOf(T)
  BY DEF FiniteSubsetsOf
<1>3. T \in P
  <2> HIDE DEF P
  <2> QED
    BY <1>1, <1>2, FiniteSubsets
<1> QED
  BY <1>3

\* One more fact adds its time, in whatever order the facts are chosen.
LEMMA SumGrows ==
  ASSUME NEW F, NEW T, IsFiniteSet(T), NEW S \in SUBSET T, NEW x \in T \ S,
         \A e \in T : F[e].cmd.at \in Int
  PROVE  SumAt(F, S \cup {x}) = F[x].cmd.at + SumAt(F, S)
<1> DEFINE P == {X \in SUBSET T :
                   \A y \in T \ X : SumAt(F, X \cup {y}) = F[y].cmd.at + SumAt(F, X)}
<1>1. ASSUME NEW X \in FiniteSubsetsOf(T), \A s \in SUBSET X : s # X => s \in P
      PROVE  X \in P
  <2>1. X \in SUBSET T /\ IsFiniteSet(X)
    BY DEF FiniteSubsetsOf
  <2> SUFFICES ASSUME NEW y \in T \ X
               PROVE  SumAt(F, X \cup {y}) = F[y].cmd.at + SumAt(F, X)
    BY <2>1
  <2> DEFINE z == Picked(X \cup {y})
             R == X \ {z}
  <2>2. z \in X \cup {y} /\ z \in T
    BY <2>1 DEF Picked
  <2>3. IsFiniteSet(X \cup {y})
    BY <2>1, FS_AddElement
  <2>4. SumAt(F, X \cup {y}) = F[z].cmd.at + SumAt(F, (X \cup {y}) \ {z})
    BY <2>3, SumUnfolds
  <2>5. CASE z = y
    <3>1. (X \cup {y}) \ {z} = X
      BY <2>5
    <3> QED
      BY <2>4, <2>5, <3>1
  <2>6. CASE z # y
    <3>1. z \in X /\ R \in SUBSET X /\ R # X /\ y \in T \ R /\ z \in T \ R
      BY <2>1, <2>2, <2>6
    <3>2. (X \cup {y}) \ {z} = R \cup {y} /\ R \cup {z} = X
      BY <2>6, <3>1
    <3>3. /\ SumAt(F, R \cup {y}) = F[y].cmd.at + SumAt(F, R)
          /\ SumAt(F, R \cup {z}) = F[z].cmd.at + SumAt(F, R)
      BY <1>1, <3>1
    <3>4. SumAt(F, R) \in Int
      <4>1. R \in SUBSET T /\ IsFiniteSet(R)
        BY <2>1, <3>1, FS_Subset
      <4> QED
        BY <4>1, SumIsInt
    <3>5. F[y].cmd.at \in Int /\ F[z].cmd.at \in Int
      BY <2>2
    <3> HIDE DEF z, R
    <3>6. SumAt(F, X \cup {y}) = F[z].cmd.at + (F[y].cmd.at + SumAt(F, R))
      BY <2>4, <3>2, <3>3
    <3>7. SumAt(F, X) = F[z].cmd.at + SumAt(F, R)
      BY <3>2, <3>3
    <3> QED
      BY <3>4, <3>5, <3>6, <3>7
  <2> QED
    BY <2>5, <2>6
<1>2. S \in FiniteSubsetsOf(T)
  BY FS_Subset DEF FiniteSubsetsOf
<1>3. S \in P
  <2> HIDE DEF P
  <2> QED
    BY <1>1, <1>2, FiniteSubsets
<1> QED
  BY <1>3

-----------------------------------------------------------------------------
(* The invariant. *)

LEMMA InitInv == ServerInit => Inv
<1> SUFFICES ASSUME ServerInit PROVE Inv
  OBVIOUS
<1> USE DEF ServerInit, NoRun, NoFact, NoReceipt
<1>1. Facts = {}
  BY DEF Facts
<1>2. ServerTypeOK
  BY DEF ServerTypeOK
<1>3. FactsKept /\ Numbered /\ LeftByLast /\ Chained /\ Announced
  BY <1>1 DEF FactsKept, Numbered, LeftByLast, Chained, Announced
<1>4. RunsTimed /\ OneRunEach
  BY DEF RunsTimed, OneRunEach
<1>5. Measured
  BY <1>1, FS_EmptySet DEF Measured
<1> QED
  BY <1>2, <1>3, <1>4, <1>5 DEF Inv

LEMMA FoldStatus ==
  ASSUME NEW r \in RunRecords, NEW type, NEW at
  PROVE  Fold(r, type, at).status = NextState(r.status, type)
<1> DEFINE a == IF type = "start" THEN at ELSE r.started
           b == IF type = "block" THEN at ELSE NoTime
           l == IF type = "resume" THEN r.blocked + (at - r.blockedAt) ELSE r.blocked
           c == IF type = "complete" THEN at ELSE r.completed
           s == NextState(r.status, type)
<1>1. Fold(r, type, at) = [r EXCEPT !.status = s, !.rev = r.rev + 1, !.started = a,
                                    !.blockedAt = b, !.blocked = l, !.completed = c]
  BY Zenon DEF Fold
<1> HIDE DEF a, b, l, c, s
<1>2. Fold(r, type, at).status = s
  BY <1>1 DEF RunRecords
<1> QED
  BY <1>2 DEF s

\* What folding an event does to each column of a run.
LEMMA FoldColumns ==
  ASSUME NEW r \in RunRecords, NEW type \in Types, NEW at \in Times, NEW last,
         CanFold(r, type, at, last),
         r.status = "blocked" => r.blockedAt \in Times /\ r.blockedAt <= at
  PROVE  LET after == Fold(r, type, at)
         IN /\ after \in RunRecords
            /\ after.item = r.item /\ after.rev = r.rev + 1
            /\ after.status = NextState(r.status, type)
            /\ after.started = IF type = "start" THEN at ELSE r.started
            /\ after.completed = IF type = "complete" THEN at ELSE r.completed
            /\ after.blockedAt = IF type = "block" THEN at ELSE NoTime
            /\ after.blocked = IF type = "resume" THEN r.blocked + (at - r.blockedAt) ELSE r.blocked
            /\ r.status \in Active
            /\ type = "start" <=> r.status = "scheduled"
            /\ type = "resume" <=> r.status = "blocked"
            /\ type = "complete" <=> after.status = "completed"
            /\ type = "block" <=> after.status = "blocked"
            /\ after.status # "scheduled"
<1> DEFINE after == Fold(r, type, at)
<1> USE TimesAssumption DEF NoTime, MaybeTimes
<1>1. /\ r.status \in States /\ NextState(r.status, type) # "none"
      /\ type \in Types
  BY DEF CanFold, RunRecords
<1>2. /\ NextState(r.status, type) \in {"shooting", "blocked", "completed"}
      /\ r.status \in Active
      /\ type = "start" <=> r.status = "scheduled"
      /\ type = "resume" <=> r.status = "blocked"
      /\ type = "complete" <=> NextState(r.status, type) = "completed"
      /\ type = "block" <=> NextState(r.status, type) = "blocked"
  BY <1>1 DEF NextState, States, Active, Types
<1>3. type = "resume" => r.blocked + (at - r.blockedAt) \in Nat
  <2>1. at \in Nat /\ r.blocked \in Nat
    BY DEF RunRecords
  <2>2. type = "resume" => r.blockedAt \in Nat /\ r.blockedAt <= at
    BY <1>2
  <2> QED
    BY <2>1, <2>2
<1> DEFINE a == IF type = "start" THEN at ELSE r.started
           b == IF type = "block" THEN at ELSE NoTime
           l == IF type = "resume" THEN r.blocked + (at - r.blockedAt) ELSE r.blocked
           c == IF type = "complete" THEN at ELSE r.completed
<1>4. after = [r EXCEPT !.status = NextState(r.status, type), !.rev = r.rev + 1,
                        !.started = a, !.blockedAt = b, !.blocked = l, !.completed = c]
  BY Zenon DEF Fold
<1>5. /\ NextState(r.status, type) \in States
      /\ r.rev + 1 \in Nat
      /\ a \in MaybeTimes /\ b \in MaybeTimes /\ l \in Nat /\ c \in MaybeTimes
  BY <1>2, <1>3 DEF RunRecords, States, Active
<1>6. /\ after \in RunRecords
      /\ after.item = r.item /\ after.status = NextState(r.status, type)
      /\ after.rev = r.rev + 1 /\ after.started = a /\ after.blockedAt = b
      /\ after.blocked = l /\ after.completed = c
  <2> HIDE DEF a, b, l, c, after
  <2> QED
    BY <1>4, <1>5 DEF RunRecords
<1> QED
  BY <1>2, <1>6

LEMMA Blanks ==
  /\ NoRun \notin RunRecords
  /\ NoFact \notin FactRecords
  /\ NoReceipt \notin ReceiptRecords
  /\ \A e \in Events : e \in Facts <=> fact[e] # NoFact
  /\ Facts \subseteq Events
<1>1. NoRun \notin RunRecords
  BY DEF NoRun, RunRecords, States, Active
<1>2. NoFact \notin FactRecords
  BY DEF NoFact, FactRecords, States, Active
<1>3. NoReceipt \notin ReceiptRecords
  BY DEF NoReceipt, ReceiptRecords
<1> QED
  BY <1>1, <1>2, <1>3 DEF Facts

LEMMA CommandFields ==
  ASSUME NEW cmd \in Commands
  PROVE  /\ cmd.event \in Events /\ cmd.run \in Runs /\ cmd.item \in Items
         /\ cmd.type \in Types /\ cmd.at \in Times /\ cmd.at \in Nat /\ cmd.at # NoTime
<1>1. /\ cmd.event \in Events /\ cmd.run \in Runs /\ cmd.item \in Items
      /\ cmd.type \in Types /\ cmd.at \in Times
  BY DEF Commands
<1>2. cmd.at \in Nat
  BY <1>1, TimesAssumption
<1>3. cmd.at # NoTime
  BY <1>2 DEF NoTime
<1> QED
  BY <1>1, <1>2, <1>3

\* A command that may be applied is folded into the run as its last fact left it, or begins
\* the first run of its item.
LEMMA Foldable ==
  ASSUME Inv, NEW cmd \in Commands, ~ Known(cmd), Admissible(cmd), Applicable(cmd)
  PROVE  /\ cmd.event \notin Facts
         /\ Current(cmd) \in RunRecords
         /\ Current(cmd).item = cmd.item
         /\ cmd.item \notin cancelled
         /\ Current(cmd).status = "blocked" =>
              Current(cmd).blockedAt \in Times /\ Current(cmd).blockedAt <= cmd.at
         /\ \/ /\ run[cmd.run] # NoRun
               /\ Current(cmd) = run[cmd.run]
               /\ \E f \in Facts :
                    /\ fact[f].cmd.run = cmd.run
                    /\ fact[f].rev = Current(cmd).rev
                    /\ Response(f) = Current(cmd)
                    /\ CanFold(Current(cmd), cmd.type, cmd.at, fact[f].cmd.at)
            \/ /\ run[cmd.run] = NoRun
               /\ RunsOf(cmd.item) = {}
               /\ Current(cmd) = Scheduled(cmd.item)
               /\ CanFold(Current(cmd), cmd.type, cmd.at, NoTime)
<1> DEFINE r == cmd.run
<1>1. /\ cmd.event \in Events /\ r \in Runs /\ cmd.item \in Items /\ cmd.type \in Types
      /\ cmd.at \in Times /\ cmd.at \in Nat /\ cmd.at # NoTime
  BY CommandFields
<1>2. cmd.event \notin Facts
  BY <1>1, Blanks DEF Inv, FactsKept, Known, NoReceipt
<1>3. cmd.item \notin cancelled
  BY DEF Admissible
<1>4. run[r] \in RunRecords \cup {NoRun}
  BY <1>1 DEF Inv, ServerTypeOK
<1>5. \/ ActiveRuns(cmd.item) = {r}
      \/ RunsOf(cmd.item) = {} /\ run[r] = NoRun
  BY DEF Admissible, Addressable
<1>6. CanFold(Current(cmd), cmd.type, cmd.at, LastOccurredAt(cmd))
  BY DEF Applicable
<1>7. CASE ActiveRuns(cmd.item) = {r}
  <2>1. /\ run[r] # NoRun /\ run[r].item = cmd.item
        /\ Current(cmd) = run[r]
    BY <1>7 DEF ActiveRuns, RunsOf, Current, Existing
  <2>2. run[r] \in RunRecords /\ run[r].rev \in Nat /\ run[r].rev >= 1
    BY <1>1, <1>4, <2>1 DEF Inv, Numbered, RunRecords
  <2>3. PICK f \in Facts : fact[f].cmd.run = r /\ fact[f].rev = run[r].rev
    <3>1. run[r].rev \in 1 .. run[r].rev
      BY <2>2
    <3> QED
      BY <1>1, <2>1, <3>1 DEF Inv, Numbered
  <2>4. \A e \in Facts : fact[e].cmd.run = r /\ fact[e].rev = run[r].rev => e = f
    BY <2>3 DEF Inv, Numbered
  <2>5. LastOccurredAt(cmd) = fact[f].cmd.at
    BY <2>3, <2>4 DEF LastOccurredAt
  <2>6. Response(f) = run[r]
    BY <2>3 DEF Inv, LeftByLast
  <2>7. fact[f].cmd \in Commands /\ fact[f].cmd.at \in Times
    BY <2>3, Blanks DEF Inv, ServerTypeOK, FactRecords, Commands
  <2>8. fact[f].cmd.at <= cmd.at
    BY <1>6, <2>5, <2>7, TimesAssumption DEF CanFold, NoTime
  <2>9. run[r].status = "blocked" => run[r].blockedAt = fact[f].cmd.at
    BY <1>1, <2>1, <2>3 DEF Inv, RunsTimed
  <2> QED
    BY <1>2, <1>3, <1>6, <2>1, <2>2, <2>3, <2>5, <2>6, <2>7, <2>8, <2>9
<1>8. CASE RunsOf(cmd.item) = {} /\ run[r] = NoRun
  <2>1. Current(cmd) = Scheduled(cmd.item)
    BY <1>8 DEF Current, Existing, ActiveRuns
  <2>2. ~ \E e \in Facts : fact[e].cmd.run = cmd.run
    BY <1>8 DEF Inv, Numbered
  <2>3. LastOccurredAt(cmd) = NoTime
    BY <2>2 DEF LastOccurredAt
  <2>4. Scheduled(cmd.item) \in RunRecords
    BY <1>1 DEF Scheduled, RunRecords, States, Active, MaybeTimes
  <2> QED
    BY <1>2, <1>3, <1>6, <1>8, <2>1, <2>3, <2>4 DEF Scheduled
<1> QED
  BY <1>5, <1>7, <1>8

\* An event applied: the invariant survives it.
LEMMA ApplyInv ==
  ASSUME Inv, NEW cmd \in Commands, NEW announced, Apply(cmd, announced)
  PROVE  Inv'
<1> DEFINE e0 == cmd.event
           r0 == cmd.run
           before == Current(cmd)
           after == Fold(before, cmd.type, cmd.at)
           new == [cmd |-> cmd, previous |-> before.status, result |-> after.status,
                   rev |-> after.rev, projection |-> projection + 1]
           kept == [kind |-> "accepted", cmd |-> cmd, response |-> after]
<1>1. /\ e0 \in Events /\ r0 \in Runs /\ cmd.item \in Items /\ cmd.type \in Types
      /\ cmd.at \in Times /\ cmd.at \in Nat /\ cmd.at # NoTime
  BY CommandFields
<1>2. ~ Known(cmd) /\ Admissible(cmd) /\ Applicable(cmd)
  BY DEF Apply
<1>3. PICK last : CanFold(before, cmd.type, cmd.at, last)
  BY <1>2, Foldable
<1>4. /\ e0 \notin Facts
      /\ before \in RunRecords /\ before.item = cmd.item /\ cmd.item \notin cancelled
  BY <1>2, Foldable
<1>5. /\ after \in RunRecords
      /\ after.item = cmd.item /\ after.rev = before.rev + 1
      /\ after.status = NextState(before.status, cmd.type)
      /\ after.started = IF cmd.type = "start" THEN cmd.at ELSE before.started
      /\ after.completed = IF cmd.type = "complete" THEN cmd.at ELSE before.completed
      /\ after.blockedAt = IF cmd.type = "block" THEN cmd.at ELSE NoTime
      /\ before.status \in Active
      /\ after.blocked = IF cmd.type = "resume" THEN before.blocked + (cmd.at - before.blockedAt)
                         ELSE before.blocked
      /\ cmd.type = "start" <=> before.status = "scheduled"
      /\ cmd.type = "resume" <=> before.status = "blocked"
      /\ cmd.type = "complete" <=> after.status = "completed"
      /\ cmd.type = "block" <=> after.status = "blocked"
      /\ after.status # "scheduled"
  BY <1>1, <1>2, <1>3, <1>4, Foldable, FoldColumns
<1>6. /\ after.status \in States /\ after.rev \in Nat /\ before.status \in States
      /\ before.rev \in Nat
  BY <1>4, <1>5 DEF RunRecords
<1>7. ServerTypeOK
  BY DEF Inv
<1>8. new \in FactRecords /\ kept \in ReceiptRecords
  BY <1>1, <1>5, <1>6, <1>7 DEF FactRecords, ReceiptRecords, ServerTypeOK
<1>9. /\ \A e \in Events : fact'[e] = IF e = e0 THEN new ELSE fact[e]
      /\ \A e \in Events : receipt'[e] = IF e = e0 THEN kept ELSE receipt[e]
      /\ \A r \in Runs : run'[r] = IF r = r0 THEN after ELSE run[r]
      /\ projection' = projection + 1 /\ cancelled' = cancelled
      /\ request' = IF Fulfils(cmd) THEN [request EXCEPT ![cmd.item] = "fulfilled"] ELSE request
      /\ notices' \subseteq notices \cup (IF cmd.type = "complete" THEN {e0} ELSE {})
  BY <1>1, <1>7 DEF Apply, ServerTypeOK
<1>10. ServerTypeOK'
  <2>1. /\ run' = [run EXCEPT ![r0] = after]
        /\ fact' = [fact EXCEPT ![e0] = new]
        /\ receipt' = [receipt EXCEPT ![e0] = kept]
    BY DEF Apply
  <2> HIDE DEF after, new, kept, before
  <2>2. /\ run' \in [Runs -> RunRecords \cup {NoRun}]
        /\ fact' \in [Events -> FactRecords \cup {NoFact}]
        /\ receipt' \in [Events -> ReceiptRecords \cup {NoReceipt}]
    BY <1>1, <1>5, <1>7, <1>8, <2>1 DEF ServerTypeOK
  <2>3. request' \in [TaskItems -> {"open", "fulfilled", "cancelled"}]
    BY <1>7, <1>9 DEF ServerTypeOK, Fulfils
  <2> QED
    BY <1>1, <1>7, <1>9, <2>2, <2>3 DEF ServerTypeOK
<1>11. /\ \A e : e \in Facts' <=> e \in Facts \cup {e0}
       /\ \A e \in Facts : e \in Events /\ e # e0
  BY <1>1, <1>4, <1>8, <1>9, Blanks DEF Facts
<1>12. /\ new.cmd = cmd /\ new.previous = before.status /\ new.result = after.status
       /\ new.rev = after.rev /\ new.projection = projection + 1
       /\ kept.kind = "accepted" /\ kept.response = after
  OBVIOUS
\* What the run was before, whether it is stored or begins now.
<1>13. /\ \A e \in Facts : fact[e].cmd.run = r0 => fact[e].rev \in 1 .. before.rev
       /\ \A k \in 1 .. before.rev : \E e \in Facts : fact[e].cmd.run = r0 /\ fact[e].rev = k
       /\ \A e \in Facts : fact[e].cmd.run = r0 =>
            /\ fact[e].cmd.item = cmd.item
            /\ fact[e].rev = before.rev =>
                 Response(e) = before /\ CanFold(before, cmd.type, cmd.at, fact[e].cmd.at)
       /\ before.rev = 0 =>
            before = Scheduled(cmd.item) /\ CanFold(before, cmd.type, cmd.at, NoTime)
       /\ before.rev > 0 => run[r0] # NoRun
       /\ run[r0] # NoRun => before = run[r0] /\ before.rev > 0
       /\ run[r0] = NoRun => RunsOf(cmd.item) = {} /\ before = Scheduled(cmd.item)
  <2>1. CASE run[r0] # NoRun
    <3>1. before = run[r0] /\ run[r0] \in RunRecords
      BY <1>2, <1>4, <2>1, Foldable
    <3>2. PICK f \in Facts : /\ fact[f].cmd.run = r0 /\ fact[f].rev = before.rev
                             /\ Response(f) = before
                             /\ CanFold(before, cmd.type, cmd.at, fact[f].cmd.at)
      BY <1>2, <2>1, Foldable
    <3>3. \A e \in Facts : fact[e].cmd.run = r0 /\ fact[e].rev = before.rev => e = f
      BY <3>2 DEF Inv, Numbered
    <3>4. /\ \A e \in Facts : fact[e].cmd.run = r0 => fact[e].rev \in 1 .. before.rev
          /\ \A k \in 1 .. before.rev :
               \E e \in Facts : fact[e].cmd.run = r0 /\ fact[e].rev = k
          /\ before.rev > 0
      <4> HIDE DEF before
      <4> QED
        BY <1>1, <1>6, <2>1, <3>1 DEF Inv, Numbered
    <3>5. \A e \in Facts : fact[e].cmd.run = r0 => fact[e].cmd.item = cmd.item
      <4> HIDE DEF before
      <4> QED
        BY <1>4, <3>1 DEF Inv, LeftByLast
    <3> HIDE DEF before
    <3> QED
      BY <1>6, <2>1, <3>1, <3>2, <3>3, <3>4, <3>5
  <2>2. CASE run[r0] = NoRun
    <3>1. /\ before = Scheduled(cmd.item) /\ CanFold(before, cmd.type, cmd.at, NoTime)
          /\ RunsOf(cmd.item) = {}
      BY <1>2, <2>2, Foldable
    <3>2. before.rev = 0
      BY <3>1 DEF Scheduled
    <3>3. \A e \in Facts : fact[e].cmd.run # r0
      BY <2>2 DEF Inv, Numbered
    <3> HIDE DEF before
    <3> QED
      BY <2>2, <3>1, <3>2, <3>3
  <2> QED
    BY <2>1, <2>2
<1>14. Response(e0)' = after /\ \A e \in Facts : Response(e)' = Response(e)
  BY <1>1, <1>9, <1>11, <1>12 DEF Response
<1> HIDE DEF before, after, new, kept
<1>15. FactsKept'
  <2>1. \A e \in Facts : fact[e].projection \in Nat
    BY <1>7, Blanks DEF ServerTypeOK, FactRecords
  <2>2. projection \in Nat
    BY <1>7 DEF ServerTypeOK
  <2>3. \A e \in Events : receipt'[e].kind = "accepted" => e \in Facts'
    BY <1>9, <1>11 DEF Inv, FactsKept
  <2>4. ASSUME NEW e \in Facts'
        PROVE  /\ receipt'[e].kind = "accepted"
               /\ (Response(e).rev = fact[e].rev)'
               /\ (Response(e).status = fact[e].result)'
               /\ fact'[e].projection <= projection'
    <3>1. CASE e = e0
      BY <1>1, <1>9, <1>12, <1>14, <2>2, <3>1
    <3>2. CASE e \in Facts
      BY <1>9, <1>11, <1>14, <2>1, <2>2, <3>2 DEF Inv, FactsKept
    <3> QED
      BY <1>11, <3>1, <3>2
  <2> QED
    BY <2>3, <2>4 DEF FactsKept
<1>16. Numbered'
  <2>1. \A e \in Facts : fact'[e] = fact[e]
    BY <1>9, <1>11
  <2>2. fact'[e0] = new /\ run'[r0] = after /\ after # NoRun
    BY <1>1, <1>5, <1>9, Blanks
  <2>3. ASSUME NEW e \in Facts'
        PROVE  /\ run'[fact'[e].cmd.run] # NoRun
               /\ fact'[e].rev \in 1 .. run'[fact'[e].cmd.run].rev
    <3>1. CASE e = e0
      BY <1>5, <1>6, <1>12, <2>2, <3>1
    <3>2. CASE e \in Facts /\ fact[e].cmd.run = r0
      BY <1>5, <1>6, <1>13, <2>1, <2>2, <3>2
    <3>3. CASE e \in Facts /\ fact[e].cmd.run # r0
      <4>1. fact[e].cmd.run \in Runs
        BY <3>3, <1>7, Blanks, CommandFields DEF ServerTypeOK, FactRecords
      <4> QED
        BY <1>9, <2>1, <3>3, <4>1 DEF Inv, Numbered
    <3> QED
      BY <1>11, <3>1, <3>2, <3>3
  <2>4. ASSUME NEW e \in Facts', NEW f \in Facts', fact'[e].cmd.run = fact'[f].cmd.run,
               fact'[e].rev = fact'[f].rev
        PROVE  e = f
    <3>1. CASE e \in Facts /\ f \in Facts
      BY <2>1, <2>4, <3>1 DEF Inv, Numbered
    <3>2. \A x \in Facts : fact[x].cmd.run = r0 => fact[x].rev < after.rev
      BY <1>5, <1>6, <1>13
    <3>3. CASE e = e0 /\ f \in Facts
      BY <1>6, <1>12, <2>1, <2>2, <2>4, <3>2, <3>3
    <3>4. CASE e \in Facts /\ f = e0
      BY <1>6, <1>12, <2>1, <2>2, <2>4, <3>2, <3>4
    <3> QED
      BY <1>11, <3>1, <3>3, <3>4
  <2>5. ASSUME NEW r \in Runs, run'[r] # NoRun
        PROVE  /\ run'[r].rev >= 1
               /\ \A k \in 1 .. run'[r].rev :
                    \E e \in Facts' : fact'[e].cmd.run = r /\ fact'[e].rev = k
    <3>1. CASE r = r0
      <4>1. after.rev >= 1
        BY <1>5, <1>6
      <4>2. ASSUME NEW k \in 1 .. after.rev
            PROVE  \E e \in Facts' : fact'[e].cmd.run = r0 /\ fact'[e].rev = k
        <5>1. CASE k = after.rev
          BY <1>11, <1>12, <2>2, <5>1
        <5>2. CASE k # after.rev
          <6>1. k \in 1 .. before.rev
            BY <1>5, <1>6, <5>2
          <6> QED
            BY <1>11, <1>13, <2>1, <6>1
        <5> QED
          BY <5>1, <5>2
      <4> QED
        BY <2>2, <3>1, <4>1, <4>2
    <3>2. CASE r # r0
      <4>1. run'[r] = run[r]
        BY <1>9, <3>2
      <4> QED
        BY <1>11, <2>1, <2>5, <4>1 DEF Inv, Numbered
    <3> QED
      BY <3>1, <3>2
  <2> QED
    BY <2>3, <2>4, <2>5 DEF Numbered
<1>17. /\ \A e \in Facts : fact'[e] = fact[e]
       /\ fact'[e0] = new /\ run'[r0] = after
       /\ \A e \in Facts : fact[e].cmd \in Commands /\ fact[e].cmd.run \in Runs
       /\ \A e \in Facts : fact[e].rev \in Nat /\ fact[e].projection \in Nat
  BY <1>1, <1>7, <1>9, <1>11, Blanks, CommandFields DEF ServerTypeOK, FactRecords
<1>18. LeftByLast'
  <2> SUFFICES ASSUME NEW e \in Facts'
               PROVE  /\ run'[fact'[e].cmd.run].item = fact'[e].cmd.item
                      /\ fact'[e].rev = run'[fact'[e].cmd.run].rev
                           => Response(e)' = run'[fact'[e].cmd.run]
    BY DEF LeftByLast, Response
  <2>1. CASE e = e0
    BY <1>5, <1>12, <1>14, <1>17, <2>1
  <2>2. CASE e \in Facts /\ fact[e].cmd.run = r0
    BY <1>5, <1>6, <1>13, <1>17, <2>2
  <2>3. CASE e \in Facts /\ fact[e].cmd.run # r0
    BY <1>9, <1>14, <1>17, <2>3 DEF Inv, LeftByLast
  <2> QED
    BY <1>11, <2>1, <2>2, <2>3
<1>19. Chained'
  <2> SUFFICES ASSUME NEW e \in Facts'
               PROVE  /\ fact'[e].rev = 1 => FoldedInto(e, Scheduled(fact[e].cmd.item), NoTime)'
                      /\ \A f \in Facts' :
                           fact'[f].cmd.run = fact'[e].cmd.run /\ fact'[e].rev = fact'[f].rev + 1
                             => /\ FoldedInto(e, Response(f), fact[f].cmd.at)'
                                /\ fact'[f].projection < fact'[e].projection
    BY DEF Chained
  <2>1. CASE e = e0
    <3>1. ASSUME NEW b, NEW l, before = b, CanFold(before, cmd.type, cmd.at, l)
          PROVE  /\ fact'[e].previous = b.status
                 /\ CanFold(b, fact'[e].cmd.type, fact'[e].cmd.at, l)
                 /\ Response(e)' = Fold(b, fact'[e].cmd.type, fact'[e].cmd.at)
      BY <1>12, <1>14, <1>17, <2>1, <3>1 DEF after
    <3>2. fact'[e].rev = 1 => FoldedInto(e, Scheduled(fact[e].cmd.item), NoTime)'
      <4> SUFFICES ASSUME fact'[e].rev = 1
                   PROVE  FoldedInto(e, Scheduled(fact[e].cmd.item), NoTime)'
        OBVIOUS
      <4>1. before = Scheduled(cmd.item) /\ CanFold(before, cmd.type, cmd.at, NoTime)
        BY <1>5, <1>6, <1>12, <1>13, <1>17, <2>1
      <4> QED
        BY <1>12, <1>17, <2>1, <3>1, <4>1, Zenon DEF FoldedInto
    <3>3. ASSUME NEW f \in Facts', fact'[f].cmd.run = fact'[e].cmd.run,
                 fact'[e].rev = fact'[f].rev + 1
          PROVE  /\ FoldedInto(e, Response(f), fact[f].cmd.at)'
                 /\ fact'[f].projection < fact'[e].projection
      <4>1. f \in Facts
        BY <1>6, <1>11, <1>12, <1>17, <2>1, <3>3
      <4>2. /\ fact[f].cmd.run = r0 /\ fact[f].rev = before.rev /\ fact'[f] = fact[f]
            /\ fact'[e] = new
        BY <1>5, <1>6, <1>12, <1>17, <2>1, <3>3, <4>1
      <4>3. Response(f)' = before /\ CanFold(before, cmd.type, cmd.at, fact'[f].cmd.at)
        BY <1>13, <1>14, <4>1, <4>2
      <4>4. FoldedInto(e, Response(f), fact[f].cmd.at)'
        BY <3>1, <4>3, Zenon DEF FoldedInto
      <4>5. fact[f].projection <= projection
        BY <4>1 DEF Inv, FactsKept
      <4> QED
        BY <1>7, <1>12, <1>17, <4>1, <4>2, <4>4, <4>5 DEF ServerTypeOK
    <3> QED
      BY <3>2, <3>3
  <2>2. CASE e \in Facts
    <3>1. ASSUME NEW b, NEW l, FoldedInto(e, b, l)
          PROVE  /\ fact'[e].previous = b.status
                 /\ CanFold(b, fact'[e].cmd.type, fact'[e].cmd.at, l)
                 /\ Response(e)' = Fold(b, fact'[e].cmd.type, fact'[e].cmd.at)
      BY <1>14, <1>17, <2>2, <3>1 DEF FoldedInto
    <3>2. fact'[e].rev = 1 => FoldedInto(e, Scheduled(fact[e].cmd.item), NoTime)'
      <4> SUFFICES ASSUME fact'[e].rev = 1
                   PROVE  FoldedInto(e, Scheduled(fact[e].cmd.item), NoTime)'
        OBVIOUS
      <4>1. FoldedInto(e, Scheduled(fact'[e].cmd.item), NoTime)
        BY <1>17, <2>2 DEF Inv, Chained
      <4> QED
        BY <3>1, <4>1, Zenon DEF FoldedInto
    <3>3. ASSUME NEW f \in Facts', fact'[f].cmd.run = fact'[e].cmd.run,
                 fact'[e].rev = fact'[f].rev + 1
          PROVE  /\ FoldedInto(e, Response(f), fact[f].cmd.at)'
                 /\ fact'[f].projection < fact'[e].projection
      <4>1. f \in Facts
        <5>1. CASE f = e0
          <6>1. fact[e].cmd.run = r0 /\ fact[e].rev = after.rev + 1
            BY <1>12, <1>17, <2>2, <3>3, <5>1
          <6> QED
            BY <1>5, <1>6, <1>13, <2>2, <6>1
        <5> QED
          BY <1>11, <5>1
      <4>2. /\ FoldedInto(e, Response(f), fact[f].cmd.at)
            /\ fact[f].projection < fact[e].projection
        BY <1>17, <2>2, <3>3, <4>1 DEF Inv, Chained
      <4>3. FoldedInto(e, Response(f)', fact'[f].cmd.at)
        BY <1>14, <1>17, <4>1, <4>2
      <4> QED
        BY <1>17, <2>2, <3>1, <4>1, <4>2, <4>3, Zenon DEF FoldedInto
    <3> QED
      BY <3>2, <3>3
  <2> QED
    BY <1>11, <2>1, <2>2
<1>20. RunsTimed'
  <2> SUFFICES ASSUME NEW r \in Runs, run'[r] # NoRun
               PROVE  /\ run'[r].status # "scheduled"
                      /\ run'[r].started # NoTime
                      /\ run'[r].status = "completed" <=> run'[r].completed # NoTime
                      /\ run'[r].status = "blocked" =>
                           \A e \in Facts' : fact'[e].cmd.run = r /\ fact'[e].rev = run'[r].rev
                                               => run'[r].blockedAt = fact'[e].cmd.at
    BY DEF RunsTimed
  <2>1. CASE r = r0
    <3>1. \A e \in Facts' : fact'[e].cmd.run = r /\ fact'[e].rev = run'[r].rev => e = e0
      BY <1>5, <1>6, <1>11, <1>13, <1>17, <2>1
    <3>2. before.status # "scheduled" => before.started # NoTime
      BY <1>1, <1>13 DEF Inv, RunsTimed, Scheduled
    <3>3. before.completed = NoTime
      <4>1. before.status # "completed"
        BY <1>5 DEF Active
      <4> QED
        BY <1>1, <1>13, <4>1 DEF Inv, RunsTimed, Scheduled
    <3> QED
      BY <1>1, <1>5, <1>12, <1>17, <2>1, <3>1, <3>2, <3>3
  <2>2. CASE r # r0
    <3>1. run'[r] = run[r]
      BY <1>9, <2>2
    <3>2. \A e \in Facts' : fact'[e].cmd.run = r => e \in Facts /\ fact'[e] = fact[e]
      BY <1>11, <1>12, <1>17, <2>2
    <3> QED
      BY <3>1, <3>2 DEF Inv, RunsTimed
  <2> QED
    BY <2>1, <2>2
<1>21. OneRunEach'
  <2>1. \A r, q \in Runs : run'[r] # NoRun /\ run'[q] # NoRun /\ run'[r].item = run'[q].item => r = q
    <3>1. \A r \in Runs : run[r] # NoRun /\ run[r].item = cmd.item => r = r0
      <4>1. CASE run[r0] # NoRun
        BY <1>1, <1>4, <1>13, <4>1 DEF Inv, OneRunEach
      <4>2. CASE run[r0] = NoRun
        BY <1>13, <4>2 DEF RunsOf
      <4> QED
        BY <4>1, <4>2
    <3>2. \A r \in Runs \ {r0} : run'[r] = run[r]
      BY <1>9
    <3> QED
      BY <1>5, <1>17, <3>1, <3>2 DEF Inv, OneRunEach
  <2>2. ASSUME NEW i \in TaskItems
        PROVE  /\ request'[i] = "fulfilled" <=> \E r \in Runs : /\ run'[r] # NoRun /\ run'[r].item = i
                                                                /\ run'[r].status = "completed"
               /\ i \in cancelled' => request'[i] = "cancelled"
    <3>1. \A r \in Runs : run[r] # NoRun /\ run[r].status = "completed" => r # r0
      BY <1>5, <1>13 DEF Active
    <3>2. run'[r0] # NoRun /\ run'[r0].item = cmd.item
      BY <1>5, <1>17, Blanks
    <3>3. CASE Fulfils(cmd) /\ i = cmd.item
      <4>1. request'[i] = "fulfilled" /\ run'[r0].status = "completed"
        BY <1>5, <1>7, <1>9, <1>17, <3>3 DEF Fulfils, ServerTypeOK
      <4> QED
        BY <1>1, <1>4, <1>9, <3>2, <3>3, <4>1
    <3>4. CASE ~ (Fulfils(cmd) /\ i = cmd.item)
      <4>1. request'[i] = request[i]
        BY <1>7, <1>9, <3>4 DEF ServerTypeOK
      <4>2. run'[r0].item = i => run'[r0].status # "completed"
        BY <1>5, <1>17, <3>2, <3>4 DEF Fulfils
      <4> QED
        BY <1>1, <1>9, <3>1, <4>1, <4>2 DEF Inv, OneRunEach
    <3> QED
      BY <3>3, <3>4
  <2>3. \A r \in Runs : run'[r] # NoRun => run'[r].item \notin cancelled'
    BY <1>4, <1>5, <1>9 DEF Inv, OneRunEach
  <2> QED
    BY <2>1, <2>2, <2>3 DEF OneRunEach
<1>22. Announced'
  BY <1>5, <1>9, <1>11, <1>12, <1>17 DEF Inv, Announced
<1>23. /\ IsFiniteSet(Facts) /\ IsFiniteSet(Facts')
       /\ \A e \in Facts : fact[e].cmd.at \in Nat
       /\ \A r \in Runs, type \in Types : IsFiniteSet(OfType(r, type))
  <2>1. IsFiniteSet(Facts)
    BY DEF Inv, Measured
  <2>2. Facts' = Facts \cup {e0}
    BY <1>11
  <2>3. \A r \in Runs, type \in Types : OfType(r, type) \in SUBSET Facts
    BY DEF OfType
  <2> QED
    BY <1>17, <2>1, <2>2, <2>3, FS_AddElement, FS_Subset, CommandFields
<1>24. ASSUME NEW r \in Runs, NEW type \in Types
       PROVE  /\ OfType(r, type)' = OfType(r, type) \cup (IF r = r0 /\ type = cmd.type THEN {e0} ELSE {})
              /\ SumAt(fact', OfType(r, type)') =
                   SumAt(fact, OfType(r, type)) + (IF r = r0 /\ type = cmd.type THEN cmd.at ELSE 0)
              /\ SumAt(fact, OfType(r, type)) \in Int
  <2> DEFINE S == OfType(r, type)
  <2>1. OfType(r, type)' = S \cup (IF r = r0 /\ type = cmd.type THEN {e0} ELSE {})
    BY <1>11, <1>12, <1>17 DEF OfType
  <2>2. IsFiniteSet(S) /\ S \in SUBSET Facts
    BY <1>23 DEF OfType
  <2>3. SumAt(fact', S) = SumAt(fact, S)
    <3> HIDE DEF S
    <3> QED
      BY <1>17, <2>2, SumAgrees
  <2>4. SumAt(fact, S) \in Int
    <3> HIDE DEF S
    <3>1. \A e \in S : fact[e].cmd.at \in Int
      BY <1>23, <2>2
    <3> QED
      BY <2>2, <3>1, SumIsInt
  <2>5. SumAt(fact', S \cup {e0}) = cmd.at + SumAt(fact', S)
    <3>1. \A e \in Facts' : fact'[e].cmd.at \in Int
      BY <1>1, <1>11, <1>12, <1>17, <1>23
    <3>2. fact'[e0].cmd.at = cmd.at /\ S \in SUBSET Facts' /\ e0 \in Facts' \ S
      BY <1>11, <1>12, <1>17, <2>2
    <3> HIDE DEF S
    <3> QED
      BY <1>23, <3>1, <3>2, SumGrows
  <2> HIDE DEF S
  <2>6. CASE r = r0 /\ type = cmd.type
    BY <1>1, <2>1, <2>3, <2>4, <2>5, <2>6 DEF S
  <2>7. CASE ~ (r = r0 /\ type = cmd.type)
    <3>1. OfType(r, type)' = S
      BY <2>1, <2>7
    <3> QED
      BY <2>3, <2>4, <2>7, <3>1 DEF S
  <2> QED
    BY <2>6, <2>7
<1>25. Measured'
  <2> SUFFICES ASSUME NEW r \in Runs, run'[r] # NoRun
               PROVE  /\ run'[r].blocked =
                           SumAt(fact', OfType(r, "resume")') - SumAt(fact', OfType(r, "block")')
                             + IF run'[r].status = "blocked" THEN run'[r].blockedAt ELSE 0
                      /\ run'[r].status = "completed" =>
                           run'[r].started + run'[r].blocked <= run'[r].completed
                      /\ run'[r].status # "completed" =>
                           \A e \in Facts' : fact'[e].cmd.run = r /\ fact'[e].rev = run'[r].rev
                             => run'[r].started + run'[r].blocked <= fact'[e].cmd.at
    BY <1>23 DEF Measured
  <2> DEFINE resumed == SumAt(fact, OfType(r, "resume"))
             begun == SumAt(fact, OfType(r, "block"))
  <2>1. resumed \in Int /\ begun \in Int
    BY <1>24 DEF Types
  <2>2. CASE r # r0
    <3>1. run'[r] = run[r]
      BY <1>9, <2>2
    <3>2. \A e \in Facts' : fact'[e].cmd.run = r => e \in Facts /\ fact'[e] = fact[e]
      BY <1>11, <1>12, <1>17, <2>2
    <3>3. /\ SumAt(fact', OfType(r, "resume")') = resumed + 0
          /\ SumAt(fact', OfType(r, "block")') = begun + 0
      BY <1>24, <2>2 DEF Types
    <3> HIDE DEF resumed, begun
    <3> QED
      BY <2>1, <3>1, <3>2, <3>3 DEF Inv, Measured, resumed, begun
  <2>3. CASE r = r0
    <3>1. /\ SumAt(fact', OfType(r, "resume")') = resumed + (IF cmd.type = "resume" THEN cmd.at ELSE 0)
          /\ SumAt(fact', OfType(r, "block")') = begun + (IF cmd.type = "block" THEN cmd.at ELSE 0)
      BY <1>24, <2>3 DEF Types
    <3>2. \A e \in Facts' : fact'[e].cmd.run = r /\ fact'[e].rev = run'[r].rev => e = e0
      BY <1>5, <1>6, <1>11, <1>13, <1>17, <2>3
    <3>3. /\ before.blocked = resumed - begun
                               + IF before.status = "blocked" THEN before.blockedAt ELSE 0
          /\ before.blocked \in Nat
          /\ before.status # "scheduled" =>
               /\ before.started \in Nat /\ before.started + before.blocked <= cmd.at
          /\ before.status = "scheduled" => before.blocked = 0
          /\ before.status = "blocked" =>
               /\ before.blockedAt \in Nat
               /\ before.started + before.blocked <= before.blockedAt
      <4>1. before.blocked \in Nat
        BY <1>4 DEF RunRecords
      <4>2. CASE run[r0] # NoRun
        <5>1. before = run[r0] /\ before.rev > 0 /\ before.rev \in 1 .. before.rev
          BY <1>6, <1>13, <4>2
        <5>2. PICK f \in Facts : fact[f].cmd.run = r0 /\ fact[f].rev = before.rev
          BY <1>13, <5>1
        <5>3. fact[f].cmd.at \in Nat /\ fact[f].cmd.at <= cmd.at /\ fact[f].cmd.at \in Times
          <6>1. CanFold(before, cmd.type, cmd.at, fact[f].cmd.at)
            BY <1>13, <5>2
          <6> QED
            BY <1>17, <5>2, <6>1, CommandFields DEF CanFold
        <5>4. /\ before.started \in Nat
              /\ before.status = "blocked" => before.blockedAt \in Nat
          <6>1. before.started \in MaybeTimes /\ before.started # NoTime
            BY <1>1, <1>4, <4>2, <5>1 DEF Inv, RunsTimed, RunRecords
          <6>2. before.status = "blocked" => before.blockedAt = fact[f].cmd.at
            BY <1>1, <4>2, <5>1, <5>2 DEF Inv, RunsTimed
          <6> QED
            BY <5>3, <6>1, <6>2, TimesAssumption DEF MaybeTimes
        <5>5. /\ before.blocked = resumed - begun
                                   + IF before.status = "blocked" THEN before.blockedAt ELSE 0
              /\ before.started + before.blocked <= fact[f].cmd.at
              /\ before.status # "scheduled"
              /\ before.status = "blocked" => before.blockedAt = fact[f].cmd.at
          <6>1. before.status # "completed"
            BY <1>5 DEF Active
          <6> QED
            BY <1>1, <2>3, <4>2, <5>1, <5>2, <6>1 DEF Inv, Measured, RunsTimed
        <5> HIDE DEF resumed, begun
        <5> QED
          BY <1>1, <4>1, <5>3, <5>4, <5>5
      <4>3. CASE run[r0] = NoRun
        <5>1. before = Scheduled(cmd.item)
          BY <1>13, <4>3
        <5>2. OfType(r0, "resume") = {} /\ OfType(r0, "block") = {}
          BY <4>3 DEF OfType, Inv, Numbered
        <5>3. resumed = 0 /\ begun = 0
          BY <2>3, <5>2, SumUnfolds, FS_EmptySet
        <5> HIDE DEF resumed, begun
        <5> QED
          BY <5>1, <5>3 DEF Scheduled
      <4> QED
        BY <4>2, <4>3
    <3> HIDE DEF resumed, begun
    <3>4. after.started \in Nat /\ after.started + after.blocked <= cmd.at
      <4>1. CASE cmd.type = "start"
        BY <1>1, <1>5, <3>3, <4>1
      <4>2. CASE cmd.type = "resume"
        <5>1. before.blockedAt <= cmd.at
          BY <1>2, <1>5, <4>2, Foldable DEF before
        <5>2. /\ before.started + before.blocked <= before.blockedAt
              /\ before.started \in Nat /\ before.blocked \in Nat /\ before.blockedAt \in Nat
          BY <1>5, <3>3, <4>2
        <5>3. after.started = before.started
              /\ after.blocked = before.blocked + (cmd.at - before.blockedAt)
          BY <1>5, <4>2
        <5> QED
          BY <1>1, <5>1, <5>2, <5>3
      <4>3. CASE cmd.type \notin {"start", "resume"}
        BY <1>1, <1>5, <3>3, <4>3
      <4> QED
        BY <4>1, <4>2, <4>3
    <3>5. after.blocked = (resumed + (IF cmd.type = "resume" THEN cmd.at ELSE 0))
                          - (begun + (IF cmd.type = "block" THEN cmd.at ELSE 0))
                          + IF after.status = "blocked" THEN after.blockedAt ELSE 0
      BY <1>1, <1>5, <2>1, <3>3
    <3> QED
      BY <1>1, <1>5, <1>12, <1>17, <2>3, <3>1, <3>2, <3>4, <3>5
  <2> QED
    BY <2>2, <2>3
<1> QED
  BY <1>10, <1>15, <1>16, <1>18, <1>19, <1>20, <1>21, <1>22, <1>25 DEF Inv

LEMMA MeasuredAlike ==
  ASSUME Measured, UNCHANGED <<run, fact>>
  PROVE  Measured'
<1>1. Facts' = Facts
  BY DEF Facts
<1>2. \A r, type : OfType(r, type)' = OfType(r, type)
  BY <1>1 DEF OfType
<1> QED
  BY <1>1, <1>2 DEF Measured

\* Filing a command for review leaves facts and runs alone.
LEMMA ReviewInv ==
  ASSUME Inv, NEW cmd \in Commands, FileReview(cmd)
  PROVE  Inv'
<1>1. /\ cmd.event \in Events /\ cmd.event \notin Facts
      /\ UNCHANGED <<run, fact, request, cancelled, projection, notices>>
      /\ receipt' = [receipt EXCEPT ![cmd.event] = [kind |-> "review", cmd |-> cmd]]
  BY CommandFields, Blanks DEF FileReview, Known, Inv, FactsKept, NoReceipt
<1>2. Facts' = Facts /\ \A e \in Facts : e \in Events /\ receipt'[e] = receipt[e]
  BY <1>1, Blanks DEF Facts, Inv, ServerTypeOK
<1>3. [kind |-> "review", cmd |-> cmd] \in ReceiptRecords
  BY DEF ReceiptRecords
<1>4. ServerTypeOK'
  BY <1>1, <1>3 DEF Inv, ServerTypeOK
<1>5. FactsKept'
  BY <1>1, <1>2 DEF Inv, ServerTypeOK, FactsKept, Response
<1>6. Numbered' /\ RunsTimed' /\ OneRunEach' /\ Announced' /\ Measured'
  BY <1>1, <1>2, MeasuredAlike DEF Inv, Numbered, RunsTimed, OneRunEach, Announced
<1>7. LeftByLast' /\ Chained'
  BY <1>1, <1>2 DEF Inv, LeftByLast, Chained, FoldedInto, Response
<1> QED
  BY <1>4, <1>5, <1>6, <1>7 DEF Inv

\* The cancellation of an item that has no run.
LEMMA CancelInv ==
  ASSUME Inv, NEW i \in TaskItems, CancelItem(i)
  PROVE  Inv'
<1>1. /\ UNCHANGED <<run, fact, receipt, notices>>
      /\ cancelled' = cancelled \cup {i} /\ projection' = projection + 1
      /\ request' = [request EXCEPT ![i] = "cancelled"]
      /\ i \in Items /\ RunsOf(i) = {}
  BY TaskItemsAssumption DEF CancelItem, Cancellable
<1>2. Facts' = Facts
  BY <1>1 DEF Facts
<1>3. ServerTypeOK'
  BY <1>1 DEF Inv, ServerTypeOK
<1>4. FactsKept'
  <2>1. \A e \in Facts : fact[e].projection \in Nat
    BY Blanks DEF Inv, ServerTypeOK, FactRecords
  <2>2. projection \in Nat
    BY DEF Inv, ServerTypeOK
  <2> QED
    BY <1>1, <1>2, <2>1, <2>2 DEF Inv, FactsKept, Response
<1>5. Numbered' /\ RunsTimed' /\ Announced' /\ Measured'
  BY <1>1, <1>2, MeasuredAlike DEF Inv, Numbered, RunsTimed, Announced
<1>6. LeftByLast' /\ Chained'
  BY <1>1, <1>2 DEF Inv, LeftByLast, Chained, FoldedInto, Response
<1>7. OneRunEach'
  BY <1>1 DEF Inv, ServerTypeOK, OneRunEach, RunsOf
<1> QED
  BY <1>3, <1>4, <1>5, <1>6, <1>7 DEF Inv

\* What the runs and their events do, and what leaves them alone, keeps the invariant.
LEMMA StepInv ==
  Inv /\ ((\E cmd \in Commands, timely \in BOOLEAN : Record(cmd, timely))
          \/ (\E i \in TaskItems : CancelItem(i))
          \/ (\E cmd \in FieldCommands : FieldRecord(cmd))
          \/ UNCHANGED serverVars) => Inv'
<1>1. ASSUME Inv, NEW cmd \in Commands, NEW timely \in BOOLEAN, Record(cmd, timely) PROVE Inv'
  BY <1>1, ApplyInv, ReviewInv DEF Record, ApplyEvent
<1>2. ASSUME Inv, NEW cmd \in FieldCommands, FieldRecord(cmd) PROVE Inv'
  BY <1>2, ApplyInv DEF FieldRecord, ApplyRunEvent, FieldCommands
<1>3. ASSUME Inv, UNCHANGED serverVars PROVE Inv'
  <2>1. Measured'
    BY <1>3, MeasuredAlike DEF Inv, serverVars
  <2> QED
    BY <1>3, <2>1 DEF serverVars, Inv, ServerTypeOK, FactsKept, Numbered, LeftByLast, Chained,
       RunsTimed, OneRunEach, Announced, FoldedInto, Response, Facts
<1> QED
  BY <1>1, <1>2, <1>3, CancelInv

-----------------------------------------------------------------------------
(* Rebuilding a run from its facts. *)

LEMMA ResponseType ==
  ASSUME Inv, NEW e \in Facts
  PROVE  Response(e) \in RunRecords
  BY Blanks DEF Inv, ServerTypeOK, FactsKept, Response, ReceiptRecords, NoReceipt

\* The facts of a stored run, found by their number.
LEMMA FactsFound ==
  ASSUME Inv, NEW r \in Runs, run[r] # NoRun
  PROVE  /\ run[r].rev \in Nat
         /\ \A k \in 1 .. run[r].rev :
              /\ FactAt(r, k) \in Facts
              /\ fact[FactAt(r, k)].cmd.run = r /\ fact[FactAt(r, k)].rev = k
              /\ fact[FactAt(r, k)].cmd.item = run[r].item
              /\ \A e \in Facts : fact[e].cmd.run = r /\ fact[e].rev = k => e = FactAt(r, k)
<1>1. run[r].rev \in Nat
  BY DEF Inv, ServerTypeOK, RunRecords
<1>2. ASSUME NEW k \in 1 .. run[r].rev
      PROVE  /\ FactAt(r, k) \in Facts
             /\ fact[FactAt(r, k)].cmd.run = r /\ fact[FactAt(r, k)].rev = k
  <2>1. \E e \in Facts : fact[e].cmd.run = r /\ fact[e].rev = k
    BY DEF Inv, Numbered
  <2> QED
    BY <2>1 DEF FactAt
<1> QED
  BY <1>1, <1>2 DEF Inv, Numbered, LeftByLast

\* Refolding the facts of a run up to one of them gives what its receipt keeps.
LEMMA RebuiltIs ==
  ASSUME Inv, NEW r \in Runs, run[r] # NoRun, NEW n \in 0 .. run[r].rev
  PROVE  Rebuilt(r, run[r].item, n) =
           IF n = 0 THEN Scheduled(run[r].item) ELSE Response(FactAt(r, n))
<1> DEFINE i == run[r].item
           left == [k \in 0 .. n |-> IF k = 0 THEN Scheduled(i) ELSE Response(FactAt(r, k))]
           event(k) == fact[FactAt(r, k)].cmd
           next(s, k) == IF k = 0 THEN Scheduled(i)
                         ELSE Fold(s[k - 1], event(k).type, event(k).at)
           state == CHOOSE s : s = [k \in 0 .. n |-> next(s, k)]
<1>1. run[r].rev \in Nat /\ n \in Nat /\ n <= run[r].rev
  BY FactsFound
<1>2. ASSUME NEW k \in 0 .. n, k # 0
      PROVE  left[k] = Fold(left[k - 1], event(k).type, event(k).at)
  <2>1. k \in 1 .. run[r].rev /\ k - 1 \in 0 .. n
    BY <1>1, <1>2
  <2>2. /\ FactAt(r, k) \in Facts /\ fact[FactAt(r, k)].cmd.run = r
        /\ fact[FactAt(r, k)].rev = k /\ fact[FactAt(r, k)].cmd.item = i
    BY <2>1, FactsFound
  <2>3. left[k] = Response(FactAt(r, k))
    BY <1>2
  <2>4. CASE k = 1
    <3>1. FoldedInto(FactAt(r, k), Scheduled(i), NoTime)
      BY <2>2, <2>4 DEF Inv, Chained
    <3>2. left[k - 1] = Scheduled(i)
      BY <1>1, <2>4
    <3> QED
      BY <2>3, <3>1, <3>2, Zenon DEF FoldedInto
  <2>5. CASE k # 1
    <3>1. k - 1 \in 1 .. run[r].rev /\ k = (k - 1) + 1
      BY <1>1, <1>2, <2>5
    <3>2. /\ FactAt(r, k - 1) \in Facts /\ fact[FactAt(r, k - 1)].cmd.run = r
          /\ fact[FactAt(r, k - 1)].rev = k - 1
      BY <3>1, FactsFound
    <3>3. FoldedInto(FactAt(r, k), Response(FactAt(r, k - 1)), fact[FactAt(r, k - 1)].cmd.at)
      BY <2>2, <3>1, <3>2 DEF Inv, Chained
    <3>4. left[k - 1] = Response(FactAt(r, k - 1))
      BY <2>1, <3>1
    <3> QED
      BY <2>3, <3>3, <3>4, Zenon DEF FoldedInto
  <2> QED
    BY <2>4, <2>5
<1>3. left = [k \in 0 .. n |-> next(left, k)]
  BY <1>2
<1>4. state = [k \in 0 .. n |-> next(state, k)]
  <2> HIDE DEF left, next
  <2> QED
    BY <1>3
<1>5. Rebuilt(r, i, n) = state[n]
  BY Zenon DEF Rebuilt
<1> DEFINE Same == {k \in Nat : k \in 0 .. n => state[k] = left[k]}
<1> HIDE DEF state
<1>6. \A k \in Nat : k \in Same
  <2>1. 0 \in Same
    BY <1>1, <1>4
  <2>2. ASSUME NEW k \in Nat, k \in Same PROVE k + 1 \in Same
    <3> SUFFICES ASSUME k + 1 \in 0 .. n PROVE state[k + 1] = left[k + 1]
      OBVIOUS
    <3>1. k \in 0 .. n /\ k + 1 # 0 /\ (k + 1) - 1 = k
      BY <1>1
    <3>2. state[k] = left[k]
      BY <2>2, <3>1
    <3>3. state[k + 1] = Fold(state[k], event(k + 1).type, event(k + 1).at)
      BY <1>4, <3>1
    <3> QED
      BY <1>2, <3>1, <3>2, <3>3
  <2> HIDE DEF Same
  <2> QED
    BY <2>1, <2>2, Induct
<1> HIDE DEF left
<1>7. state[n] = left[n]
  <2>1. n \in 0 .. n
    BY <1>1
  <2> QED
    BY <1>1, <1>6, <2>1
<1> USE DEF left
<1> QED
  BY <1>1, <1>5, <1>7

-----------------------------------------------------------------------------
(* The theorems. *)

LEMMA FieldInv == FieldSpec => []Inv
<1>1. FieldInit => Inv
  BY InitInv DEF FieldInit
<1>2. Inv /\ [FieldNext]_fieldVars => Inv'
  BY StepInv DEF FieldNext, Elsewhere, fieldVars
<1> QED
  BY <1>1, <1>2, PTL DEF FieldSpec

\* The tables hold what their columns allow, a blocked time that is a natural number included.
THEOREM TypesHold == FieldSpec => []ServerTypeOK
<1>1. Inv => ServerTypeOK
  BY DEF Inv
<1> QED
  BY <1>1, FieldInv, PTL

\* An accepted receipt can be answered for ever, whatever the recorder, the kiosks and the
\* owner do afterwards: refolding the facts of its run gives the response it keeps.
THEOREM ReceiptsCanBeRebuilt == FieldSpec => []ReceiptsRebuild
<1>1. ASSUME Inv PROVE OwnedOnce
  BY <1>1, SMTT(30) DEF Inv, FactsKept, OwnedOnce, Reviews
<1>2. ASSUME Inv, NEW e \in Facts PROVE Rebuilds(e)
  <2> DEFINE r == fact[e].cmd.run
             i == fact[e].cmd.item
             at(k) == FactAt(r, k)
             before(k) == Rebuilt(r, i, k - 1)
             last(k) == IF k = 1 THEN NoTime ELSE fact[FactAt(r, k - 1)].cmd.at
  <2>1. /\ r \in Runs /\ run[r] # NoRun /\ run[r].item = i
        /\ fact[e].rev \in 1 .. run[r].rev /\ run[r].rev \in Nat /\ fact[e].rev \in Nat
    BY <1>2, Blanks, CommandFields, FactsFound
       DEF Inv, Numbered, LeftByLast, ServerTypeOK, FactRecords
  <2>2. ASSUME NEW k \in 1 .. fact[e].rev
        PROVE  /\ Cardinality({x \in Facts : fact[x].cmd.run = r /\ fact[x].rev = k}) = 1
               /\ FoldedInto(at(k), before(k), last(k))
               /\ Response(at(k)).status = fact[at(k)].result
               /\ at(k) \in Facts /\ before(k) \in RunRecords
    <3>1. k \in 1 .. run[r].rev /\ k - 1 \in 0 .. run[r].rev
      BY <2>1
    <3>2. /\ at(k) \in Facts /\ fact[at(k)].cmd.run = r /\ fact[at(k)].rev = k
          /\ fact[at(k)].cmd.item = i
          /\ \A x \in Facts : fact[x].cmd.run = r /\ fact[x].rev = k => x = at(k)
      BY <1>2, <2>1, <3>1, FactsFound
    <3>3. {x \in Facts : fact[x].cmd.run = r /\ fact[x].rev = k} = {at(k)}
      BY <3>2
    <3>4. before(k) = IF k = 1 THEN Scheduled(i) ELSE Response(at(k - 1))
      BY <1>2, <2>1, <3>1, RebuiltIs
    <3>5. /\ Cardinality({x \in Facts : fact[x].cmd.run = r /\ fact[x].rev = k}) = 1
          /\ Response(at(k)).status = fact[at(k)].result
      BY <1>2, <3>2, <3>3, FS_Singleton, ZenonT(30) DEF Inv, FactsKept
    <3>6. CASE k = 1
      <4>1. FoldedInto(at(k), Scheduled(i), NoTime)
        BY <1>2, <3>2, <3>6 DEF Inv, Chained
      <4>2. Scheduled(i) \in RunRecords
        <5>1. i \in Items
          BY <1>2, <2>1, SMTT(30) DEF Inv, ServerTypeOK, RunRecords
        <5> QED
          BY <5>1 DEF Scheduled, RunRecords, States, Active, MaybeTimes
      <4> QED
        BY <3>2, <3>4, <3>5, <3>6, <4>1, <4>2
    <3>7. CASE k # 1
      <4>1. k - 1 \in 1 .. run[r].rev /\ k = (k - 1) + 1
        BY <3>1, <3>7
      <4>2. at(k - 1) \in Facts /\ fact[at(k - 1)].cmd.run = r /\ fact[at(k - 1)].rev = k - 1
        BY <1>2, <2>1, <4>1, FactsFound
      <4>3. FoldedInto(at(k), Response(at(k - 1)), fact[at(k - 1)].cmd.at)
        BY <1>2, <3>2, <4>1, <4>2 DEF Inv, Chained
      <4>4. Response(at(k - 1)) \in RunRecords
        BY <1>2, <4>2, ResponseType
      <4> QED
        BY <3>2, <3>4, <3>5, <3>7, <4>3, <4>4
    <3> QED
      BY <3>6, <3>7
  <2>3. ASSUME NEW k \in 1 .. fact[e].rev
        PROVE  fact[at(k)].result = NextState(before(k).status, fact[at(k)].cmd.type)
    <3> DEFINE f == at(k)
               b == before(k)
    <3>1. /\ FoldedInto(f, b, last(k)) /\ Response(f).status = fact[f].result /\ f \in Facts
      BY <2>2
    <3>2. Response(f) = Fold(b, fact[f].cmd.type, fact[f].cmd.at)
      BY <3>1 DEF FoldedInto
    <3>3. b \in RunRecords
      BY <2>2
    <3> HIDE DEF f, b
    <3>4. Fold(b, fact[f].cmd.type, fact[f].cmd.at).status = NextState(b.status, fact[f].cmd.type)
      BY <3>3, FoldStatus
    <3> QED
      BY <3>1, <3>2, <3>4, Zenon DEF f, b
  <2>4. receipt[e].response = Rebuilt(r, i, fact[e].rev)
    <3>1. e = at(fact[e].rev)
      BY <1>2, <2>1, FactsFound
    <3> QED
      BY <1>2, <2>1, <3>1, RebuiltIs DEF Response
  <2> QED
    BY <2>2, <2>3, <2>4 DEF Rebuilds, FoldedInto
<1>3. Inv => ReceiptsRebuild
  BY <1>1, <1>2 DEF ReceiptsRebuild
<1> QED
  BY <1>3, FieldInv, PTL

\* A run is what its facts say: they chain from state to state in the order they happened,
\* its blocked time is that of its closed blocks and fits into it, and what became of its
\* item, its request and the announcement follows from its completion.
THEOREM RunsAreTheirFacts == FieldSpec => []RunIsItsFacts
<1>1. ASSUME Inv PROVE FactsChain
  <2> SUFFICES ASSUME NEW e \in Facts
               PROVE  LET r == run[fact[e].cmd.run]
                      IN /\ fact[e].rev \in 1 .. r.rev
                         /\ fact[e].rev = r.rev => fact[e].result = r.status
                         /\ fact[e].rev = 1 => fact[e].previous = "scheduled"
                         /\ fact[e].rev > 1 => \E f \in Facts :
                              /\ fact[f].cmd.run = fact[e].cmd.run
                              /\ fact[f].rev = fact[e].rev - 1
                              /\ fact[f].result = fact[e].previous
                              /\ fact[f].cmd.at <= fact[e].cmd.at
                              /\ fact[f].projection < fact[e].projection
    BY DEF FactsChain
  <2> DEFINE r == fact[e].cmd.run
  <2>1. r \in Runs /\ run[r] # NoRun /\ fact[e].rev \in 1 .. run[r].rev /\ run[r].rev \in Nat
    BY <1>1, Blanks, CommandFields, FactsFound DEF Inv, Numbered, ServerTypeOK, FactRecords
  <2>2. fact[e].rev = run[r].rev => fact[e].result = run[r].status
    BY <1>1 DEF Inv, LeftByLast, FactsKept
  <2>3. fact[e].rev = 1 => fact[e].previous = "scheduled"
    BY <1>1 DEF Inv, Chained, FoldedInto, Scheduled
  <2>4. ASSUME fact[e].rev > 1
        PROVE  \E f \in Facts : /\ fact[f].cmd.run = fact[e].cmd.run
                                /\ fact[f].rev = fact[e].rev - 1
                                /\ fact[f].result = fact[e].previous
                                /\ fact[f].cmd.at <= fact[e].cmd.at
                                /\ fact[f].projection < fact[e].projection
    <3>1. fact[e].rev - 1 \in 1 .. run[r].rev
      BY <2>1, <2>4
    <3>2. PICK f \in Facts : fact[f].cmd.run = r /\ fact[f].rev = fact[e].rev - 1
      BY <1>1, <2>1, <3>1 DEF Inv, Numbered
    <3>3. fact[e].rev = fact[f].rev + 1
      BY <2>1, <3>2
    <3>4. FoldedInto(e, Response(f), fact[f].cmd.at) /\ fact[f].projection < fact[e].projection
      BY <1>1, <3>2, <3>3 DEF Inv, Chained
    <3>5. fact[f].cmd.at # NoTime
      BY <1>1, Blanks, CommandFields DEF Inv, ServerTypeOK, FactRecords
    <3> QED
      BY <1>1, <3>2, <3>4, <3>5 DEF FoldedInto, CanFold, Inv, FactsKept
  <2> QED
    BY <2>1, <2>2, <2>3, <2>4
<1>2. ASSUME Inv PROVE MetricsConsistent
  <2> SUFFICES ASSUME NEW r \in Runs, run[r] # NoRun, run[r].status \in {"shooting", "completed"}
               PROVE  /\ run[r].blocked = SumAt(fact, OfType(r, "resume")) - SumAt(fact, OfType(r, "block"))
                      /\ run[r].status = "completed" =>
                           run[r].started + run[r].blocked <= run[r].completed
    BY Zenon DEF MetricsConsistent, SumAt, OfType
  <2>1. \A type \in Types : SumAt(fact, OfType(r, type)) \in Int
    <3> SUFFICES ASSUME NEW type \in Types PROVE SumAt(fact, OfType(r, type)) \in Int
      OBVIOUS
    <3>1. OfType(r, type) \in SUBSET Facts /\ IsFiniteSet(Facts)
      BY <1>2 DEF OfType, Inv, Measured
    <3>2. \A e \in Facts : fact[e].cmd.at \in Int
      BY <1>2, Blanks, CommandFields DEF Inv, ServerTypeOK, FactRecords
    <3>3. IsFiniteSet(OfType(r, type)) /\ \A e \in OfType(r, type) : fact[e].cmd.at \in Int
      BY <3>1, <3>2, FS_Subset
    <3> QED
      BY <3>3, SumIsInt
  <2>2. /\ run[r].blocked = SumAt(fact, OfType(r, "resume")) - SumAt(fact, OfType(r, "block"))
                             + IF run[r].status = "blocked" THEN run[r].blockedAt ELSE 0
        /\ run[r].status = "completed" => run[r].started + run[r].blocked <= run[r].completed
    BY <1>2 DEF Inv, Measured
  <2> QED
    BY <2>1, <2>2 DEF Types
<1>3. ASSUME Inv PROVE OutcomeAgrees
  <2>1. ASSUME NEW i \in Items PROVE Cardinality(RunsOf(i)) <= 1
    <3>1. \A r, q \in RunsOf(i) : r = q
      BY <1>3 DEF Inv, OneRunEach, RunsOf
    <3>2. CASE RunsOf(i) = {}
      BY <3>2, FS_EmptySet
    <3>3. CASE RunsOf(i) # {}
      <4>1. PICK r \in RunsOf(i) : TRUE
        BY <3>3
      <4>2. RunsOf(i) = {r}
        BY <3>1, <4>1
      <4>3. Cardinality(RunsOf(i)) = 1
        BY <4>2, FS_Singleton
      <4> QED
        BY <4>3
    <3> QED
      BY <3>2, <3>3
  <2>2. ASSUME NEW i \in TaskItems
        PROVE  /\ request[i] = "fulfilled" <=> \E r \in RunsOf(i) : run[r].status = "completed"
               /\ i \in cancelled => RunsOf(i) = {} /\ request[i] = "cancelled"
    BY <1>3 DEF Inv, OneRunEach, RunsOf
  <2>3. ASSUME NEW e \in notices
        PROVE  LET r == fact[e].cmd.run
               IN  /\ e \in Facts /\ r \in Runs /\ run[r] # NoRun
                   /\ fact[e].rev = run[r].rev /\ run[r].status = "completed"
                   /\ run[r].item = fact[e].cmd.item
    <3> DEFINE r == fact[e].cmd.run
    <3>1. /\ e \in Facts /\ fact[e].result = "completed" /\ r \in Runs /\ run[r] # NoRun
          /\ fact[e].rev \in 1 .. run[r].rev /\ run[r].rev \in Nat
      BY <1>3, Blanks, CommandFields, FactsFound
         DEF Inv, Announced, Numbered, ServerTypeOK, FactRecords
    <3>2. ASSUME fact[e].rev # run[r].rev PROVE FALSE
      <4>1. fact[e].rev + 1 \in 1 .. run[r].rev
        BY <3>1, <3>2
      <4>2. PICK f \in Facts : fact[f].cmd.run = r /\ fact[f].rev = fact[e].rev + 1
        BY <1>3, <3>1, <4>1 DEF Inv, Numbered
      <4>3. FoldedInto(f, Response(e), fact[e].cmd.at)
        BY <1>3, <3>1, <4>2 DEF Inv, Chained
      <4>4. Response(e).status = "completed"
        BY <1>3, <3>1 DEF Inv, FactsKept
      <4> QED
        BY <4>3, <4>4 DEF FoldedInto, CanFold, NextState
    <3>3. run[r].status = "completed" /\ run[r].item = fact[e].cmd.item
      BY <1>3, <3>1, <3>2 DEF Inv, LeftByLast, FactsKept
    <3> QED
      BY <3>1, <3>2, <3>3
  <2>4. ASSUME NEW i \in TaskItems
        PROVE  Cardinality({e \in notices : fact[e].cmd.item = i}) <=
                 IF request[i] = "fulfilled" THEN 1 ELSE 0
    <3> DEFINE N == {e \in notices : fact[e].cmd.item = i}
    <3> SUFFICES Cardinality(N) <= IF request[i] = "fulfilled" THEN 1 ELSE 0
      OBVIOUS
    <3>1. CASE N = {}
      BY <3>1, FS_EmptySet
    <3>2. CASE N # {}
      <4>1. PICK e \in N : TRUE
        BY <3>2
      <4>2. request[i] = "fulfilled"
        BY <1>3, <2>3, <4>1 DEF Inv, OneRunEach
      <4>3. \A f \in N : f = e
        <5> SUFFICES ASSUME NEW f \in N PROVE f = e
          OBVIOUS
        <5>1. fact[e].cmd.run = fact[f].cmd.run
          BY <1>3, <2>3, <4>1 DEF Inv, OneRunEach
        <5> QED
          BY <1>3, <2>3, <4>1, <5>1 DEF Inv, Numbered
      <4>4. N = {e}
        BY <4>1, <4>3
      <4> HIDE DEF N
      <4>5. Cardinality(N) = 1
        BY <4>4, FS_Singleton
      <4> QED
        BY <4>2, <4>5
    <3> QED
      BY <3>1, <3>2
  <2> QED
    BY <2>1, <2>2, <2>4 DEF OutcomeAgrees
<1>4. Inv => RunIsItsFacts
  BY <1>1, <1>2, <1>3 DEF RunIsItsFacts
<1> QED
  BY <1>4, FieldInv, PTL

\* An applied event changes one run: a start begins it, any other event finds it in progress
\* and leaves its start as it is.
LEMMA OneRunChanges ==
  ASSUME Inv, NEW cmd \in Commands, NEW announced, Apply(cmd, announced)
  PROVE  /\ cmd.run \in Runs /\ cmd.event \in Events /\ cmd.event \notin Facts
         /\ cmd.at \in Times /\ cmd.at # NoTime
         /\ \A r \in Runs \ {cmd.run} : run'[r] = run[r]
         /\ \A e \in Facts : fact'[e] = fact[e]
         /\ fact'[cmd.event].cmd = cmd
         /\ run'[cmd.run].item = cmd.item
         /\ cmd.type = "start" => run[cmd.run] = NoRun /\ run'[cmd.run].started = cmd.at
         /\ cmd.type # "start" => /\ run[cmd.run] # NoRun
                                  /\ run[cmd.run].completed = NoTime
                                  /\ run[cmd.run].item = cmd.item
                                  /\ run'[cmd.run].started = run[cmd.run].started
<1> DEFINE before == Current(cmd)
           after == Fold(before, cmd.type, cmd.at)
<1>1. /\ cmd.run \in Runs /\ cmd.event \in Events /\ cmd.at \in Times /\ cmd.at # NoTime
      /\ cmd.type \in Types
  BY CommandFields
<1>2. ~ Known(cmd) /\ Admissible(cmd) /\ Applicable(cmd)
  BY DEF Apply
<1>3. PICK last : CanFold(before, cmd.type, cmd.at, last)
  BY <1>2, Foldable
<1>4. /\ cmd.event \notin Facts /\ before \in RunRecords /\ before.item = cmd.item
      /\ before.status = "blocked" => before.blockedAt \in Times /\ before.blockedAt <= cmd.at
      /\ \/ run[cmd.run] # NoRun /\ before = run[cmd.run]
         \/ run[cmd.run] = NoRun /\ before = Scheduled(cmd.item)
  BY <1>2, Foldable
<1>5. /\ after.item = cmd.item
      /\ after.started = IF cmd.type = "start" THEN cmd.at ELSE before.started
      /\ cmd.type = "start" <=> before.status = "scheduled"
      /\ before.status \in Active
  BY <1>1, <1>3, <1>4, FoldColumns
<1>6. /\ run' = [run EXCEPT ![cmd.run] = after]
      /\ fact' = [fact EXCEPT ![cmd.event] =
           [cmd |-> cmd, previous |-> before.status, result |-> after.status,
            rev |-> after.rev, projection |-> projection + 1]]
  BY DEF Apply
<1>7. /\ run \in [Runs -> RunRecords \cup {NoRun}]
      /\ fact \in [Events -> FactRecords \cup {NoFact}]
      /\ Facts \subseteq Events
  BY Blanks DEF Inv, ServerTypeOK
<1> HIDE DEF before, after
<1>8. run[cmd.run] # NoRun =>
        /\ before.status # "scheduled"
        /\ before.status # "completed" => before.completed = NoTime
  BY <1>1, <1>4 DEF Inv, RunsTimed, NoRun, Scheduled
<1>9. run[cmd.run] = NoRun => before.status = "scheduled"
  BY <1>4 DEF Scheduled
<1> QED
  BY <1>1, <1>4, <1>5, <1>6, <1>7, <1>8, <1>9 DEF Active

\* Facts stay, and the event applied becomes one.
LEMMA FactsStay ==
  ASSUME Inv, NEW cmd \in Commands, NEW announced, Apply(cmd, announced), Inv'
  PROVE  Facts \cup {cmd.event} \subseteq Facts'
<1>1. receipt'[cmd.event].kind = "accepted" /\ cmd.event \in Events
  BY CommandFields DEF Apply, Inv, ServerTypeOK
<1>2. cmd.event \in Facts'
  BY <1>1 DEF Inv, FactsKept
<1>3. \A e \in Facts : fact'[e] = fact[e]
  BY OneRunChanges
<1> QED
  BY <1>2, <1>3 DEF Facts

\* Whatever times the devices declare, two runs the recorder started on one resource never
\* overlap: a start comes after the end of everything on the resource, and what it came
\* after has an end for good.
THEOREM RecorderKeepsRunsDisjoint == FieldSpec => []RunsDisjoint
<1> DEFINE Kept == Inv /\ recorded \subseteq Facts /\ RunsDisjoint
<1>1. ASSUME FieldInit PROVE Kept
  <2>1. recorded = {}
    BY <1>1 DEF FieldInit
  <2> QED
    BY <1>1, <2>1, InitInv DEF FieldInit, RunsDisjoint, StartedByRecorder
<1>2. ASSUME Kept, NEW cmd \in Commands, NEW announced, Apply(cmd, announced),
             recorded' \subseteq Facts',
             \A e \in recorded' : e \in recorded \/ e = cmd.event,
             cmd.event \in recorded' /\ cmd.type = "start" => TimesFit(cmd)
      PROVE  RunsDisjoint'
  <2> SUFFICES ASSUME NEW r \in Runs, NEW q \in Runs, r # q,
                      StartedByRecorder(r)', StartedByRecorder(q)',
                      ResourceOf[run'[r].item] = ResourceOf[run'[q].item]
               PROVE  \/ run'[r].completed # NoTime /\ run'[r].completed <= run'[q].started
                      \/ run'[q].completed # NoTime /\ run'[q].completed <= run'[r].started
    BY DEF RunsDisjoint
  <2> DEFINE t == cmd.run
             Ended(a, b) == run[a].completed # NoTime /\ run[a].completed <= run[b].started
  <2>1. /\ t \in Runs /\ cmd.event \in Events /\ cmd.event \notin Facts
        /\ cmd.at \in Times /\ cmd.at # NoTime
        /\ \A x \in Runs \ {t} : run'[x] = run[x]
        /\ \A e \in Facts : fact'[e] = fact[e]
        /\ fact'[cmd.event].cmd = cmd
        /\ run'[t].item = cmd.item
        /\ cmd.type = "start" => run[t] = NoRun /\ run'[t].started = cmd.at
        /\ cmd.type # "start" => /\ run[t] # NoRun /\ run[t].completed = NoTime
                                 /\ run[t].item = cmd.item
                                 /\ run'[t].started = run[t].started
    BY <1>2, OneRunChanges
  <2>2. \A x \in Runs : StartedByRecorder(x) => run[x] # NoRun
    BY <1>2 DEF StartedByRecorder, Inv, Numbered
  <2>3. ASSUME NEW x \in Runs, StartedByRecorder(x)'
        PROVE  \/ StartedByRecorder(x)
               \/ x = t /\ cmd.type = "start" /\ cmd.event \in recorded'
    <3>1. PICK e \in recorded' : fact'[e].cmd.run = x /\ fact'[e].cmd.type = "start"
      BY <2>3 DEF StartedByRecorder
    <3>2. CASE e = cmd.event
      BY <2>1, <3>1, <3>2
    <3>3. CASE e \in recorded
      BY <1>2, <2>1, <3>1, <3>3 DEF StartedByRecorder
    <3> QED
      BY <1>2, <3>1, <3>2, <3>3
  <2>4. ASSUME NEW x \in Runs, x # t, StartedByRecorder(x), cmd.type = "start",
               cmd.event \in recorded', ResourceOf[run[x].item] = ResourceOf[cmd.item]
        PROVE  run'[x].completed # NoTime /\ run'[x].completed <= run'[t].started
    <3>1. x \in Others(cmd)
      BY <1>2, <2>2, <2>4 DEF Others, Inv, RunsTimed
    <3>2. run[x].completed # NoTime /\ run[x].completed <= cmd.at
      BY <1>2, <2>4, <3>1 DEF TimesFit
    <3> QED
      BY <2>1, <2>4, <3>2
  <2>5. CASE StartedByRecorder(r) /\ StartedByRecorder(q)
    <3>1. /\ run'[r].item = run[r].item /\ run'[r].started = run[r].started
          /\ run'[q].item = run[q].item /\ run'[q].started = run[q].started
          /\ run[r].completed # NoTime => run'[r].completed = run[r].completed
          /\ run[q].completed # NoTime => run'[q].completed = run[q].completed
      BY <2>1, <2>2, <2>5
    <3>2. Ended(r, q) \/ Ended(q, r)
      BY <1>2, <2>5, <3>1 DEF RunsDisjoint
    <3> QED
      BY <3>1, <3>2
  <2>6. CASE ~ StartedByRecorder(r)
    <3>1. r = t /\ cmd.type = "start" /\ cmd.event \in recorded' /\ StartedByRecorder(q)
      BY <2>3, <2>6
    <3> QED
      BY <2>1, <2>4, <3>1
  <2>7. CASE ~ StartedByRecorder(q)
    <3>1. q = t /\ cmd.type = "start" /\ cmd.event \in recorded' /\ StartedByRecorder(r)
      BY <2>3, <2>7
    <3> QED
      BY <2>1, <2>4, <3>1
  <2> QED
    BY <2>5, <2>6, <2>7
<1>3. ASSUME Kept, NEW cmd \in FieldCommands, FieldRecord(cmd) PROVE Kept'
  <2>1. cmd \in Commands /\ Apply(cmd, FALSE) /\ TimesFit(cmd)
        /\ recorded' = recorded \cup {cmd.event}
    BY <1>3 DEF FieldRecord, ApplyRunEvent, FieldCommands
  <2>2. Inv'
    BY <1>3, StepInv
  <2>3. recorded' \subseteq Facts'
    BY <1>3, <2>1, <2>2, FactsStay
  <2> QED
    BY <1>2, <1>3, <2>1, <2>2, <2>3
<1>4. ASSUME Kept, Elsewhere PROVE Kept'
  <2>1. Inv' /\ recorded' = recorded
    BY <1>4, StepInv DEF Elsewhere
  <2>2. CASE \E i \in TaskItems : CancelItem(i)
    BY <1>4, <2>1, <2>2 DEF CancelItem, RunsDisjoint, StartedByRecorder, Facts
  <2>3. CASE \E cmd \in Commands : FileReview(cmd)
    BY <1>4, <2>1, <2>3 DEF FileReview, RunsDisjoint, StartedByRecorder, Facts
  <2>4. ASSUME NEW cmd \in Commands, ApplyEvent(cmd) PROVE Kept'
    <3>1. Apply(cmd, TRUE)
      BY <2>4 DEF ApplyEvent
    <3>2. recorded' \subseteq Facts' /\ cmd.event \notin recorded'
      BY <1>4, <2>1, <3>1, FactsStay, OneRunChanges
    <3> QED
      BY <1>2, <1>4, <2>1, <3>1, <3>2
  <2> QED
    BY <1>4, <2>2, <2>3, <2>4 DEF Elsewhere, Record
<1>5. ASSUME Kept, UNCHANGED fieldVars PROVE Kept'
  <2>1. Inv'
    BY <1>5, StepInv DEF fieldVars
  <2> QED
    BY <1>5, <2>1 DEF fieldVars, serverVars, RunsDisjoint, StartedByRecorder, Facts
<1>6. Kept /\ [FieldNext]_fieldVars => Kept'
  BY <1>3, <1>4, <1>5 DEF FieldNext
<1>7. Kept => RunsDisjoint
  OBVIOUS
<1>8. FieldInit => Kept
  BY <1>1
<1> HIDE DEF Kept
<1> QED
  BY <1>6, <1>7, <1>8, PTL DEF FieldSpec

-----------------------------------------------------------------------------
(* The queue of a kiosk: its inductive invariant. *)

Recorded(e) == command[e] # NoCommand
Cmd(e) == command[e].cmd
Entries == {tab[t] : t \in Tabs}

\* What is on its way to the server: the events tabs wait for and those left behind.
Sent == stray \cup {x.event : x \in {y \in Entries : y.at = "waiting"}}

\* A command was recorded under its own id and for the item shown, and what the server has
\* of an event, and what the queue mentions, was recorded.
CommandsKept ==
  /\ \A e \in Own : Recorded(e) => Cmd(e).event = e /\ Cmd(e).item = Item
  /\ \A e \in items : Recorded(e)
  /\ \A e \in Own : receipt[e] # NoReceipt => Recorded(e) /\ receipt[e].cmd = Cmd(e)

\* A fact is that of its receipt, and its number is the one after what its client had seen.
FactsCounted ==
  \A e \in Facts : fact[e].cmd = receipt[e].cmd /\ fact[e].rev = fact[e].cmd.expected + 1

\* A sight of the server: there was no run yet, or the run of the item, which since then has
\* not gone back.
Sighted(s) ==
  /\ s.status \in States \cup {"gone"}
  /\ s.status = "scheduled" => s.rev = 0
  /\ s.status \notin {"gone", "scheduled"} =>
       s.run \in Runs /\ run[s.run] # NoRun /\ run[s.run].item = Item
         /\ s.rev \in 1 .. run[s.run].rev

SeenBefore == \A s \in {seen[t] : t \in Tabs} : Sighted(s)

\* What was confirmed before an event is applied, or is ahead of it in the queue.
PriorFirst ==
  \A e \in Own : \A f \in command[e].prior :
    Accepted(f) \/ (f \in items /\ Sequence(f) < Sequence(e))

\* The run has reached the revision an event was recorded against, or the event that takes it
\* there is ahead of it in the queue; an event recorded against no run begins one.
Reached(e) ==
  LET c == Cmd(e)
  IN  run[c.run] # NoRun /\ run[c.run].item = Item /\ c.expected <= run[c.run].rev

Follows(e, f) ==
  /\ Sequence(f) < Sequence(e)
  /\ Cmd(f).run = Cmd(e).run /\ Cmd(e).expected = Cmd(f).expected + 1

RunsContinued ==
  \A e \in Own : Recorded(e) =>
    IF Cmd(e).expected = 0 THEN Cmd(e).type = "start"
    ELSE Reached(e) \/ \E f \in items : Follows(e, f)

\* What is sent has nothing before it that the server does not have.
InTurn(e) ==
  /\ e \in Own /\ Recorded(e)
  /\ \A f \in command[e].prior : Accepted(f)
  /\ Cmd(e).expected > 0 => Reached(e)

\* A later fact of the run than the event could follow.
TooEarly(c) ==
  \E f \in Facts :
    fact[f].cmd.run = c.run /\ fact[f].rev = run[c.run].rev /\ c.at < fact[f].cmd.at

\* Nothing the server does can make a command admissible and applicable again.
Hopeless(c) ==
  \/ receipt[c.event].kind = "review"
  \/ c.item \in cancelled
  \/ Fulfils(c) /\ request[c.item] # "open"
  \/ \E r \in Runs \ {c.run} : run[r] # NoRun /\ run[r].item = c.item
  \/ run[c.run] # NoRun /\ run[c.run].item # c.item
  \/ run[c.run] # NoRun /\ c.expected < run[c.run].rev
  \/ /\ run[c.run] # NoRun /\ c.expected = run[c.run].rev
     /\ NextState(run[c.run].status, c.type) = "none" \/ TooEarly(c)

Doomed(e) == ~ Accepted(e) /\ Hopeless(Cmd(e))
Filed(e) == receipt[e].kind = "review"

\* What a tab is at: the event it has written is in the queue or applied, the event it sent
\* is in turn, and the verdict it holds is one the server stands by.
EntryTypes ==
  [at : {"idle", "mark", "item", "meta", "waiting", "handled", "removing", "closing"},
   event : Own \cup {NoEvent}, verdict : Verdicts \cup {"none"}]

Stands(x) ==
  /\ x.event = NoEvent <=> x.at = "idle"
  /\ x.verdict = "none" <=> x.at \notin {"handled", "removing", "closing"}
  /\ x.at # "idle" => Recorded(x.event)
  /\ x.at = "meta" => x.event \in items \/ Accepted(x.event)
  /\ x.at = "waiting" => InTurn(x.event)
  /\ x.at = "removing" => x.verdict = "applied"
  /\ x.at = "closing" => x.verdict \in {"review", "conflict"}
  /\ x.verdict = "applied" => Accepted(x.event)
  /\ x.verdict = "review" => Filed(x.event)
  /\ x.verdict = "conflict" => Doomed(x.event)
  /\ x.verdict # "reuse"

TabsStand == \A x \in Entries : Stands(x)

\* So is a verdict that was stored.
VerdictsStand ==
  \A e \in Own : /\ terminal[e] # "none" => Recorded(e)
                 /\ terminal[e] = "conflict" => Doomed(e)
                 /\ terminal[e] = "review" => Filed(e)

QueueInv ==
  /\ Inv /\ QueueTypeOK /\ CommandsKept /\ FactsCounted /\ InOrder /\ SeenBefore
  /\ PriorFirst /\ RunsContinued /\ NothingLost /\ TabsStand /\ VerdictsStand
  /\ \A e \in stray : InTurn(e)

-----------------------------------------------------------------------------
(* What a step of the server does to what the queue depends on. *)

\* Runs only grow, and stay as they are at one revision; facts and receipts stay.
Grows ==
  /\ \A r \in Runs : run[r] # NoRun =>
       /\ run'[r] # NoRun /\ run'[r].item = run[r].item
       /\ run[r].rev <= run'[r].rev
       /\ run'[r].rev = run[r].rev => run'[r] = run[r]
  /\ \A e \in Facts : e \in Facts' /\ fact'[e] = fact[e]
  /\ \A e \in Events : receipt[e] # NoReceipt => receipt'[e] = receipt[e]
  /\ \A i \in TaskItems : request[i] # "open" => request'[i] # "open"
  /\ cancelled \subseteq cancelled'

\* The event applied is a fact of its own, numbered after what its client had seen.
LEMMA ApplyGrows ==
  ASSUME Inv, NEW cmd \in Commands, NEW announced, Apply(cmd, announced)
  PROVE  /\ Grows
         /\ cmd.event \in Events /\ cmd.event \notin Facts /\ receipt[cmd.event] = NoReceipt
         /\ \A e \in Events \ {cmd.event} : receipt'[e] = receipt[e] /\ fact'[e] = fact[e]
         /\ receipt'[cmd.event].kind = "accepted" /\ receipt'[cmd.event].cmd = cmd
         /\ fact'[cmd.event].cmd = cmd /\ fact'[cmd.event].rev = cmd.expected + 1
         /\ fact'[cmd.event].projection = projection + 1
         /\ projection' = projection + 1
<1> DEFINE before == Current(cmd)
           after == Fold(before, cmd.type, cmd.at)
           new == [cmd |-> cmd, previous |-> before.status, result |-> after.status,
                   rev |-> after.rev, projection |-> projection + 1]
           kept == [kind |-> "accepted", cmd |-> cmd, response |-> after]
<1>1. /\ cmd.run \in Runs /\ cmd.event \in Events /\ cmd.at \in Times /\ cmd.type \in Types
  BY CommandFields
<1>2. ~ Known(cmd) /\ Admissible(cmd) /\ Applicable(cmd)
  BY DEF Apply
<1>3. PICK last : CanFold(before, cmd.type, cmd.at, last)
  BY <1>2, Foldable
<1>4. /\ cmd.event \notin Facts /\ before \in RunRecords /\ before.item = cmd.item
      /\ before.status = "blocked" => before.blockedAt \in Times /\ before.blockedAt <= cmd.at
      /\ \/ run[cmd.run] # NoRun /\ before = run[cmd.run]
         \/ run[cmd.run] = NoRun /\ before = Scheduled(cmd.item)
  BY <1>2, Foldable
<1>5. /\ after.item = cmd.item /\ after.rev = before.rev + 1 /\ after \in RunRecords
      /\ before.rev \in Nat
  BY <1>1, <1>3, <1>4, FoldColumns DEF RunRecords
<1>6. before.rev = cmd.expected
  BY <1>2 DEF Admissible, UpToDate
<1>7. /\ run' = [run EXCEPT ![cmd.run] = after]
      /\ fact' = [fact EXCEPT ![cmd.event] = new]
      /\ receipt' = [receipt EXCEPT ![cmd.event] = kept]
      /\ request' \in {request, [request EXCEPT ![cmd.item] = "fulfilled"]}
      /\ projection' = projection + 1 /\ cancelled' = cancelled
  BY DEF Apply
<1>8. /\ run \in [Runs -> RunRecords \cup {NoRun}]
      /\ fact \in [Events -> FactRecords \cup {NoFact}]
      /\ receipt \in [Events -> ReceiptRecords \cup {NoReceipt}]
      /\ request \in [TaskItems -> {"open", "fulfilled", "cancelled"}]
      /\ Facts \subseteq Events
  BY Blanks DEF Inv, ServerTypeOK
<1>9. receipt[cmd.event] = NoReceipt
  BY <1>2 DEF Known
<1>10. fact'[cmd.event] = new /\ receipt'[cmd.event] = kept
  BY <1>1, <1>7, <1>8
<1>11. /\ fact'[cmd.event].cmd = cmd /\ fact'[cmd.event].rev = after.rev
       /\ fact'[cmd.event].projection = projection + 1
       /\ receipt'[cmd.event].kind = "accepted" /\ receipt'[cmd.event].cmd = cmd
  <2> HIDE DEF before, after
  <2> QED
    BY <1>10
<1>12. after # NoRun
  BY <1>5, Blanks
<1> HIDE DEF before, after, new, kept
<1>13. \A r \in Runs : run[r] # NoRun =>
         /\ run'[r] # NoRun /\ run'[r].item = run[r].item
         /\ run[r].rev <= run'[r].rev
         /\ run'[r].rev = run[r].rev => run'[r] = run[r]
  <2> SUFFICES ASSUME NEW r \in Runs, run[r] # NoRun
               PROVE  /\ run'[r] # NoRun /\ run'[r].item = run[r].item
                      /\ run[r].rev <= run'[r].rev
                      /\ run'[r].rev = run[r].rev => run'[r] = run[r]
    OBVIOUS
  <2>1. run[r].rev \in Nat
    BY <1>8 DEF RunRecords
  <2>2. CASE r = cmd.run
    BY <1>1, <1>4, <1>5, <1>7, <1>8, <1>12, <2>1, <2>2
  <2>3. CASE r # cmd.run
    BY <1>7, <1>8, <2>1, <2>3
  <2> QED
    BY <2>2, <2>3
<1>14. \A e \in Events \ {cmd.event} : receipt'[e] = receipt[e] /\ fact'[e] = fact[e]
  BY <1>7, <1>8
<1>15. \A e \in Facts : e \in Facts' /\ fact'[e] = fact[e]
  BY <1>4, <1>8, <1>14 DEF Facts
<1>16. \A i \in TaskItems : request[i] # "open" => request'[i] # "open"
  BY <1>7, <1>8
<1> QED
  BY <1>1, <1>4, <1>5, <1>6, <1>7, <1>9, <1>11, <1>13, <1>14, <1>15, <1>16 DEF Grows

LEMMA ReviewGrows ==
  ASSUME Inv, NEW cmd \in Commands, FileReview(cmd)
  PROVE  /\ Grows
         /\ cmd.event \in Events /\ receipt[cmd.event] = NoReceipt
         /\ \A e \in Events \ {cmd.event} : receipt'[e] = receipt[e]
         /\ receipt'[cmd.event].kind = "review" /\ receipt'[cmd.event].cmd = cmd
         /\ UNCHANGED <<run, fact, request, cancelled, projection>>
<1>1. /\ receipt \in [Events -> ReceiptRecords \cup {NoReceipt}] /\ cmd.event \in Events
      /\ receipt' = [receipt EXCEPT ![cmd.event] = [kind |-> "review", cmd |-> cmd]]
      /\ receipt[cmd.event] = NoReceipt
      /\ UNCHANGED <<run, fact, request, cancelled, projection>>
  BY CommandFields DEF Inv, ServerTypeOK, FileReview, Known
<1>2. \A r \in Runs : run[r] # NoRun => run[r].rev <= run[r].rev
  BY DEF Inv, ServerTypeOK, RunRecords
<1> QED
  BY <1>1, <1>2 DEF Grows, Facts

LEMMA CancelGrows ==
  ASSUME Inv, NEW i \in TaskItems, CancelItem(i)
  PROVE  Grows /\ UNCHANGED <<run, fact, receipt>> /\ projection' = projection + 1
<1>1. /\ UNCHANGED <<run, fact, receipt>> /\ projection' = projection + 1
      /\ cancelled \subseteq cancelled'
      /\ request \in [TaskItems -> {"open", "fulfilled", "cancelled"}]
      /\ request' = [request EXCEPT ![i] = "cancelled"]
  BY DEF CancelItem, Inv, ServerTypeOK
<1>2. \A r \in Runs : run[r] # NoRun => run[r].rev <= run[r].rev
  BY DEF Inv, ServerTypeOK, RunRecords
<1> QED
  BY <1>1, <1>2 DEF Grows, Facts

LEMMA StillnessGrows ==
  ASSUME Inv, UNCHANGED serverVars
  PROVE  Grows
<1>1. \A r \in Runs : run[r] # NoRun => run[r].rev <= run[r].rev
  BY DEF Inv, ServerTypeOK, RunRecords
<1> QED
  BY <1>1 DEF Grows, Facts, serverVars

-----------------------------------------------------------------------------
(* Commands that can never be applied. *)

\* A command that may be applied to a run that exists goes on from where it stands.
LEMMA HopelessIsRefused ==
  ASSUME Inv, NEW c \in Commands, Hopeless(c)
  PROVE  Known(c) \/ ~ Admissible(c) \/ ~ Applicable(c)
<1> SUFFICES ASSUME ~ Known(c), Admissible(c), Applicable(c) PROVE FALSE
  OBVIOUS
<1>1. c.run \in Runs /\ c.event \in Events /\ c.item \in Items /\ c.at \in Nat
  BY CommandFields
<1>2. receipt[c.event].kind # "review"
  BY DEF Known, NoReceipt
<1>3. c.item \notin cancelled /\ (Fulfils(c) => request[c.item] = "open")
  BY DEF Admissible, Applicable, MayFulfil
<1>4. \/ /\ run[c.run] # NoRun /\ Current(c) = run[c.run]
         /\ \E f \in Facts : /\ fact[f].cmd.run = c.run /\ fact[f].rev = Current(c).rev
                             /\ CanFold(Current(c), c.type, c.at, fact[f].cmd.at)
      \/ run[c.run] = NoRun /\ RunsOf(c.item) = {}
  BY Foldable
<1>5. Current(c).item = c.item /\ Current(c).rev = c.expected
  BY Foldable DEF Admissible, UpToDate
<1>6. CASE run[c.run] = NoRun /\ RunsOf(c.item) = {}
  BY <1>1, <1>2, <1>3, <1>6 DEF Hopeless, RunsOf
<1>7. CASE /\ run[c.run] # NoRun /\ Current(c) = run[c.run]
           /\ \E f \in Facts : /\ fact[f].cmd.run = c.run /\ fact[f].rev = Current(c).rev
                               /\ CanFold(Current(c), c.type, c.at, fact[f].cmd.at)
  <2>1. PICK f \in Facts : /\ fact[f].cmd.run = c.run /\ fact[f].rev = run[c.run].rev
                           /\ CanFold(run[c.run], c.type, c.at, fact[f].cmd.at)
    BY <1>7
  <2>2. \A g \in Facts : fact[g].cmd.run = c.run /\ fact[g].rev = run[c.run].rev => g = f
    BY <2>1 DEF Inv, Numbered
  <2>3. fact[f].cmd.at \in Nat /\ fact[f].cmd.at # NoTime
    <3>1. fact[f].cmd \in Commands
      BY Blanks DEF Inv, ServerTypeOK, FactRecords
    <3> QED
      BY <3>1, CommandFields
  <2>4. NextState(run[c.run].status, c.type) # "none" /\ ~ TooEarly(c)
    BY <1>1, <2>1, <2>2, <2>3 DEF CanFold, TooEarly
  <2>5. \A r \in Runs : run[r] # NoRun /\ run[r].item = c.item => r = c.run
    BY <1>1, <1>5, <1>7 DEF Inv, OneRunEach
  <2>6. run[c.run].item = c.item /\ run[c.run].rev = c.expected /\ c.expected \in Nat
    BY <1>5, <1>7 DEF Commands
  <2> QED
    BY <1>2, <1>3, <2>4, <2>5, <2>6 DEF Hopeless
<1> QED
  BY <1>4, <1>6, <1>7

\* A command refused though the run has reached what its client had seen never comes right.
LEMMA RefusedIsHopeless ==
  ASSUME Inv, NEW c \in Commands, ~ Known(c), ~ Admissible(c) \/ ~ Applicable(c),
         c.expected = 0 => c.type = "start",
         c.expected > 0 => /\ run[c.run] # NoRun /\ run[c.run].item = c.item
                           /\ c.expected <= run[c.run].rev
  PROVE  Hopeless(c)
<1> SUFFICES ASSUME ~ Hopeless(c) PROVE FALSE
  OBVIOUS
<1>1. c.run \in Runs /\ c.event \in Events /\ c.item \in Items /\ c.at \in Nat /\ c.expected \in Nat
  BY CommandFields DEF Commands
<1>2. c.item \notin cancelled /\ (Fulfils(c) => MayFulfil(c))
  BY DEF Hopeless, MayFulfil
<1>3. \A r \in RunsOf(c.item) : r = c.run
  BY DEF Hopeless, RunsOf
<1>4. CASE run[c.run] # NoRun
  <2>1. run[c.run].item = c.item /\ c.expected >= run[c.run].rev
        /\ run[c.run].rev \in Nat /\ run[c.run].rev >= 1
    BY <1>1, <1>4 DEF Hopeless, Inv, ServerTypeOK, RunRecords, Numbered
  <2>2. c.expected = run[c.run].rev
    BY <1>1, <2>1
  <2>3. NextState(run[c.run].status, c.type) # "none" /\ ~ TooEarly(c)
    BY <1>4, <2>2 DEF Hopeless
  <2>4. run[c.run].status \in Active
    BY <2>3 DEF NextState, Active
  <2>5. ActiveRuns(c.item) = {c.run}
    BY <1>1, <1>3, <1>4, <2>1, <2>4 DEF ActiveRuns, RunsOf
  <2>6. Current(c) = run[c.run]
    BY <2>5 DEF Current, Existing
  <2>7. Admissible(c)
    BY <1>2, <2>2, <2>5, <2>6 DEF Admissible, Addressable, UpToDate
  <2>8. PICK f \in Facts : fact[f].cmd.run = c.run /\ fact[f].rev = run[c.run].rev
    <3>1. run[c.run].rev \in 1 .. run[c.run].rev
      BY <2>1
    <3> QED
      BY <1>1, <1>4, <3>1 DEF Inv, Numbered
  <2>9. \A g \in Facts : fact[g].cmd.run = c.run /\ fact[g].rev = run[c.run].rev => g = f
    BY <2>8 DEF Inv, Numbered
  <2>10. LastOccurredAt(c) = fact[f].cmd.at
    BY <2>8, <2>9 DEF LastOccurredAt
  <2>11. fact[f].cmd.at \in Nat
    <3>1. fact[f].cmd \in Commands
      BY Blanks DEF Inv, ServerTypeOK, FactRecords
    <3> QED
      BY <3>1, CommandFields
  <2>12. CanFold(run[c.run], c.type, c.at, LastOccurredAt(c))
    BY <1>1, <2>3, <2>8, <2>10, <2>11 DEF CanFold, TooEarly
  <2> QED
    BY <1>2, <2>6, <2>7, <2>12 DEF Applicable
<1>5. CASE run[c.run] = NoRun
  <2>1. c.expected = 0 /\ c.type = "start"
    BY <1>1, <1>5
  <2>2. RunsOf(c.item) = {}
    BY <1>3, <1>5 DEF RunsOf
  <2>3. Current(c) = Scheduled(c.item)
    BY <2>2 DEF Current, Existing, ActiveRuns
  <2>4. Admissible(c)
    BY <1>2, <1>5, <2>1, <2>2, <2>3 DEF Admissible, Addressable, UpToDate, Scheduled
  <2>5. LastOccurredAt(c) = NoTime
    BY <1>5 DEF Inv, Numbered, LastOccurredAt
  <2>6. CanFold(Current(c), c.type, c.at, LastOccurredAt(c))
    BY <2>1, <2>3, <2>5 DEF CanFold, NextState, Scheduled
  <2> QED
    BY <1>2, <2>4, <2>6 DEF Applicable
<1> QED
  BY <1>4, <1>5

LEMMA HopelessStays ==
  ASSUME Inv, Grows, NEW c \in Commands, Hopeless(c), Inv'
  PROVE  Hopeless(c)'
<1>1. c.run \in Runs /\ c.event \in Events /\ c.expected \in Nat
  BY CommandFields DEF Commands
<1>2. CASE receipt[c.event].kind = "review"
  BY <1>1, <1>2 DEF Grows, Hopeless, NoReceipt
<1>3. CASE c.item \in cancelled
  BY <1>3 DEF Grows, Hopeless
<1>4. CASE Fulfils(c) /\ request[c.item] # "open"
  BY <1>4 DEF Grows, Hopeless, Fulfils
<1>5. CASE \E r \in Runs \ {c.run} : run[r] # NoRun /\ run[r].item = c.item
  BY <1>5 DEF Grows, Hopeless
<1>6. CASE run[c.run] # NoRun /\ run[c.run].item # c.item
  BY <1>1, <1>6 DEF Grows, Hopeless
<1>7. ASSUME run[c.run] # NoRun
      PROVE  /\ run[c.run].rev \in Nat /\ run'[c.run].rev \in Nat /\ run'[c.run] # NoRun
             /\ run[c.run].rev <= run'[c.run].rev
             /\ run'[c.run].rev = run[c.run].rev => run'[c.run] = run[c.run]
  BY <1>1, <1>7 DEF Grows, Inv, ServerTypeOK, RunRecords
<1>8. CASE run[c.run] # NoRun /\ c.expected < run[c.run].rev
  BY <1>1, <1>7, <1>8 DEF Hopeless
<1>9. CASE /\ run[c.run] # NoRun /\ c.expected = run[c.run].rev
           /\ NextState(run[c.run].status, c.type) = "none" \/ TooEarly(c)
  <2>1. CASE run'[c.run].rev = run[c.run].rev
    <3>1. run'[c.run] = run[c.run]
      BY <1>7, <1>9, <2>1
    <3>2. TooEarly(c) => TooEarly(c)'
      BY <3>1 DEF TooEarly, Grows
    <3> QED
      BY <1>9, <3>1, <3>2 DEF Hopeless
  <2>2. CASE run'[c.run].rev # run[c.run].rev
    BY <1>1, <1>7, <1>9, <2>2 DEF Hopeless
  <2> QED
    BY <2>1, <2>2
<1> QED
  BY <1>2, <1>3, <1>4, <1>5, <1>6, <1>8, <1>9 DEF Hopeless

-----------------------------------------------------------------------------
(* The steps of the server, seen from the queue. *)

LEMMA CommandsAre ==
  ASSUME QueueTypeOK, CommandsKept, NEW e \in Own, Recorded(e)
  PROVE  /\ Cmd(e) \in Commands /\ Cmd(e).event = e /\ Cmd(e).item = Item
         /\ e \in Events /\ Cmd(e).run \in Runs /\ Cmd(e).expected \in Nat
         /\ Sequence(e) \in Sequences /\ Sequence(e) \in Nat /\ command[e].prior \subseteq Own
<1>1. command[e] \in [sequence : Sequences, prior : SUBSET Own, cmd : Commands]
  BY DEF QueueTypeOK, Recorded
<1>2. Cmd(e) \in Commands /\ Sequence(e) \in Sequences /\ command[e].prior \subseteq Own
  BY <1>1 DEF Cmd, Sequence
<1> QED
  BY <1>2, OwnAssumption DEF CommandsKept, Commands, Sequences

LEMMA SentAre ==
  ASSUME QueueInv
  PROVE  \A e \in Sent : InTurn(e)
BY DEF QueueInv, Sent, TabsStand, Stands

\* What a step of the server keeps of what the queue knows of it.
ServerKeeps ==
  /\ Inv' /\ Grows /\ FactsCounted' /\ InOrder'
  /\ \A e \in Own :
       /\ receipt'[e] # NoReceipt => Recorded(e) /\ receipt'[e].cmd = Cmd(e)
       /\ Accepted(e) => Accepted(e)'
       /\ Filed(e) => Filed(e)'
       /\ Recorded(e) /\ Doomed(e) => Doomed(e)'
       /\ Recorded(e) /\ Reached(e) => Reached(e)'

\* What follows from growth alone.
LEMMA GrowthKeeps ==
  ASSUME QueueInv, Inv', Grows, command' = command, NEW e \in Own
  PROVE  /\ receipt[e] # NoReceipt => receipt'[e] = receipt[e]
         /\ Accepted(e) => Accepted(e)'
         /\ Filed(e) => Filed(e)'
         /\ Recorded(e) /\ Hopeless(Cmd(e)) => Hopeless(Cmd(e))'
         /\ Recorded(e) /\ Reached(e) => Reached(e)'
<1>1. e \in Events /\ (receipt[e] # NoReceipt => receipt'[e] = receipt[e])
  BY OwnAssumption DEF Grows
<1>2. (Accepted(e) => Accepted(e)') /\ (Filed(e) => Filed(e)')
  BY <1>1 DEF Accepted, Filed, NoReceipt
<1>3. ASSUME Recorded(e), Hopeless(Cmd(e)) PROVE Hopeless(Cmd(e))'
  <2>1. PICK c \in Commands : c = Cmd(e)
    BY <1>3, CommandsAre DEF QueueInv
  <2>2. Cmd(e)' = c
    BY <2>1 DEF Cmd
  <2>3. Hopeless(c)'
    BY <1>3, <2>1, HopelessStays DEF QueueInv
  <2> QED
    BY <2>2, <2>3 DEF Hopeless, Fulfils, TooEarly
<1>4. ASSUME Recorded(e), Reached(e) PROVE Reached(e)'
  <2>1. Cmd(e)' = Cmd(e) /\ Cmd(e).run \in Runs /\ Cmd(e).expected \in Nat
    BY <1>4, CommandsAre DEF Cmd, QueueInv
  <2>2. run[Cmd(e).run].rev \in Nat /\ run'[Cmd(e).run].rev \in Nat
    BY <1>4, <2>1 DEF Reached, Grows, QueueInv, Inv, ServerTypeOK, RunRecords
  <2> QED
    BY <1>4, <2>1, <2>2 DEF Reached, Grows
<1> QED
  BY <1>1, <1>2, <1>3, <1>4

LEMMA ApplyKeeps ==
  ASSUME QueueInv, command' = command, NEW cmd \in Commands, Apply(cmd, TRUE),
         cmd.event \in Own => cmd.event \in Sent /\ cmd = Cmd(cmd.event)
  PROVE  ServerKeeps
<1> DEFINE e0 == cmd.event
<1>1. Inv /\ Inv'
  BY ApplyInv DEF QueueInv
<1>2. /\ Grows
      /\ e0 \in Events /\ e0 \notin Facts /\ receipt[e0] = NoReceipt
      /\ \A e \in Events \ {e0} : receipt'[e] = receipt[e] /\ fact'[e] = fact[e]
      /\ receipt'[e0].kind = "accepted" /\ receipt'[e0].cmd = cmd
      /\ fact'[e0].cmd = cmd /\ fact'[e0].rev = cmd.expected + 1
      /\ fact'[e0].projection = projection + 1
  BY <1>1, ApplyGrows
<1>3. \A e \in Own : Accepted(e) => e \in Facts
  BY <1>1, OwnAssumption DEF Inv, FactsKept, Accepted
<1>4. Facts' \subseteq Facts \cup {e0}
  BY <1>2 DEF Facts
<1>5. FactsCounted'
  <2>1. ASSUME NEW e \in Facts', e # e0
        PROVE  fact'[e].cmd = receipt'[e].cmd /\ fact'[e].rev = fact'[e].cmd.expected + 1
    <3>1. e \in Facts /\ e \in Events
      BY <1>4, <2>1 DEF Facts
    <3> QED
      BY <1>2, <2>1, <3>1 DEF QueueInv, FactsCounted
  <2> QED
    BY <1>2, <2>1 DEF FactsCounted
<1>6. InOrder'
  <2> SUFFICES ASSUME NEW e \in Own, Accepted(e)', NEW f \in command[e].prior
               PROVE  Accepted(f)' /\ fact'[f].projection < fact'[e].projection
    BY DEF InOrder
  <2>1. ASSUME f \in Own, Accepted(f), Accepted(f) => f \in Facts
        PROVE  Accepted(f)' /\ fact'[f] = fact[f] /\ f # e0
    BY <1>2, <2>1, OwnAssumption DEF Accepted, NoReceipt
  <2>2. CASE e = e0
    <3>1. Recorded(e) /\ command[e].prior \subseteq Own
      BY <2>2, SentAre, CommandsAre DEF QueueInv, InTurn
    <3>2. Accepted(f) /\ f \in Own /\ f \in Facts
      BY <1>3, <2>2, <3>1, SentAre DEF InTurn
    <3>3. fact[f].projection <= projection /\ fact[f].projection \in Nat /\ projection \in Nat
      BY <1>1, <3>2, Blanks DEF Inv, FactsKept, ServerTypeOK, FactRecords
    <3> QED
      BY <1>2, <2>1, <2>2, <3>2, <3>3
  <2>3. CASE e # e0
    <3>1. Accepted(e) /\ e \in Facts /\ fact'[e] = fact[e]
      BY <1>2, <1>3, <2>3, OwnAssumption DEF Accepted
    <3>2. Recorded(e)
      BY <3>1 DEF QueueInv, CommandsKept, Accepted, NoReceipt
    <3>3. f \in Own
      BY <3>2, CommandsAre DEF QueueInv
    <3>4. Accepted(f) /\ fact[f].projection < fact[e].projection
      BY <3>1 DEF QueueInv, InOrder
    <3> QED
      BY <1>3, <2>1, <3>1, <3>3, <3>4
  <2> QED
    BY <2>2, <2>3
<1>7. ASSUME NEW e \in Own
      PROVE  receipt'[e] # NoReceipt => Recorded(e) /\ receipt'[e].cmd = Cmd(e)
  <2>1. CASE e = e0
    BY <1>2, <2>1, SentAre DEF InTurn
  <2>2. CASE e # e0
    BY <1>2, <2>2, OwnAssumption DEF QueueInv, CommandsKept
  <2> QED
    BY <2>1, <2>2
<1>8. ASSUME NEW e \in Own, Recorded(e), Doomed(e) PROVE Doomed(e)'
  <2>1. Hopeless(Cmd(e)) /\ ~ Accepted(e)
    BY <1>8 DEF Doomed
  <2>2. Hopeless(Cmd(e))'
    BY <1>1, <1>2, <1>8, <2>1, GrowthKeeps
  <2>3. CASE e = e0
    <3>1. Hopeless(cmd)
      BY <2>1, <2>3
    <3>2. ~ Known(cmd) /\ Admissible(cmd) /\ Applicable(cmd)
      BY DEF Apply
    <3> QED
      BY <1>1, <3>1, <3>2, HopelessIsRefused
  <2>4. CASE e # e0
    BY <1>2, <2>1, <2>2, <2>4, OwnAssumption DEF Doomed, Accepted
  <2> QED
    BY <2>3, <2>4
<1> QED
  BY <1>1, <1>2, <1>5, <1>6, <1>7, <1>8, GrowthKeeps DEF ServerKeeps

LEMMA ReviewKeeps ==
  ASSUME QueueInv, command' = command, NEW cmd \in Commands, FileReview(cmd),
         cmd.event \in Own => cmd.event \in Sent /\ cmd = Cmd(cmd.event)
  PROVE  ServerKeeps
<1> DEFINE e0 == cmd.event
<1>1. Inv /\ Inv'
  BY ReviewInv DEF QueueInv
<1>2. /\ Grows
      /\ e0 \in Events /\ receipt[e0] = NoReceipt
      /\ \A e \in Events \ {e0} : receipt'[e] = receipt[e]
      /\ receipt'[e0].kind = "review" /\ receipt'[e0].cmd = cmd
      /\ UNCHANGED <<run, fact, request, cancelled, projection>>
  BY <1>1, ReviewGrows
<1>3. Facts' = Facts
  BY <1>2 DEF Facts
<1>4. \A e \in Facts : e \in Events /\ receipt'[e] = receipt[e]
  BY <1>1, <1>2, Blanks DEF Inv, FactsKept, NoReceipt
<1>5. FactsCounted'
  BY <1>2, <1>3, <1>4 DEF FactsCounted, QueueInv
<1>6. \A e \in Own : Accepted(e)' <=> Accepted(e)
  BY <1>2, OwnAssumption DEF Accepted, NoReceipt
<1>7. InOrder'
  <2>1. \A e \in Own : Accepted(e) => \A f \in command[e].prior : f \in Own
    BY CommandsAre DEF QueueInv, CommandsKept, Accepted, NoReceipt
  <2> QED
    BY <1>2, <1>6, <2>1 DEF InOrder, QueueInv
<1>8. ASSUME NEW e \in Own
      PROVE  receipt'[e] # NoReceipt => Recorded(e) /\ receipt'[e].cmd = Cmd(e)
  <2>1. CASE e = e0
    BY <1>2, <2>1, SentAre DEF InTurn
  <2>2. CASE e # e0
    BY <1>2, <2>2, OwnAssumption DEF QueueInv, CommandsKept
  <2> QED
    BY <2>1, <2>2
<1>9. ASSUME NEW e \in Own, Recorded(e), Doomed(e) PROVE Doomed(e)'
  BY <1>1, <1>2, <1>6, <1>9, GrowthKeeps DEF Doomed
<1> QED
  BY <1>1, <1>2, <1>5, <1>7, <1>8, <1>9, GrowthKeeps DEF ServerKeeps

LEMMA QuietKeeps ==
  ASSUME QueueInv, command' = command, Inv', Grows, UNCHANGED <<fact, receipt>>
  PROVE  ServerKeeps
<1>1. Facts' = Facts /\ \A e \in Own : Accepted(e)' <=> Accepted(e)
  BY DEF Facts, Accepted
<1>2. FactsCounted'
  BY <1>1 DEF FactsCounted, QueueInv
<1>3. InOrder'
  BY DEF InOrder, QueueInv, Accepted
<1>4. ASSUME NEW e \in Own, Recorded(e), Doomed(e) PROVE Doomed(e)'
  BY <1>1, <1>4, GrowthKeeps DEF Doomed
<1>5. \A e \in Own : receipt'[e] # NoReceipt => Recorded(e) /\ receipt'[e].cmd = Cmd(e)
  BY DEF QueueInv, CommandsKept
<1> QED
  BY <1>2, <1>3, <1>4, <1>5, GrowthKeeps DEF ServerKeeps

\* What a request that arrives, another device, the owner or nobody does at the server.
LEMMA ServerStepKeeps ==
  ASSUME QueueInv, command' = command,
         \/ \E e \in Sent, timely \in BOOLEAN : Receive(Cmd(e), timely)
         \/ \E cmd \in Commands : cmd.event \notin Own /\ ApplyEvent(cmd)
         \/ \E i \in TaskItems : CancelItem(i)
         \/ UNCHANGED serverVars
  PROVE  ServerKeeps
<1>1. CASE UNCHANGED serverVars
  <2>1. Inv' /\ Grows
    BY <1>1, StepInv, StillnessGrows DEF QueueInv
  <2> QED
    BY <1>1, <2>1, QuietKeeps DEF serverVars
<1>2. ASSUME NEW i \in TaskItems, CancelItem(i) PROVE ServerKeeps
  <2>1. Inv' /\ Grows /\ UNCHANGED <<fact, receipt>>
    BY <1>2, CancelInv, CancelGrows DEF QueueInv
  <2> QED
    BY <2>1, QuietKeeps
<1>3. ASSUME NEW cmd \in Commands, cmd.event \notin Own, ApplyEvent(cmd) PROVE ServerKeeps
  BY <1>3, ApplyKeeps DEF ApplyEvent
<1>4. ASSUME NEW e \in Sent, NEW timely \in BOOLEAN, Receive(Cmd(e), timely) PROVE ServerKeeps
  <2>1. Cmd(e) \in Commands /\ Cmd(e).event = e
    BY SentAre, CommandsAre DEF QueueInv, InTurn
  <2>2. CASE ApplyEvent(Cmd(e))
    BY <2>1, <2>2, ApplyKeeps DEF ApplyEvent
  <2>3. CASE FileReview(Cmd(e))
    BY <2>1, <2>3, ReviewKeeps
  <2>4. CASE UNCHANGED serverVars
    BY <1>1, <2>4
  <2> QED
    BY <1>4, <2>2, <2>3, <2>4 DEF Receive, Record, Refuse
<1> QED
  BY <1>1, <1>2, <1>3, <1>4
-----------------------------------------------------------------------------
(* The order of the queue. *)

\* The first of some recorded events has the least sequence.
LEMMA FirstIs ==
  ASSUME QueueTypeOK, CommandsKept, NEW S \in SUBSET {e \in Own : Recorded(e)}, S # {}
  PROVE  First(S) \in S /\ \A f \in S : Sequence(First(S)) <= Sequence(f)
<1> DEFINE T == {Sequence(e) : e \in S}
<1>1. T \subseteq Nat /\ T # {}
  BY CommandsAre
<1>2. PICK m \in T : \A k \in T : m <= k
  <2> HIDE DEF T
  <2> QED
    BY <1>1, Least
<1>3. \E e \in S : \A f \in S : Sequence(e) <= Sequence(f)
  BY <1>2
<1> HIDE DEF T
<1> QED
  BY <1>3 DEF First

\* A sequence with a marker is below the next free one.
LEMMA BelowNext ==
  ASSUME QueueTypeOK
  PROVE  /\ NextSequence \in Nat
         /\ \A n \in Sequences : marker[n] # NoEvent => n < NextSequence
<1> DEFINE used == {n \in Sequences : \E m \in Sequences : m >= n /\ marker[m] # NoEvent}
<1>1. Cardinality(Own) \in Nat
  BY OwnAssumption, FS_CardinalityType
<1>2. Sequences \subseteq Nat /\ IsFiniteSet(Sequences)
  BY <1>1, FS_Interval DEF Sequences
<1>3. IsFiniteSet(used) /\ Cardinality(used) \in Nat
  BY <1>2, FS_Subset, FS_CardinalityType
<1>4. NextSequence = Cardinality(used)
  BY DEF NextSequence
<1>5. ASSUME NEW n \in Sequences, marker[n] # NoEvent PROVE n < NextSequence
  <2>1. 0 .. n \subseteq used /\ n \in Nat
    BY <1>1, <1>5 DEF Sequences
  <2>2. Cardinality(0 .. n) = n + 1
    BY <2>1, FS_Interval
  <2>3. Cardinality(0 .. n) <= Cardinality(used)
    <3> HIDE DEF used
    <3> QED
      BY <1>3, <2>1, FS_Subset
  <2> QED
    BY <1>3, <1>4, <2>1, <2>2, <2>3
<1> QED
  BY <1>3, <1>4, <1>5

\* A queue that can be read has one event at each sequence from its head to the last written.
LEMMA QueueIs ==
  ASSUME QueueTypeOK, CommandsKept, Readable
  PROVE  /\ \A e \in items : Sequence(e) \in Nat /\ Sequence(e) < NextSequence
         /\ IsFiniteSet(items) /\ Cardinality(items) \in Nat
         /\ items # {} => /\ Cardinality(items) <= NextSequence - Sequence(Head)
                          /\ Head \in items
                          /\ \A n \in Sequence(Head) .. NextSequence - 1 :
                               \E e \in items : Sequence(e) = n
<1>1. items \in SUBSET {e \in Own : Recorded(e)}
  BY DEF QueueTypeOK, CommandsKept
<1>2. IsFiniteSet(items) /\ Cardinality(items) \in Nat
  BY <1>1, OwnAssumption, FS_Subset, FS_CardinalityType
<1>3. \A e \in items : Sequence(e) \in Sequences /\ Sequence(e) \in Nat
  BY <1>1, CommandsAre
<1>4. \A e \in items : marker[Sequence(e)] = e /\ e # NoEvent
  BY <1>1, OwnAssumption DEF Readable, ReadableWith
<1>5. NextSequence \in Nat /\ \A e \in items : Sequence(e) < NextSequence
  BY <1>3, <1>4, BelowNext
<1>6. ASSUME items # {}
      PROVE  /\ Cardinality(items) <= NextSequence - Sequence(Head)
             /\ Head \in items
             /\ \A n \in Sequence(Head) .. NextSequence - 1 : \E e \in items : Sequence(e) = n
  <2>1. Head \in items /\ \A f \in items : Sequence(Head) <= Sequence(f)
    BY <1>1, <1>6, FirstIs DEF Head
  <2>2. \A n \in Sequence(Head) .. NextSequence - 1 : \E e \in items : Sequence(e) = n
    BY <1>6 DEF Readable, ReadableWith, Head
  <2> DEFINE a == Sequence(Head)
             T == a .. NextSequence - 1
             place == [e \in items |-> Sequence(e)]
  <2>3. a \in Nat /\ a < NextSequence
    BY <1>3, <1>5, <2>1
  <2>4. place \in Injection(items, T)
    <3>1. place \in [items -> T]
      BY <1>3, <1>5, <2>1, <2>3
    <3>2. \A e, f \in items : place[e] = place[f] => e = f
      BY <1>4
    <3> HIDE DEF place, T
    <3>3. DOMAIN place = items
      BY <3>1
    <3> QED
      BY <3>1, <3>2, <3>3 DEF Injection, IsInjective
  <2>5. IsFiniteSet(T) /\ Cardinality(T) = NextSequence - a
    <3>1. a \in Int /\ NextSequence - 1 \in Int /\ ~ (a > NextSequence - 1)
      BY <1>5, <2>3
    <3>2. IsFiniteSet(T) /\ Cardinality(T) = (NextSequence - 1) - a + 1
      BY <3>1, FS_Interval, Zenon
    <3> QED
      BY <1>5, <2>3, <3>2
  <2>6. Cardinality(items) <= Cardinality(T)
    <3> HIDE DEF place, T
    <3> QED
      BY <2>4, <2>5, FS_Injection
  <2> QED
    BY <2>1, <2>2, <2>5, <2>6
<1> QED
  BY <1>2, <1>3, <1>5, <1>6

\* The head of some queued events is in turn if what is ahead of it elsewhere is applied.
LEMMA AcceptedReaches ==
  ASSUME QueueInv, NEW f \in Own, Accepted(f), NEW e \in Own, Recorded(e), Follows(e, f)
  PROVE  Reached(e)
<1>1. f \in Facts /\ fact[f].cmd = Cmd(f) /\ fact[f].rev = Cmd(f).expected + 1
  BY OwnAssumption DEF QueueInv, Inv, FactsKept, Accepted, CommandsKept, FactsCounted, NoReceipt
<1>2. Recorded(f)
  BY DEF QueueInv, CommandsKept, Accepted, NoReceipt
<1>3. Cmd(f).item = Item /\ Cmd(f).run = Cmd(e).run /\ Cmd(e).expected = fact[f].rev
  BY <1>1, <1>2, CommandsAre DEF Follows, QueueInv
<1>4. /\ run[Cmd(f).run] # NoRun /\ fact[f].rev \in 1 .. run[Cmd(f).run].rev
      /\ run[Cmd(f).run].item = Item
  BY <1>1, <1>3 DEF QueueInv, Inv, Numbered, LeftByLast
<1> QED
  BY <1>3, <1>4 DEF Reached

LEMMA HeadInTurn ==
  ASSUME QueueInv, NEW S \in SUBSET items, S # {}, \A e \in items \ S : Accepted(e)
  PROVE  InTurn(First(S))
<1> DEFINE h == First(S)
<1>1. items \subseteq {e \in Own : Recorded(e)}
  BY DEF QueueInv, QueueTypeOK, CommandsKept
<1>2. h \in S /\ \A f \in S : Sequence(h) <= Sequence(f)
  BY <1>1, FirstIs DEF QueueInv
<1>3. h \in Own /\ Recorded(h)
  BY <1>1, <1>2
<1>4. ASSUME NEW f \in items, Sequence(f) < Sequence(h) PROVE Accepted(f)
  <2>1. Sequence(f) \in Nat /\ Sequence(h) \in Nat
    BY <1>1, <1>3, CommandsAre DEF QueueInv
  <2> QED
    BY <1>2, <1>4, <2>1
<1>5. \A f \in command[h].prior : Accepted(f)
  BY <1>3, <1>4 DEF QueueInv, PriorFirst
<1>6. ASSUME Cmd(h).expected > 0 PROVE Reached(h)
  <2>1. Cmd(h).expected # 0
    BY <1>3, <1>6, CommandsAre DEF QueueInv
  <2>2. CASE \E f \in items : Follows(h, f)
    <3>1. PICK f \in items : Follows(h, f)
      BY <2>2
    <3>2. Accepted(f) /\ f \in Own
      BY <1>1, <1>4, <3>1 DEF Follows
    <3> QED
      BY <1>3, <3>1, <3>2, AcceptedReaches
  <2> QED
    BY <1>3, <2>1, <2>2 DEF QueueInv, RunsContinued
<1> QED
  BY <1>3, <1>5, <1>6 DEF InTurn

\* What the pending events predict: there is no run and one begins, or the run has reached
\* what is predicted, or the last pending event takes it there.
LEMMA PredictsIs ==
  ASSUME QueueInv, Readable, NEW t \in Tabs, NEW status, NEW rev \in Nat, NEW r,
         Predicts(t, status, rev, r), NEW type, NextState(status, type) # "none"
  PROVE  IF rev = 0 THEN type = "start"
         ELSE \/ r \in Runs /\ run[r] # NoRun /\ run[r].item = Item /\ rev <= run[r].rev
              \/ \E f \in items : /\ Sequence(f) < NextSequence
                                  /\ Cmd(f).run = r /\ rev = Cmd(f).expected + 1
<1> DEFINE base == seen[t]
           n == Cardinality(items)
           at(k) == CHOOSE e \in items : Sequence(e) = Sequence(Head) + k - 1
           pending(k) == Cmd(at(k))
           next(s, k) == IF k = 0 THEN base.status ELSE NextState(s[k - 1], pending(k).type)
           state == CHOOSE s : s = [k \in 0 .. n |-> next(s, k)]
<1>1. /\ base.status # "gone"
      /\ \A k \in 1 .. n : pending(k).expected = base.rev + k - 1
      /\ \A k \in 1 .. n : base.status # "scheduled" => pending(k).run = base.run
      /\ \A j, k \in 1 .. n : pending(j).run = pending(k).run
      /\ status = state[n]
      /\ rev = base.rev + n
      /\ base.status # "scheduled" => r = base.run
      /\ base.status = "scheduled" /\ n > 0 => r = pending(1).run
  BY DEF Predicts, Cmd
<1>2. Sighted(base) /\ base.status \in States
  BY <1>1 DEF QueueInv, SeenBefore, Sighted
<1>3. n \in Nat /\ IsFiniteSet(items)
  BY QueueIs DEF QueueInv
<1>4. base.status # "scheduled" => /\ r \in Runs /\ run[r] # NoRun /\ run[r].item = Item
                                   /\ base.rev \in 1 .. run[r].rev /\ base.rev \in Nat
  BY <1>1, <1>2 DEF Sighted
<1>5. base.status = "scheduled" => base.rev = 0
  BY <1>2 DEF Sighted
<1>6. CASE n = 0
  <2>1. state[0] = base.status
    <3> DEFINE w == [k \in 0 .. n |-> base.status]
    <3>1. w = [k \in 0 .. n |-> next(w, k)]
      BY <1>6
    <3>2. state = [k \in 0 .. n |-> next(state, k)]
      <4> HIDE DEF w, next
      <4> QED
        BY <3>1
    <3> HIDE DEF state
    <3> QED
      BY <1>6, <3>2
  <2>2. status = base.status /\ rev = base.rev
    <3> HIDE DEF state
    <3> QED
      BY <1>1, <1>4, <1>5, <1>6, <2>1
  <2>3. CASE rev = 0
    BY <1>4, <1>5, <2>2, <2>3 DEF NextState
  <2>4. CASE rev # 0
    BY <1>4, <1>5, <2>2, <2>4
  <2> QED
    BY <2>3, <2>4
<1>7. CASE n > 0
  <2>1. items # {}
    BY <1>3, <1>7, FS_EmptySet
  <2>2. Cardinality(items) <= NextSequence - Sequence(Head) /\ Sequence(Head) \in Nat
        /\ NextSequence \in Nat
    BY <2>1, QueueIs, BelowNext DEF QueueInv
  <2>3. Sequence(Head) + n - 1 \in Sequence(Head) .. NextSequence - 1
    BY <1>3, <1>7, <2>2
  <2>4. at(n) \in items /\ Sequence(at(n)) < NextSequence
    BY <2>1, <2>3, QueueIs DEF QueueInv
  <2>5. 1 \in 1 .. n /\ n \in 1 .. n
    BY <1>3, <1>7
  <2>6. pending(n).run = r
    <3> HIDE DEF pending, state
    <3> QED
      BY <1>1, <1>7, <2>5
  <2>7. base.rev \in Nat
    BY <1>4, <1>5
  <2>8. rev = pending(n).expected + 1 /\ rev # 0
    <3> HIDE DEF pending, state
    <3> QED
      BY <1>1, <1>3, <1>7, <2>5, <2>7
  <2> QED
    BY <2>4, <2>6, <2>8
<1> QED
  BY <1>3, <1>6, <1>7

LEMMA ServerRunIs ==
  ASSUME Inv
  PROVE  /\ Sighted(ServerRun) /\ Sighted(NothingSeen)
         /\ ServerRun \in Sights /\ NothingSeen \in Sights
<1>1. Sighted(NothingSeen) /\ NothingSeen \in Sights
  BY DEF Sighted, NothingSeen, Sights
<1>2. CASE Item \notin cancelled /\ RunsOf(Item) # {}
  <2> DEFINE r == CHOOSE r \in RunsOf(Item) : TRUE
  <2>1. r \in Runs /\ run[r] # NoRun /\ run[r].item = Item
    BY <1>2 DEF RunsOf
  <2>2. run[r] \in RunRecords /\ run[r].rev >= 1
    BY <2>1 DEF Inv, ServerTypeOK, Numbered
  <2>3. run[r].rev \in 1 .. run[r].rev /\ run[r].status \in States /\ run[r].rev \in Nat
    BY <2>2 DEF RunRecords
  <2>4. ServerRun = [status |-> run[r].status, rev |-> run[r].rev, run |-> r]
    BY <1>2 DEF ServerRun
  <2> HIDE DEF r
  <2>5. /\ ServerRun.status = run[r].status /\ ServerRun.rev = run[r].rev /\ ServerRun.run = r
    BY <2>4
  <2>6. run[r].status # "scheduled"
    BY <2>1 DEF Inv, RunsTimed
  <2> QED
    BY <1>1, <2>1, <2>3, <2>4, <2>5, <2>6 DEF Sighted, Sights
<1>3. CASE Item \notin cancelled /\ RunsOf(Item) = {}
  BY <1>1, <1>3 DEF Sighted, ServerRun, States, Active, Sights
<1>4. CASE Item \in cancelled
  BY <1>1, <1>4 DEF ServerRun
<1> QED
  BY <1>2, <1>3, <1>4

-----------------------------------------------------------------------------
(* What a step leaves of the invariant, whatever the queue does in it. *)

\* What is in turn, what a tab is at and what was seen stay so, if no more than applied
\* events leave the queue.
LEMMA StandKept ==
  ASSUME QueueInv, ServerKeeps, command' = command,
         \A e \in items : e \in items' \/ Accepted(e)
  PROVE  /\ \A e : InTurn(e) => InTurn(e)'
         /\ \A x \in EntryTypes : Stands(x) => Stands(x)'
         /\ \A s : Sighted(s) => Sighted(s)'
<1>1. \A e : Recorded(e) <=> Recorded(e)'
  BY DEF Recorded
<1>2. ASSUME NEW e, InTurn(e) PROVE InTurn(e)'
  <2>1. e \in Own /\ Recorded(e) /\ command[e].prior \subseteq Own
    BY <1>2, CommandsAre DEF InTurn, QueueInv
  <2>2. \A f \in command[e].prior : Accepted(f)'
    BY <1>2, <2>1 DEF InTurn, ServerKeeps
  <2>3. Cmd(e).expected > 0 => Reached(e)'
    BY <1>2, <2>1 DEF InTurn, ServerKeeps
  <2>4. /\ e \in Own /\ Recorded(e)'
        /\ \A f \in command'[e].prior : Accepted(f)'
        /\ command'[e].cmd.expected > 0 => Reached(e)'
    BY <1>1, <2>1, <2>2, <2>3 DEF Cmd
  <2> HIDE DEF Recorded
  <2> QED
    BY <2>4 DEF InTurn, Cmd
<1>3. ASSUME NEW x \in EntryTypes, Stands(x) PROVE Stands(x)'
  <2>1. x.at # "idle" => x.event \in Own /\ Recorded(x.event)
    BY <1>3 DEF Stands, EntryTypes
  <2>2. x.verdict # "none" => x.at # "idle"
    BY <1>3 DEF Stands
  <2>3. x.at = "waiting" => InTurn(x.event)'
    BY <1>2, <1>3 DEF Stands
  <2>4. /\ x.verdict = "applied" => Accepted(x.event)'
        /\ x.verdict = "review" => Filed(x.event)'
        /\ x.verdict = "conflict" => Doomed(x.event)'
    BY <1>3, <2>1, <2>2 DEF Stands, ServerKeeps
  <2>5. x.at = "meta" => x.event \in items' \/ Accepted(x.event)'
    BY <1>3, <2>1 DEF Stands, ServerKeeps
  <2>6. x.at # "idle" => Recorded(x.event)'
    BY <1>1, <2>1
  <2>7. /\ x.event = NoEvent <=> x.at = "idle"
        /\ x.verdict = "none" <=> x.at \notin {"handled", "removing", "closing"}
        /\ x.at = "removing" => x.verdict = "applied"
        /\ x.at = "closing" => x.verdict \in {"review", "conflict"}
        /\ x.verdict # "reuse"
    BY <1>3 DEF Stands
  <2> QED
    BY <2>3, <2>4, <2>5, <2>6, <2>7 DEF Stands
<1>4. ASSUME NEW s, Sighted(s) PROVE Sighted(s)'
  <2>1. CASE s.status \notin {"gone", "scheduled"}
    <3>1. s.run \in Runs /\ run[s.run] # NoRun /\ run[s.run].item = Item
          /\ s.rev \in 1 .. run[s.run].rev
      BY <1>4, <2>1 DEF Sighted
    <3>2. run[s.run].rev \in Nat /\ run'[s.run].rev \in Nat
          /\ run'[s.run] # NoRun /\ run'[s.run].item = Item
          /\ run[s.run].rev <= run'[s.run].rev
      BY <3>1 DEF ServerKeeps, Grows, QueueInv, Inv, ServerTypeOK, RunRecords
    <3>3. s.rev \in 1 .. run'[s.run].rev
      BY <3>1, <3>2
    <3> QED
      BY <1>4, <3>1, <3>2, <3>3 DEF Sighted
  <2>2. CASE s.status \in {"gone", "scheduled"}
    BY <1>4, <2>2 DEF Sighted
  <2> QED
    BY <2>1, <2>2
<1> QED
  BY <1>2, <1>3, <1>4

\* What an event waits for is still ahead of it or has been applied.
LEMMA OrderKept ==
  ASSUME QueueInv, ServerKeeps, command' = command,
         \A e \in items : e \in items' \/ Accepted(e)
  PROVE  PriorFirst' /\ RunsContinued'
<1>1. items \subseteq Own
  BY DEF QueueInv, QueueTypeOK
<1>2. \A e \in Own : Accepted(e) => Accepted(e)'
  BY DEF ServerKeeps
<1>3. ASSUME NEW e \in Own, NEW f \in command[e].prior
      PROVE  Accepted(f)' \/ (f \in items' /\ Sequence(f) < Sequence(e))
  <2>1. Accepted(f) \/ (f \in items /\ Sequence(f) < Sequence(e))
    BY DEF QueueInv, PriorFirst
  <2>2. f \in Own
    BY CommandsAre DEF QueueInv, Recorded, NoCommand
  <2> QED
    BY <1>2, <2>1, <2>2
<1>4. PriorFirst'
  BY <1>3 DEF PriorFirst, Sequence
<1>5. ASSUME NEW e \in Own, Recorded(e), Cmd(e).expected # 0
      PROVE  Reached(e)' \/ \E f \in items' : Follows(e, f)
  <2>1. CASE Reached(e)
    BY <1>5, <2>1 DEF ServerKeeps
  <2>2. ASSUME NEW f \in items, Follows(e, f)
        PROVE  Reached(e)' \/ \E g \in items' : Follows(e, g)
    <3>1. CASE Accepted(f)
      BY <1>1, <1>5, <2>1, <2>2, <3>1, AcceptedReaches
    <3> QED
      BY <2>2, <3>1
  <2> QED
    BY <1>5, <2>1, <2>2 DEF QueueInv, RunsContinued
<1>6. RunsContinued'
  <2> SUFFICES ASSUME NEW e \in Own, Recorded(e)'
               PROVE  IF Cmd(e)'.expected = 0 THEN Cmd(e)'.type = "start"
                      ELSE Reached(e)' \/ \E f \in items' : Follows(e, f)'
    BY DEF RunsContinued
  <2>1. Recorded(e) /\ Cmd(e)' = Cmd(e) /\ \A f : Follows(e, f)' <=> Follows(e, f)
    BY DEF Recorded, Cmd, Follows, Sequence
  <2>2. CASE Cmd(e).expected = 0
    BY <2>1, <2>2 DEF QueueInv, RunsContinued
  <2> QED
    BY <1>5, <2>1, <2>2
<1> QED
  BY <1>4, <1>6

\* One tab goes on, and what it comes to stands.
Enters(t, x) == x \in EntryTypes /\ Stands(x)' /\ tab' = [tab EXCEPT ![t] = x]

\* A step that writes nothing false keeps the invariant.
LEMMA QueueKeeps ==
  ASSUME QueueInv, ServerKeeps, command' = command,
         marker' \in [Sequences -> Own \cup {NoEvent}],
         items' \subseteq {e \in Own : Recorded(e)},
         \A e \in items : e \in items' \/ Accepted(e),
         terminal' \in [Own -> {"none", "conflict", "review"}],
         \A e \in Own : \/ terminal'[e] \in {"none", terminal[e]}
                        \/ terminal'[e] = "conflict" /\ Recorded(e) /\ Doomed(e)
                        \/ terminal'[e] = "review" /\ Recorded(e) /\ Filed(e),
         told' \in [Own -> {"none", "ok", "failed"}],
         \A e \in Own : told'[e] = "ok" => told[e] = "ok" \/ e \in items \/ Accepted(e),
         tab' = tab \/ \E t \in Tabs, x \in EntryTypes : Enters(t, x),
         seen' \in [Tabs -> Sights], \A s \in {seen'[t] : t \in Tabs} : Sighted(s),
         \A e \in stray' : InTurn(e)
  PROVE  QueueInv'
<1>1. /\ \A e : InTurn(e) => InTurn(e)'
      /\ \A x \in EntryTypes : Stands(x) => Stands(x)'
      /\ \A s : Sighted(s) => Sighted(s)'
  BY StandKept
<1>2. tab \in [Tabs -> EntryTypes] /\ tab' \in [Tabs -> EntryTypes]
  BY DEF QueueInv, QueueTypeOK, EntryTypes, Enters
<1>3. TabsStand'
  <2>1. \A x \in Entries : x \in EntryTypes /\ Stands(x)'
    BY <1>1, <1>2 DEF QueueInv, TabsStand, Entries
  <2>2. CASE tab' = tab
    BY <2>1, <2>2 DEF TabsStand, Entries
  <2>3. ASSUME NEW t \in Tabs, NEW y \in EntryTypes, Enters(t, y) PROVE TabsStand'
    <3>1. \A x \in Entries' : x \in Entries \/ x = y
      BY <1>2, <2>3 DEF Enters, Entries
    <3> QED
      BY <2>1, <2>3, <3>1 DEF TabsStand, Enters
  <2> QED
    BY <2>2, <2>3
<1>4. SeenBefore' /\ \A e \in stray' : InTurn(e)'
  BY <1>1 DEF SeenBefore
<1>5. PriorFirst' /\ RunsContinued'
  BY OrderKept
<1>6. /\ Inv' /\ FactsCounted' /\ InOrder'
      /\ \A e \in Own : receipt'[e] # NoReceipt => Recorded(e) /\ receipt'[e].cmd = Cmd(e)
      /\ \A e \in Own : Accepted(e) => Accepted(e)'
      /\ \A e \in Own : Filed(e) => Filed(e)'
      /\ \A e \in Own : Recorded(e) /\ Doomed(e) => Doomed(e)'
  BY DEF ServerKeeps
<1>7. \A e : (Recorded(e)' <=> Recorded(e)) /\ Cmd(e)' = Cmd(e)
  BY DEF Recorded, Cmd
<1>8. CommandsKept'
  BY <1>6, <1>7 DEF QueueInv, CommandsKept
<1>9. NothingLost'
  BY <1>6 DEF QueueInv, NothingLost
<1>10. VerdictsStand'
  <2> SUFFICES ASSUME NEW e \in Own
               PROVE  /\ terminal'[e] # "none" => Recorded(e)'
                      /\ terminal'[e] = "conflict" => Doomed(e)'
                      /\ terminal'[e] = "review" => Filed(e)'
    BY DEF VerdictsStand
  <2>1. /\ terminal[e] # "none" => Recorded(e)
        /\ terminal[e] = "conflict" => Doomed(e)
        /\ terminal[e] = "review" => Filed(e)
    BY DEF QueueInv, VerdictsStand
  <2>2. /\ terminal'[e] # "none" => Recorded(e)
        /\ terminal'[e] = "conflict" => Recorded(e) /\ Doomed(e)
        /\ terminal'[e] = "review" => Filed(e)
    BY <2>1
  <2> QED
    BY <1>6, <1>7, <2>2
<1>11. QueueTypeOK'
  <2>1. ServerTypeOK'
    BY <1>6 DEF Inv
  <2>2. items' \subseteq Own /\ stray' \subseteq Own
    BY DEF InTurn
  <2>3. \A t \in Tabs : /\ tab'[t].event = NoEvent <=> tab'[t].at = "idle"
                        /\ tab'[t].verdict = "none"
                             <=> tab'[t].at \notin {"handled", "removing", "closing"}
    BY <1>3 DEF TabsStand, Entries, Stands
  <2>4. command' \in [Own -> [sequence : Sequences, prior : SUBSET Own, cmd : Commands]
                                \cup {NoCommand}]
    BY DEF QueueInv, QueueTypeOK
  <2> QED
    BY <1>2, <2>1, <2>2, <2>3, <2>4 DEF QueueTypeOK, EntryTypes
<1> QED
  BY <1>3, <1>4, <1>5, <1>6, <1>8, <1>9, <1>10, <1>11 DEF QueueInv

\* The same for a step that writes nothing at all.
LEMMA TabKeeps ==
  ASSUME QueueInv, ServerKeeps, UNCHANGED <<storageVars, command, told>>,
         tab' = tab \/ \E t \in Tabs, x \in EntryTypes : Enters(t, x),
         seen' \in [Tabs -> Sights], \A s \in {seen'[t] : t \in Tabs} : Sighted(s),
         \A e \in stray' : InTurn(e)
  PROVE  QueueInv'
<1>1. /\ command' = command /\ marker' = marker /\ items' = items
      /\ terminal' = terminal /\ told' = told
  BY DEF storageVars
<1>2. /\ marker \in [Sequences -> Own \cup {NoEvent}]
      /\ terminal \in [Own -> {"none", "conflict", "review"}]
      /\ told \in [Own -> {"none", "ok", "failed"}]
      /\ items \subseteq {e \in Own : Recorded(e)}
  BY DEF QueueInv, QueueTypeOK, CommandsKept
<1> QED
  BY <1>1, <1>2, QueueKeeps

\* A tab at rest stands.
LEMMA IdleStands == Idle \in EntryTypes /\ Stands(Idle)'
BY DEF Idle, EntryTypes, Stands

\* The entry of a tab, and what its place in its work says of its event.
LEMMA EntryIs ==
  ASSUME QueueInv, NEW t \in Tabs
  PROVE  /\ tab[t] \in EntryTypes /\ Stands(tab[t]) /\ tab \in [Tabs -> EntryTypes]
         /\ tab[t].at # "idle" => tab[t].event \in Own /\ Recorded(tab[t].event)
<1>1. tab[t] \in EntryTypes /\ Stands(tab[t]) /\ tab \in [Tabs -> EntryTypes]
  BY DEF QueueInv, TabsStand, Entries, QueueTypeOK, EntryTypes
<1> QED
  BY <1>1 DEF Stands, EntryTypes

\* When the server is left alone.
LEMMA StillKeeps ==
  ASSUME QueueInv, UNCHANGED <<serverVars, command>>
  PROVE  /\ ServerKeeps
         /\ \A e : Recorded(e)' = Recorded(e) /\ Accepted(e)' = Accepted(e)
         /\ seen' = seen => /\ seen' \in [Tabs -> Sights]
                            /\ \A s \in {seen'[t] : t \in Tabs} : Sighted(s)
         /\ stray' = stray => \A e \in stray' : InTurn(e)
<1>1. ServerKeeps
  BY ServerStepKeeps
<1> QED
  BY <1>1 DEF serverVars, Recorded, Accepted, QueueInv, QueueTypeOK, SeenBefore

-----------------------------------------------------------------------------
(* What a tab comes to. *)

LEMMA RestsEnters ==
  ASSUME NEW t \in Tabs, Rests(t)
  PROVE  \E s \in Tabs, x \in EntryTypes : Enters(s, x)
BY IdleStands DEF Rests, Enters

LEMMA GoesTo ==
  ASSUME QueueInv, NEW t \in Tabs, tab[t].at # "idle", NEW stage, Goes(t, stage),
         stage \in {"item", "meta", "removing", "closing"}
  PROVE  \E x \in EntryTypes :
           /\ x.at = stage /\ x.event = tab[t].event /\ x.verdict = tab[t].verdict
           /\ tab' = [tab EXCEPT ![t] = x]
<1> DEFINE x == [tab[t] EXCEPT !.at = stage]
<1>1. tab[t] \in EntryTypes
  BY EntryIs
<1>2. x \in EntryTypes /\ x.at = stage /\ x.event = tab[t].event /\ x.verdict = tab[t].verdict
  BY <1>1 DEF EntryTypes
<1>3. tab' = [tab EXCEPT ![t] = x]
  BY DEF Goes
<1> QED
  BY <1>2, <1>3

\* A tab that waits for an event in turn stands.
LEMMA WaitsFor ==
  ASSUME NEW e, InTurn(e)'
  PROVE  /\ [Idle EXCEPT !.at = "waiting", !.event = e] \in EntryTypes
         /\ Stands([Idle EXCEPT !.at = "waiting", !.event = e])'
<1> DEFINE x == [Idle EXCEPT !.at = "waiting", !.event = e]
<1>1. e \in Own /\ e # NoEvent /\ Recorded(e)'
  BY OwnAssumption DEF InTurn
<1>2. x \in EntryTypes /\ x.at = "waiting" /\ x.event = e /\ x.verdict = "none"
  BY <1>1 DEF Idle, EntryTypes
<1> HIDE DEF x
<1>3. Stands(x)'
  BY <1>1, <1>2 DEF Stands
<1> QED
  BY <1>2, <1>3 DEF x

\* The loop goes on with the head of what is left, or ends.
LEMMA LoopEnters ==
  ASSUME QueueInv, ServerKeeps, command' = command, \A e \in items : e \in items' \/ Accepted(e),
         NEW t \in Tabs, NEW S \in SUBSET items, \A e \in items \ S : Accepted(e), LoopOn(t, S)
  PROVE  \E s \in Tabs, x \in EntryTypes : Enters(s, x)
<1>1. CASE S = {}
  BY <1>1, RestsEnters DEF LoopOn
<1>2. CASE S # {}
  <2>1. PICK e : e = First(S)
    OBVIOUS
  <2>2. InTurn(e)'
    BY <1>2, <2>1, HeadInTurn, StandKept
  <2>3. tab' = [tab EXCEPT ![t] = [Idle EXCEPT !.at = "waiting", !.event = e]]
    BY <1>2, <2>1 DEF LoopOn
  <2> QED
    BY <2>2, <2>3, WaitsFor DEF Enters
<1> QED
  BY <1>1, <1>2

\* The server stands by the verdict on an event in turn.
LEMMA VerdictIs ==
  ASSUME QueueInv, ServerKeeps, command' = command, NEW e, InTurn(e), NEW timely \in BOOLEAN,
         Receive(Cmd(e), timely)
  PROVE  /\ Verdict(Cmd(e), timely) \in Verdicts \ {"reuse"}
         /\ Verdict(Cmd(e), timely) = "applied" => Accepted(e)'
         /\ Verdict(Cmd(e), timely) = "review" => Filed(e)'
         /\ Verdict(Cmd(e), timely) = "conflict" => Doomed(e)'
<1> DEFINE v == Verdict(Cmd(e), timely)
<1>1. PICK c \in Commands : /\ c = Cmd(e) /\ c.event = e /\ c.item = Item
                            /\ c.expected \in Nat /\ e \in Own /\ e \in Events /\ Recorded(e)
  BY CommandsAre DEF QueueInv, InTurn
<1>2. CASE Known(c)
  <2>1. receipt[e] # NoReceipt /\ receipt[e] \in ReceiptRecords /\ receipt[e].cmd = c
    BY <1>1, <1>2 DEF Known, QueueInv, CommandsKept, Inv, ServerTypeOK
  <2>2. v = Replayed(c)
    BY <1>1, <1>2 DEF Verdict
  <2>3. receipt[e].kind \in {"accepted", "review"}
    BY <2>1 DEF ReceiptRecords
  <2>4. \/ receipt[e].kind = "review" /\ v = "review"
        \/ receipt[e].kind = "accepted" /\ v \in {"applied", "integrity"}
    BY <1>1, <2>1, <2>2, <2>3 DEF Replayed
  <2>5. /\ receipt[e].kind = "review" => Filed(e)'
        /\ receipt[e].kind = "accepted" => Accepted(e)'
    BY <1>1 DEF ServerKeeps, Filed, Accepted
  <2> HIDE DEF v
  <2>6. /\ v \in Verdicts \ {"reuse"}
        /\ v = "applied" => Accepted(e)'
        /\ v = "review" => Filed(e)'
        /\ v = "conflict" => Doomed(e)'
    BY <2>4, <2>5 DEF Verdicts
  <2> QED
    BY <2>6 DEF v
<1>3. CASE ~ Known(c) /\ (~ Admissible(c) \/ (timely /\ ~ Applicable(c)))
  <2>1. v = "conflict"
    BY <1>1, <1>3 DEF Verdict
  <2>2. ~ Accepted(e)
    BY <1>1, <1>3 DEF Known, Accepted, NoReceipt
  <2>3. /\ c.expected = 0 => c.type = "start"
        /\ c.expected > 0 => /\ run[c.run] # NoRun /\ run[c.run].item = c.item
                             /\ c.expected <= run[c.run].rev
    BY <1>1 DEF QueueInv, RunsContinued, InTurn, Reached
  <2>4. Hopeless(c)
    BY <1>3, <2>3, RefusedIsHopeless DEF QueueInv
  <2>5. Doomed(e)'
    BY <1>1, <2>2, <2>4 DEF ServerKeeps, Doomed
  <2> HIDE DEF v
  <2>6. /\ v \in Verdicts \ {"reuse"}
        /\ v = "applied" => Accepted(e)'
        /\ v = "review" => Filed(e)'
        /\ v = "conflict" => Doomed(e)'
    BY <2>1, <2>5 DEF Verdicts
  <2> QED
    BY <2>6 DEF v
<1>4. CASE ~ Known(c) /\ Admissible(c) /\ ~ timely
  <2>1. v = "review"
    BY <1>1, <1>4 DEF Verdict
  <2>2. FileReview(c)
    BY <1>1, <1>4 DEF Receive, Record, Refuse
  <2>3. Filed(e)'
    BY <1>1, <2>2, ReviewGrows DEF Filed, QueueInv
  <2> HIDE DEF v
  <2>4. /\ v \in Verdicts \ {"reuse"}
        /\ v = "applied" => Accepted(e)'
        /\ v = "review" => Filed(e)'
        /\ v = "conflict" => Doomed(e)'
    BY <2>1, <2>3 DEF Verdicts
  <2> QED
    BY <2>4 DEF v
<1>5. CASE ~ Known(c) /\ Admissible(c) /\ timely /\ Applicable(c)
  <2>1. v = "applied"
    BY <1>1, <1>5 DEF Verdict
  <2>2. Apply(c, TRUE)
    BY <1>1, <1>5 DEF Receive, Record, Refuse, ApplyEvent
  <2>3. Accepted(e)'
    BY <1>1, <2>2, ApplyGrows DEF Accepted, QueueInv
  <2> HIDE DEF v
  <2>4. /\ v \in Verdicts \ {"reuse"}
        /\ v = "applied" => Accepted(e)'
        /\ v = "review" => Filed(e)'
        /\ v = "conflict" => Doomed(e)'
    BY <2>1, <2>3 DEF Verdicts
  <2> QED
    BY <2>4 DEF v
<1> QED
  BY <1>2, <1>3, <1>4, <1>5

-----------------------------------------------------------------------------
(* The steps of a tab. *)

LEMMA SightTaken ==
  ASSUME QueueInv, NEW t \in Tabs, NEW s \in {ServerRun, NothingSeen},
         seen' = [seen EXCEPT ![t] = s]
  PROVE  seen' \in [Tabs -> Sights] /\ \A r \in {seen'[x] : x \in Tabs} : Sighted(r)
<1>1. Sighted(s) /\ s \in Sights
  BY ServerRunIs DEF QueueInv
<1>2. seen \in [Tabs -> Sights] /\ \A x \in Tabs : Sighted(seen[x])
  BY DEF QueueInv, QueueTypeOK, SeenBefore
<1>3. \A x \in Tabs : seen'[x] = s \/ seen'[x] = seen[x]
  BY <1>2
<1>4. \A x \in Tabs : Sighted(seen'[x])
  BY <1>1, <1>2, <1>3
<1> QED
  BY <1>1, <1>2, <1>4

LEMMA RefreshKeeps ==
  ASSUME QueueInv, NEW t \in Tabs, Refresh(t)
  PROVE  QueueInv'
<1>1. UNCHANGED <<serverVars, storageVars, command, told, tab, stray>>
  BY DEF Refresh
<1>2. seen' \in [Tabs -> Sights] /\ \A s \in {seen'[x] : x \in Tabs} : Sighted(s)
  BY SightTaken DEF Refresh, QueueInv
<1> QED
  BY <1>1, <1>2, StillKeeps, TabKeeps DEF QueueInv

LEMMA WriteMarkerKeeps ==
  ASSUME QueueInv, NEW t \in Tabs, WriteMarker(t)
  PROVE  QueueInv'
<1>1. /\ UNCHANGED <<serverVars, command>> /\ seen' = seen /\ stray' = stray
      /\ items' = items /\ terminal' = terminal /\ told' = told
      /\ tab[t].at = "mark" /\ Goes(t, "item")
      /\ marker' = [marker EXCEPT ![Sequence(tab[t].event)] = tab[t].event]
  BY DEF WriteMarker
<1>2. tab[t].event \in Own /\ Recorded(tab[t].event) /\ Stands(tab[t])
  BY <1>1, EntryIs
<1>3. PICK x \in EntryTypes : /\ x.at = "item" /\ x.event = tab[t].event
                              /\ x.verdict = tab[t].verdict /\ tab' = [tab EXCEPT ![t] = x]
  BY <1>1, GoesTo
<1>4. Stands(x)'
  BY <1>1, <1>2, <1>3, StillKeeps DEF Stands
<1>5. marker' \in [Sequences -> Own \cup {NoEvent}]
  BY <1>1, <1>2 DEF QueueInv, QueueTypeOK
<1>6. /\ terminal \in [Own -> {"none", "conflict", "review"}]
      /\ told \in [Own -> {"none", "ok", "failed"}]
      /\ items \subseteq {e \in Own : Recorded(e)}
  BY DEF QueueInv, QueueTypeOK, CommandsKept
<1> QED
  BY <1>1, <1>3, <1>4, <1>5, <1>6, StillKeeps, QueueKeeps DEF Enters

LEMMA WriteItemKeeps ==
  ASSUME QueueInv, NEW t \in Tabs, WriteItem(t)
  PROVE  QueueInv'
<1>1. /\ UNCHANGED <<serverVars, command>> /\ seen' = seen /\ stray' = stray
      /\ marker' = marker /\ terminal' = terminal /\ told' = told
      /\ tab[t].at = "item" /\ Goes(t, "meta") /\ items' = items \cup {tab[t].event}
  BY DEF WriteItem
<1>2. tab[t].event \in Own /\ Recorded(tab[t].event) /\ Stands(tab[t])
  BY <1>1, EntryIs
<1>3. PICK x \in EntryTypes : /\ x.at = "meta" /\ x.event = tab[t].event
                              /\ x.verdict = tab[t].verdict /\ tab' = [tab EXCEPT ![t] = x]
  BY <1>1, GoesTo
<1>4. Stands(x)'
  BY <1>1, <1>2, <1>3, StillKeeps DEF Stands
<1>5. /\ terminal \in [Own -> {"none", "conflict", "review"}]
      /\ told \in [Own -> {"none", "ok", "failed"}]
      /\ marker \in [Sequences -> Own \cup {NoEvent}]
      /\ items \subseteq {e \in Own : Recorded(e)}
  BY DEF QueueInv, QueueTypeOK, CommandsKept
<1>6. items' \subseteq {e \in Own : Recorded(e)} /\ \A e \in items : e \in items'
  BY <1>1, <1>2, <1>5
<1> QED
  BY <1>1, <1>3, <1>4, <1>5, <1>6, StillKeeps, QueueKeeps DEF Enters

\* What is confirmed was written, and is in the queue or applied.
LEMMA WriteMetaKeeps ==
  ASSUME QueueInv, NEW t \in Tabs, WriteMeta(t) \/ EnqueueFails(t)
  PROVE  QueueInv'
<1>1. /\ UNCHANGED <<serverVars, command>> /\ seen' = seen /\ stray' = stray
      /\ marker' = marker /\ terminal' = terminal /\ items' = items /\ Rests(t)
      /\ \E answer \in {"ok", "failed"} :
           /\ told' = [told EXCEPT ![tab[t].event] = answer]
           /\ answer = "ok" => tab[t].at = "meta"
  BY DEF WriteMeta, EnqueueFails, storageVars
<1>2. tab[t].at # "idle"
  BY DEF WriteMeta, EnqueueFails
<1>3. tab[t].event \in Own /\ Stands(tab[t])
  BY <1>2, EntryIs
<1>4. PICK answer \in {"ok", "failed"} : /\ told' = [told EXCEPT ![tab[t].event] = answer]
                                         /\ answer = "ok" => tab[t].at = "meta"
  BY <1>1
<1>5. /\ terminal \in [Own -> {"none", "conflict", "review"}]
      /\ told \in [Own -> {"none", "ok", "failed"}]
      /\ marker \in [Sequences -> Own \cup {NoEvent}]
      /\ items \subseteq {e \in Own : Recorded(e)}
  BY DEF QueueInv, QueueTypeOK, CommandsKept
<1>6. told' \in [Own -> {"none", "ok", "failed"}]
  BY <1>4, <1>5
<1>7. \A e \in Own : told'[e] = "ok" => told[e] = "ok" \/ e \in items \/ Accepted(e)
  BY <1>3, <1>4, <1>5 DEF Stands
<1>8. \E s \in Tabs, x \in EntryTypes : Enters(s, x)
  BY <1>1, RestsEnters
<1> QED
  BY <1>1, <1>5, <1>6, <1>7, <1>8, StillKeeps, QueueKeeps

LEMMA ReplayBeginsKeeps ==
  ASSUME QueueInv, NEW t \in Tabs, ReplayBegins(t)
  PROVE  QueueInv'
<1>1. /\ UNCHANGED <<serverVars, storageVars, command, told, stray>> /\ items # {}
      /\ UNCHANGED <<serverVars, command>>
      /\ tab' = [tab EXCEPT ![t] = [Idle EXCEPT !.at = "waiting", !.event = Head]]
      /\ seen' = [seen EXCEPT ![t] = ServerRun]
  BY DEF ReplayBegins, Replayable
<1>2. seen' \in [Tabs -> Sights] /\ \A s \in {seen'[x] : x \in Tabs} : Sighted(s)
  BY <1>1, SightTaken
<1>3. ServerKeeps
  BY <1>1, StillKeeps
<1>4. PICK e : e = Head
  OBVIOUS
<1>5. InTurn(e)
  BY <1>1, <1>4, HeadInTurn DEF Head
<1>6. InTurn(e)'
  BY <1>1, <1>3, <1>5, StandKept DEF storageVars
<1>7. \E s \in Tabs, x \in EntryTypes : Enters(s, x)
  <2>1. tab' = [tab EXCEPT ![t] = [Idle EXCEPT !.at = "waiting", !.event = e]]
    BY <1>1, <1>4
  <2> QED
    BY <1>6, <2>1, WaitsFor DEF Enters
<1> QED
  BY <1>1, <1>2, <1>3, <1>7, TabKeeps DEF QueueInv

LEMMA ServerHandlesKeeps ==
  ASSUME QueueInv, NEW t \in Tabs, NEW timely \in BOOLEAN, ServerHandles(t, timely)
  PROVE  QueueInv'
<1>1. PICK e : e = tab[t].event
  OBVIOUS
<1>2. PICK v : v = Verdict(Cmd(e), timely)
  OBVIOUS
<1>3. /\ tab[t].at = "waiting" /\ Receive(Cmd(e), timely)
      /\ tab' = [tab EXCEPT ![t].at = "handled", ![t].verdict = v]
      /\ UNCHANGED <<storageVars, command, told, seen, stray>>
  BY <1>1, <1>2 DEF ServerHandles, Cmd
<1>4. tab[t] \in EntryTypes /\ InTurn(e) /\ e \in Own
  BY <1>1, <1>3, EntryIs DEF Stands
<1>5. e \in Sent
  BY <1>1, <1>3 DEF Sent, Entries
<1>6. ServerKeeps
  BY <1>3, <1>5, ServerStepKeeps
<1>7. /\ v \in Verdicts \ {"reuse"}
      /\ v = "applied" => Accepted(e)'
      /\ v = "review" => Filed(e)'
      /\ v = "conflict" => Doomed(e)'
  BY <1>2, <1>3, <1>4, <1>6, VerdictIs
<1>8. PICK x \in EntryTypes : /\ x.at = "handled" /\ x.event = e /\ x.verdict = v
                              /\ tab' = [tab EXCEPT ![t] = x]
  <2> DEFINE y == [tab[t] EXCEPT !.at = "handled", !.verdict = v]
  <2>1. y \in EntryTypes /\ y.at = "handled" /\ y.event = e /\ y.verdict = v
    BY <1>1, <1>4, <1>7 DEF EntryTypes
  <2>2. tab' = [tab EXCEPT ![t] = y]
    BY <1>3
  <2> QED
    BY <2>1, <2>2
<1>9. Recorded(e)' /\ e # NoEvent
  BY <1>3, <1>4, OwnAssumption DEF InTurn, Recorded
<1>10. Stands(x)'
  BY <1>7, <1>8, <1>9 DEF Stands, Verdicts
<1>11. seen' \in [Tabs -> Sights] /\ \A s \in {seen'[y] : y \in Tabs} : Sighted(s)
  BY <1>3 DEF QueueInv, QueueTypeOK, SeenBefore
<1>12. Enters(t, x)
  BY <1>8, <1>10 DEF Enters
<1> QED
  BY <1>3, <1>6, <1>8, <1>11, <1>12, TabKeeps DEF QueueInv

LEMMA StrayArrivesKeeps ==
  ASSUME QueueInv, NEW e \in Own, NEW timely \in BOOLEAN, StrayArrives(e, timely)
  PROVE  QueueInv'
<1>1. /\ e \in stray /\ Receive(Cmd(e), timely) /\ stray' = stray \ {e}
      /\ UNCHANGED <<storageVars, command, told, tab, seen>>
  BY DEF StrayArrives, Cmd
<1>2. ServerKeeps
  BY <1>1, ServerStepKeeps DEF Sent
<1>3. seen' \in [Tabs -> Sights] /\ \A s \in {seen'[y] : y \in Tabs} : Sighted(s)
  BY <1>1 DEF QueueInv, QueueTypeOK, SeenBefore
<1> QED
  BY <1>1, <1>2, <1>3, TabKeeps DEF QueueInv

\* A tab gives up, or dies: the request it waits for may be under way still.
LEMMA LeavesKeeps ==
  ASSUME QueueInv, NEW t \in Tabs, NoAnswer(t) \/ Crash(t)
  PROVE  QueueInv'
<1>1. /\ UNCHANGED <<serverVars, command>> /\ UNCHANGED <<storageVars, command, told>>
      /\ Rests(t)
      /\ seen' \in {seen, [seen EXCEPT ![t] = NothingSeen]}
      /\ stray' = stray \/ (tab[t].at = "waiting" /\ stray' \subseteq stray \cup {tab[t].event})
  BY DEF NoAnswer, Crash
<1>2. ServerKeeps
  BY <1>1, StillKeeps
<1>3. \A e \in stray' : InTurn(e)
  BY <1>1, EntryIs DEF Stands, QueueInv
<1>4. seen' \in [Tabs -> Sights] /\ \A s \in {seen'[y] : y \in Tabs} : Sighted(s)
  <2>1. CASE seen' = seen
    BY <2>1 DEF QueueInv, QueueTypeOK, SeenBefore
  <2>2. CASE seen' = [seen EXCEPT ![t] = NothingSeen]
    BY <2>2, SightTaken
  <2> QED
    BY <1>1, <2>1, <2>2
<1> QED
  BY <1>1, <1>2, <1>3, <1>4, RestsEnters, TabKeeps

LEMMA HeadGoneKeeps ==
  ASSUME QueueInv, NEW t \in Tabs, HeadGone(t)
  PROVE  QueueInv'
<1>1. /\ UNCHANGED <<serverVars, command>> /\ UNCHANGED <<storageVars, command, told>>
      /\ seen' = seen /\ stray' = stray /\ LoopOn(t, items)
  BY DEF HeadGone
<1>2. ServerKeeps
  BY <1>1, StillKeeps
<1>3. \E s \in Tabs, x \in EntryTypes : Enters(s, x)
  BY <1>1, <1>2, LoopEnters DEF storageVars
<1> QED
  BY <1>1, <1>2, <1>3, StillKeeps, TabKeeps

LEMMA ReloadKeeps ==
  ASSUME QueueInv, NEW t \in Tabs, Reload(t) \/ GiveUp(t)
  PROVE  QueueInv'
<1>1. /\ UNCHANGED <<serverVars, command>> /\ UNCHANGED <<storageVars, command, told>>
      /\ seen' = seen /\ stray' = stray /\ tab[t].at = "handled"
      /\ \/ Rests(t)
         \/ /\ tab[t].verdict # "integrity"
            /\ \/ tab[t].verdict = "applied" /\ Goes(t, "removing")
               \/ tab[t].verdict # "applied" /\ Goes(t, "closing")
  BY DEF Reload, GiveUp, Answered, Disposes
<1>2. ServerKeeps
  BY <1>1, StillKeeps
<1>3. tab[t] \in EntryTypes /\ Stands(tab[t]) /\ tab[t].event \in Own
  BY <1>1, EntryIs
<1>4. tab[t].verdict \in {"applied", "review", "conflict", "integrity"}
  BY <1>1, <1>3 DEF Stands, EntryTypes, Verdicts
<1>5. \E s \in Tabs, x \in EntryTypes : Enters(s, x)
  <2>1. CASE Rests(t)
    BY <2>1, RestsEnters
  <2>2. ASSUME NEW stage, Goes(t, stage), tab[t].verdict # "integrity",
               \/ stage = "removing" /\ tab[t].verdict = "applied"
               \/ stage = "closing" /\ tab[t].verdict # "applied"
        PROVE  \E s \in Tabs, x \in EntryTypes : Enters(s, x)
    <3>1. PICK x \in EntryTypes : /\ x.at = stage /\ x.event = tab[t].event
                                  /\ x.verdict = tab[t].verdict /\ tab' = [tab EXCEPT ![t] = x]
      BY <1>1, <2>2, GoesTo
    <3>2. PICK y \in EntryTypes : y = tab[t]
      BY <1>3
    <3>3. Stands(y)'
      BY <1>1, <1>2, <1>3, <3>2, StandKept DEF storageVars
    <3>4. Stands(x)'
      BY <1>1, <1>4, <2>2, <3>1, <3>2, <3>3 DEF Stands
    <3> QED
      BY <3>1, <3>4 DEF Enters
  <2> QED
    BY <1>1, <2>1, <2>2
<1> QED
  BY <1>1, <1>2, <1>5, StillKeeps, TabKeeps

LEMMA RemoveKeeps ==
  ASSUME QueueInv, NEW t \in Tabs, Remove(t)
  PROVE  QueueInv'
<1>1. PICK e : e = tab[t].event
  OBVIOUS
<1>2. /\ UNCHANGED <<serverVars, command>> /\ command' = command
      /\ seen' = seen /\ stray' = stray /\ marker' = marker /\ told' = told
      /\ tab[t].at = "removing" /\ items' = items \ {e}
      /\ terminal' = [terminal EXCEPT ![e] = "none"]
      /\ LoopOn(t, items \ {e}) \/ Rests(t)
  BY <1>1 DEF Remove
<1>3. Accepted(e)
  BY <1>1, <1>2, EntryIs DEF Stands
<1>4. ServerKeeps
  BY <1>2, StillKeeps
<1>5. \A x \in items : x \in items' \/ Accepted(x)
  BY <1>2, <1>3
<1>6. \E s \in Tabs, x \in EntryTypes : Enters(s, x)
  <2>1. CASE Rests(t)
    BY <2>1, RestsEnters
  <2>2. CASE LoopOn(t, items \ {e})
    <3>1. \A x \in items \ (items \ {e}) : Accepted(x)
      BY <1>3
    <3> QED
      BY <1>2, <1>4, <1>5, <2>2, <3>1, LoopEnters
  <2> QED
    BY <1>2, <2>1, <2>2
<1>7. /\ terminal \in [Own -> {"none", "conflict", "review"}]
      /\ told \in [Own -> {"none", "ok", "failed"}]
      /\ marker \in [Sequences -> Own \cup {NoEvent}]
      /\ items \subseteq {x \in Own : Recorded(x)}
  BY DEF QueueInv, QueueTypeOK, CommandsKept
<1>8. /\ terminal' \in [Own -> {"none", "conflict", "review"}]
      /\ \A x \in Own : terminal'[x] \in {"none", terminal[x]}
      /\ items' \subseteq {x \in Own : Recorded(x)}
  BY <1>2, <1>7
<1> QED
  BY <1>2, <1>4, <1>5, <1>6, <1>7, <1>8, StillKeeps, QueueKeeps

LEMMA CloseKeeps ==
  ASSUME QueueInv, NEW t \in Tabs, Close(t)
  PROVE  QueueInv'
<1>1. PICK e : e = tab[t].event
  OBVIOUS
<1>2. PICK v : v = tab[t].verdict
  OBVIOUS
<1>3. /\ UNCHANGED <<serverVars, command>> /\ command' = command
      /\ seen' = seen /\ stray' = stray /\ marker' = marker /\ told' = told /\ items' = items
      /\ tab[t].at = "closing" /\ Rests(t)
      /\ terminal' = terminal
           \/ terminal' = [terminal EXCEPT ![e] = IF v = "review" THEN "review" ELSE "conflict"]
  BY <1>1, <1>2 DEF Close
<1>4. /\ e \in Own /\ Recorded(e) /\ v \in {"review", "conflict"}
      /\ v = "review" => Filed(e)
      /\ v = "conflict" => Doomed(e)
  BY <1>1, <1>2, <1>3, EntryIs DEF Stands
<1>5. /\ terminal \in [Own -> {"none", "conflict", "review"}]
      /\ told \in [Own -> {"none", "ok", "failed"}]
      /\ marker \in [Sequences -> Own \cup {NoEvent}]
      /\ items \subseteq {x \in Own : Recorded(x)}
  BY DEF QueueInv, QueueTypeOK, CommandsKept
<1>6. terminal' = terminal \/ terminal' = [terminal EXCEPT ![e] = v]
  BY <1>3, <1>4
<1>7. /\ terminal' \in [Own -> {"none", "conflict", "review"}]
      /\ \A x \in Own : terminal'[x] = terminal[x] \/ (x = e /\ terminal'[x] = v)
  BY <1>4, <1>5, <1>6
<1>8. \A x \in Own : \/ terminal'[x] \in {"none", terminal[x]}
                     \/ terminal'[x] = "conflict" /\ Recorded(x) /\ Doomed(x)
                     \/ terminal'[x] = "review" /\ Recorded(x) /\ Filed(x)
  BY <1>4, <1>7
<1>9. \E s \in Tabs, x \in EntryTypes : Enters(s, x)
  BY <1>3, RestsEnters
<1> QED
  BY <1>3, <1>5, <1>7, <1>8, <1>9, StillKeeps, QueueKeeps

LEMMA OthersActKeeps ==
  ASSUME QueueInv, OthersAct \/ UNCHANGED allVars
  PROVE  QueueInv'
<1>1. /\ UNCHANGED <<storageVars, command, told>> /\ command' = command
      /\ tab' = tab /\ seen' = seen /\ stray' = stray
      /\ \/ \E cmd \in Commands : cmd.event \notin Own /\ ApplyEvent(cmd)
         \/ \E i \in TaskItems : CancelItem(i)
         \/ UNCHANGED serverVars
  BY DEF OthersAct, allVars, queueVars
<1>2. ServerKeeps
  BY <1>1, ServerStepKeeps
<1>3. seen' \in [Tabs -> Sights] /\ \A s \in {seen'[y] : y \in Tabs} : Sighted(s)
  BY <1>1 DEF QueueInv, QueueTypeOK, SeenBefore
<1>4. \A e \in stray' : InTurn(e)
  BY <1>1 DEF QueueInv
<1> QED
  BY <1>1, <1>2, <1>3, <1>4, TabKeeps

\* An event is recorded after all that is confirmed, and against what the events before it
\* make of the run.
LEMMA EnqueueKeeps ==
  ASSUME QueueInv, NEW t \in Tabs, NEW e \in Own, NEW type \in Types, NEW r \in Runs,
         Enqueue(t, e, type, r)
  PROVE  QueueInv'
<1>1. PICK status \in States, rev \in 0 .. MaxRevision, at \in Times :
        /\ Predicts(t, status, rev, r)
        /\ NextState(status, type) # "none"
        /\ command' = [command EXCEPT ![e] =
             [sequence |-> NextSequence,
              prior |-> {f \in Own : told[f] = "ok"},
              cmd |-> [event |-> e, run |-> r, item |-> Item, type |-> type,
                       expected |-> rev, at |-> at]]]
  BY DEF Enqueue
<1>2. PICK c : c = [event |-> e, run |-> r, item |-> Item, type |-> type,
                    expected |-> rev, at |-> at]
  OBVIOUS
<1>3. PICK n : n = NextSequence
  OBVIOUS
<1>4. PICK told0 : told0 = {f \in Own : told[f] = "ok"}
  OBVIOUS
<1>5. command' = [command EXCEPT ![e] = [sequence |-> n, prior |-> told0, cmd |-> c]]
  BY <1>1, <1>2, <1>3, <1>4
<1>6. /\ Readable /\ ~ Recorded(e) /\ n \in Sequences
      /\ UNCHANGED serverVars
      /\ marker' = marker /\ items' = items /\ terminal' = terminal /\ told' = told
      /\ seen' = seen /\ stray' = stray
      /\ tab' = [tab EXCEPT ![t] = [Idle EXCEPT !.at = "mark", !.event = e]]
  BY <1>3 DEF Enqueue, Recorded, storageVars
<1>7. rev \in Nat
  BY BoundsAssumption
<1>8. /\ c \in Commands /\ c.event = e /\ c.item = Item /\ c.run = r
      /\ c.expected = rev /\ c.type = type
  BY <1>2, OwnAssumption, ItemAssumption DEF Commands
<1>9. command \in [Own -> [sequence : Sequences, prior : SUBSET Own, cmd : Commands]
                             \cup {NoCommand}]
  BY DEF QueueInv, QueueTypeOK
<1>10. PICK new : new = [sequence |-> n, prior |-> told0, cmd |-> c]
  OBVIOUS
<1>11. /\ new \in [sequence : Sequences, prior : SUBSET Own, cmd : Commands]
       /\ new.sequence = n /\ new.prior = told0 /\ new.cmd = c /\ new # NoCommand
  <2>1. new \in [sequence : Sequences, prior : SUBSET Own, cmd : Commands]
    BY <1>4, <1>6, <1>8, <1>10
  <2>2. NoCommand \notin [sequence : Sequences, prior : SUBSET Own, cmd : Commands]
    BY DEF NoCommand
  <2> QED
    BY <1>10, <2>1, <2>2
<1>12. /\ command'[e] = new
       /\ \A f \in Own \ {e} : command'[f] = command[f]
       /\ command' \in [Own -> [sequence : Sequences, prior : SUBSET Own, cmd : Commands]
                                 \cup {NoCommand}]
  BY <1>5, <1>9, <1>10, <1>11
<1>13. /\ Recorded(e)' /\ Cmd(e)' = c /\ Sequence(e)' = n
       /\ \A f \in Own \ {e} : /\ Recorded(f)' <=> Recorded(f)
                               /\ Cmd(f)' = Cmd(f) /\ Sequence(f)' = Sequence(f)
  BY <1>11, <1>12 DEF Recorded, Cmd, Sequence
<1>14. Inv' /\ Inv
  BY <1>6, StepInv DEF QueueInv
<1>15. UNCHANGED <<run, fact, receipt, request, cancelled, projection>>
  BY <1>6 DEF serverVars
<1>16. /\ receipt[e] = NoReceipt /\ e \notin items /\ e \notin stray /\ ~ Accepted(e)
       /\ told[e] # "ok" /\ terminal[e] = "none"
  BY <1>6 DEF QueueInv, CommandsKept, InTurn, Accepted, NoReceipt, NothingLost, VerdictsStand
<1>17. items \subseteq Own \ {e} /\ stray \subseteq Own \ {e}
  BY <1>16 DEF QueueInv, QueueTypeOK
<1>18. \A f \in Own : Accepted(f)' <=> Accepted(f)
  BY <1>15 DEF Accepted
<1>19. ASSUME NEW f \in Own \ {e}
       PROVE  /\ Reached(f)' <=> Reached(f)
              /\ Doomed(f)' <=> Doomed(f)
              /\ Filed(f)' <=> Filed(f)
  <2>1. PICK x : x = Cmd(f)
    OBVIOUS
  <2>2. Cmd(f)' = x
    BY <1>13, <2>1
  <2>3. Hopeless(x)' <=> Hopeless(x)
    BY <1>15 DEF Hopeless, Fulfils, TooEarly, Facts
  <2>4. Hopeless(Cmd(f))' <=> Hopeless(x)'
    BY <2>2 DEF Hopeless, Fulfils, TooEarly
  <2>5. Hopeless(Cmd(f))' <=> Hopeless(Cmd(f))
    BY <2>1, <2>3, <2>4
  <2> QED
    BY <1>15, <1>18, <2>1, <2>2, <2>5 DEF Reached, Doomed, Filed
<1>20. \A f \in told0 : Accepted(f) \/ (f \in items /\ Sequence(f) < n)
  BY <1>3, <1>4, <1>6, QueueIs DEF QueueInv, NothingLost
<1>21. PriorFirst'
  <2> SUFFICES ASSUME NEW f \in Own, NEW g \in command'[f].prior
               PROVE  Accepted(g)' \/ (g \in items' /\ Sequence(g)' < Sequence(f)')
    BY DEF PriorFirst
  <2>1. CASE f = e
    <3>1. g \in told0 /\ g \in Own \ {e}
      BY <1>4, <1>11, <1>12, <1>16, <2>1
    <3> QED
      BY <1>6, <1>13, <1>18, <1>20, <2>1, <3>1
  <2>2. CASE f # e
    <3>1. g \in command[f].prior /\ g \in Own
      BY <1>12, <2>2, CommandsAre DEF QueueInv, Recorded, NoCommand
    <3>2. Accepted(g) \/ (g \in items /\ Sequence(g) < Sequence(f))
      BY <3>1 DEF QueueInv, PriorFirst
    <3> QED
      BY <1>6, <1>13, <1>17, <1>18, <2>2, <3>1, <3>2
  <2> QED
    BY <2>1, <2>2
<1>22. RunsContinued'
  <2> SUFFICES ASSUME NEW f \in Own, Recorded(f)'
               PROVE  IF Cmd(f)'.expected = 0 THEN Cmd(f)'.type = "start"
                      ELSE Reached(f)' \/ \E g \in items' : Follows(f, g)'
    BY DEF RunsContinued
  <2>1. CASE f = e
    <3>1. IF rev = 0 THEN type = "start"
          ELSE \/ run[r] # NoRun /\ run[r].item = Item /\ rev <= run[r].rev
               \/ \E g \in items : Sequence(g) < n /\ Cmd(g).run = r /\ rev = Cmd(g).expected + 1
      BY <1>1, <1>3, <1>6, <1>7, PredictsIs
    <3>2. run[r] # NoRun /\ run[r].item = Item /\ rev <= run[r].rev => Reached(f)'
      BY <1>8, <1>13, <1>15, <2>1 DEF Reached
    <3>3. ASSUME NEW g \in items, Sequence(g) < n, Cmd(g).run = r, rev = Cmd(g).expected + 1
          PROVE  g \in items' /\ Follows(f, g)'
      <4>1. Sequence(g)' = Sequence(g) /\ Cmd(g)' = Cmd(g) /\ g \in items'
        BY <1>6, <1>13, <1>17
      <4> QED
        BY <1>8, <1>13, <2>1, <3>3, <4>1 DEF Follows
    <3>4. Cmd(f)'.expected = rev /\ Cmd(f)'.type = type
      BY <1>8, <1>13, <2>1
    <3> QED
      BY <3>1, <3>2, <3>3, <3>4
  <2>2. CASE f # e
    <3>1. Recorded(f) /\ Cmd(f)' = Cmd(f) /\ Sequence(f)' = Sequence(f)
          /\ (Reached(f)' <=> Reached(f))
      BY <1>13, <1>19, <2>2
    <3>2. IF Cmd(f).expected = 0 THEN Cmd(f).type = "start"
          ELSE Reached(f) \/ \E g \in items : Follows(f, g)
      BY <3>1 DEF QueueInv, RunsContinued
    <3>3. ASSUME NEW g \in items, Follows(f, g) PROVE g \in items' /\ Follows(f, g)'
      <4>1. Sequence(g)' = Sequence(g) /\ Cmd(g)' = Cmd(g) /\ g \in items'
        BY <1>6, <1>13, <1>17
      <4> QED
        BY <3>1, <3>3, <4>1 DEF Follows
    <3> QED
      BY <3>1, <3>2, <3>3
  <2> QED
    BY <2>1, <2>2
<1>23. ASSUME NEW f, InTurn(f) PROVE InTurn(f)'
  <2>1. f \in Own \ {e} /\ Recorded(f) /\ command'[f] = command[f]
        /\ command[f].prior \subseteq Own
    BY <1>6, <1>12, <1>23, CommandsAre DEF InTurn, QueueInv
  <2>2. Cmd(f)' = Cmd(f) /\ Recorded(f)' /\ (Reached(f)' <=> Reached(f))
    BY <1>13, <1>19, <2>1
  <2>3. \A g \in command'[f].prior : Accepted(g)'
    BY <1>18, <1>23, <2>1 DEF InTurn
  <2> QED
    BY <1>23, <2>1, <2>2, <2>3 DEF InTurn
<1>24. ASSUME NEW x \in EntryTypes, Stands(x) PROVE Stands(x)'
  <2>1. x.at # "idle" => x.event \in Own \ {e} /\ Recorded(x.event)
    BY <1>6, <1>24 DEF Stands, EntryTypes
  <2>2. x.verdict # "none" => x.at # "idle"
    BY <1>24 DEF Stands
  <2>3. x.at # "idle" => /\ Recorded(x.event)'
                         /\ Accepted(x.event)' <=> Accepted(x.event)
                         /\ Doomed(x.event)' <=> Doomed(x.event)
                         /\ Filed(x.event)' <=> Filed(x.event)
    BY <1>13, <1>18, <1>19, <2>1
  <2>4. x.at = "waiting" => InTurn(x.event)'
    BY <1>23, <1>24 DEF Stands
  <2> QED
    BY <1>6, <1>24, <2>2, <2>3, <2>4 DEF Stands
<1>25. PICK y \in EntryTypes : /\ y.at = "mark" /\ y.event = e /\ y.verdict = "none"
                               /\ tab' = [tab EXCEPT ![t] = y]
  BY <1>6 DEF Idle, EntryTypes
<1>26. Stands(y)'
  BY <1>13, <1>25, OwnAssumption DEF Stands
<1>27. tab \in [Tabs -> EntryTypes] /\ tab' \in [Tabs -> EntryTypes]
  BY <1>25 DEF QueueInv, QueueTypeOK, EntryTypes
<1>28. TabsStand'
  <2>1. \A x \in Entries : x \in EntryTypes /\ Stands(x)'
    BY <1>24, <1>27 DEF QueueInv, TabsStand, Entries
  <2>2. \A x \in Entries' : x \in Entries \/ x = y
    BY <1>25, <1>27 DEF Entries
  <2> QED
    BY <1>26, <2>1, <2>2 DEF TabsStand
<1>29. CommandsKept'
  <2>1. \A f \in Own : Recorded(f)' => Cmd(f)'.event = f /\ Cmd(f)'.item = Item
    BY <1>8, <1>13 DEF QueueInv, CommandsKept
  <2>2. \A f \in items' : Recorded(f)'
    BY <1>6, <1>13, <1>17 DEF QueueInv, CommandsKept
  <2>3. \A f \in Own : receipt'[f] # NoReceipt => Recorded(f)' /\ receipt'[f].cmd = Cmd(f)'
    BY <1>13, <1>15, <1>16 DEF QueueInv, CommandsKept
  <2> QED
    BY <2>1, <2>2, <2>3 DEF CommandsKept
<1>30. InOrder'
  <2> SUFFICES ASSUME NEW f \in Own, Accepted(f)', NEW g \in command'[f].prior
               PROVE  Accepted(g)' /\ fact'[g].projection < fact'[f].projection
    BY DEF InOrder
  <2>1. f # e /\ Accepted(f) /\ g \in command[f].prior /\ g \in Own
    <3>1. f # e /\ Accepted(f)
      BY <1>16, <1>18
    <3> QED
      BY <1>12, <3>1, CommandsAre DEF QueueInv, Recorded, NoCommand
  <2> QED
    BY <1>15, <1>18, <2>1 DEF QueueInv, InOrder
<1>31. FactsCounted' /\ SeenBefore' /\ NothingLost'
  <2>1. Facts' = Facts /\ \A s : Sighted(s)' <=> Sighted(s)
    BY <1>15 DEF Facts, Sighted
  <2> QED
    BY <1>6, <1>15, <1>18, <2>1 DEF QueueInv, FactsCounted, SeenBefore, NothingLost
<1>32. VerdictsStand'
  <2> SUFFICES ASSUME NEW f \in Own
               PROVE  /\ terminal[f] # "none" => Recorded(f)'
                      /\ terminal[f] = "conflict" => Doomed(f)'
                      /\ terminal[f] = "review" => Filed(f)'
    BY <1>6 DEF VerdictsStand
  <2>1. CASE f = e
    BY <1>16, <2>1
  <2>2. CASE f # e
    BY <1>13, <1>19, <2>2 DEF QueueInv, VerdictsStand
  <2> QED
    BY <2>1, <2>2
<1>33. QueueTypeOK'
  <2>1. ServerTypeOK'
    BY <1>14 DEF Inv
  <2>2. \A s \in Tabs : /\ tab'[s].event = NoEvent <=> tab'[s].at = "idle"
                        /\ tab'[s].verdict = "none"
                             <=> tab'[s].at \notin {"handled", "removing", "closing"}
    BY <1>28 DEF TabsStand, Entries, Stands
  <2> QED
    BY <1>6, <1>12, <1>27, <2>1, <2>2 DEF QueueInv, QueueTypeOK, EntryTypes
<1>34. \A f \in stray' : InTurn(f)'
  BY <1>6, <1>23 DEF QueueInv
<1> QED
  BY <1>14, <1>21, <1>22, <1>28, <1>29, <1>30, <1>31, <1>32, <1>33, <1>34 DEF QueueInv

LEMMA QueueInitInv == QueueInit => QueueInv
<1> SUFFICES ASSUME QueueInit PROVE QueueInv
  OBVIOUS
<1>1. Inv
  BY InitInv DEF QueueInit
<1>2. /\ marker = [n \in Sequences |-> NoEvent] /\ items = {}
      /\ terminal = [e \in Own |-> "none"] /\ command = [e \in Own |-> NoCommand]
      /\ told = [e \in Own |-> "none"] /\ tab = [t \in Tabs |-> Idle]
      /\ seen = [t \in Tabs |-> NothingSeen] /\ stray = {}
      /\ receipt = [e \in Events |-> NoReceipt] /\ fact = [e \in Events |-> NoFact]
  BY DEF QueueInit, ServerInit
<1>3. \A e \in Own : /\ ~ Recorded(e) /\ ~ Accepted(e) /\ command[e].prior = {}
                     /\ receipt[e] = NoReceipt
  BY <1>2, OwnAssumption DEF Recorded, Accepted, NoReceipt, NoCommand
<1>4. Facts = {}
  BY <1>2 DEF Facts
<1>5. Idle \in EntryTypes /\ Stands(Idle)
  BY DEF Idle, EntryTypes, Stands
<1>6. \A x \in Entries : x = Idle
  BY <1>2 DEF Entries
<1>7. QueueTypeOK
  <2>1. tab \in [Tabs -> EntryTypes]
    BY <1>2, <1>5
  <2>2. \A t \in Tabs : tab[t].event = NoEvent /\ tab[t].at = "idle" /\ tab[t].verdict = "none"
    BY <1>2 DEF Idle
  <2>3. ServerTypeOK
    BY <1>1 DEF Inv
  <2> QED
    BY <1>2, <2>1, <2>2, <2>3 DEF QueueTypeOK, EntryTypes, Sights
<1>8. TabsStand /\ SeenBefore
  BY <1>2, <1>5, <1>6 DEF TabsStand, SeenBefore, Sighted, NothingSeen
<1>9. CommandsKept /\ FactsCounted /\ InOrder /\ PriorFirst /\ RunsContinued
  BY <1>2, <1>3, <1>4 DEF CommandsKept, FactsCounted, InOrder, PriorFirst, RunsContinued
<1>10. NothingLost /\ VerdictsStand
  BY <1>2 DEF NothingLost, VerdictsStand
<1> QED
  BY <1>1, <1>2, <1>7, <1>8, <1>9, <1>10 DEF QueueInv

\* The invariant of the queue holds for any number of tabs, events, runs and times, whatever
\* the server, other devices and the owner do in between.
LEMMA QueueInvHolds == QueueSpec => []QueueInv
<1>1. QueueInv /\ [QueueNext]_allVars => QueueInv'
  <2> SUFFICES ASSUME QueueInv, [QueueNext]_allVars PROVE QueueInv'
    OBVIOUS
  <2>1. CASE OthersAct \/ UNCHANGED allVars
    BY <2>1, OthersActKeeps
  <2>2. ASSUME NEW e \in Own, NEW timely \in BOOLEAN, StrayArrives(e, timely) PROVE QueueInv'
    BY <2>2, StrayArrivesKeeps
  <2>3. ASSUME NEW t \in Tabs, Refresh(t) PROVE QueueInv'
    BY <2>3, RefreshKeeps
  <2>4. ASSUME NEW t \in Tabs, NoAnswer(t) \/ Crash(t) PROVE QueueInv'
    BY <2>4, LeavesKeeps
  <2>5. ASSUME NEW t \in Tabs, TabStep(t) PROVE QueueInv'
    <3>1. ASSUME NEW e \in Own, NEW type \in Types, NEW r \in Runs, Enqueue(t, e, type, r)
          PROVE  QueueInv'
      BY <3>1, EnqueueKeeps
    <3>2. CASE WriteMarker(t)
      BY <3>2, WriteMarkerKeeps
    <3>3. CASE WriteItem(t)
      BY <3>3, WriteItemKeeps
    <3>4. CASE WriteMeta(t) \/ EnqueueFails(t)
      BY <3>4, WriteMetaKeeps
    <3>5. CASE ReplayBegins(t)
      BY <3>5, ReplayBeginsKeeps
    <3>6. ASSUME NEW timely \in BOOLEAN, ServerHandles(t, timely) PROVE QueueInv'
      BY <3>6, ServerHandlesKeeps
    <3>7. CASE HeadGone(t)
      BY <3>7, HeadGoneKeeps
    <3>8. CASE Reload(t) \/ GiveUp(t)
      BY <3>8, ReloadKeeps
    <3>9. CASE Remove(t)
      BY <3>9, RemoveKeeps
    <3>10. CASE Close(t)
      BY <3>10, CloseKeeps
    <3> QED
      BY <2>5, <3>1, <3>2, <3>3, <3>4, <3>5, <3>6, <3>7, <3>8, <3>9, <3>10 DEF TabStep
  <2> QED
    BY <2>1, <2>2, <2>3, <2>4, <2>5 DEF QueueNext
<1> QED
  BY <1>1, QueueInitInv, PTL DEF QueueSpec

-----------------------------------------------------------------------------
(* The theorems of the queue. *)

\* What the tabs keep in localStorage, and what the server keeps, is what it is meant to be.
THEOREM QueueTypesHold == QueueSpec => []QueueTypeOK
<1>1. QueueInv => QueueTypeOK
  BY DEF QueueInv
<1> QED
  BY <1>1, QueueInvHolds, PTL

\* An event whose recording was confirmed to the operator is in the queue until the server has
\* applied it, through crashes, failed writes and tabs that overwrite each other's markers.
THEOREM ConfirmedEventsAreNotLost == QueueSpec => []NothingLost
<1>1. QueueInv => NothingLost
  BY DEF QueueInv
<1> QED
  BY <1>1, QueueInvHolds, PTL

\* An event reaches the run after every event confirmed before it was recorded, however many
\* tabs replay at once, and whatever requests arrive after their sender gave up.
THEOREM EventsArriveInOrder == QueueSpec => []InOrder
<1>1. QueueInv => InOrder
  BY DEF QueueInv
<1> QED
  BY <1>1, QueueInvHolds, PTL

\* What the kiosk shows as final is final: a conflict is never resolved by a request that
\* arrives late or by what others do at the server, and what is under review is filed there.
THEOREM FinalVerdictsAreTrue == QueueSpec => []VerdictIsTrue
<1>1. QueueInv => VerdictIsTrue
  <2> SUFFICES ASSUME QueueInv, NEW e \in items
               PROVE  /\ terminal[e] = "conflict" => ~ Accepted(e)
                      /\ terminal[e] = "review" => receipt[e].kind = "review"
    BY DEF VerdictIsTrue
  <2>1. e \in Own
    BY DEF QueueInv, QueueTypeOK
  <2> QED
    BY <2>1 DEF QueueInv, VerdictsStand, Doomed, Filed
<1> QED
  BY <1>1, QueueInvHolds, PTL

=============================================================================
