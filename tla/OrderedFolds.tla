---------------------------- MODULE OrderedFolds ----------------------------
(***************************************************************************)
(* What a loop over a sorted array computes, when the model writes it as a *)
(* fold over the set of its elements in their order (InOrder of            *)
(* SchedulingRules).  The step and the order are parameters, so that every *)
(* such loop has these facts as an instance; w and v are what a step and   *)
(* an order may depend on besides.                                         *)
(***************************************************************************)
EXTENDS FiniteSetsExt, FiniteSetTheorems, WellFoundedInduction, TLAPS

CONSTANTS
  Step(_, _, _, _), \* w, v, what was computed so far and the next element
  Less(_, _, _)     \* w and two elements: the first comes before the second

\* The element of a set that no other one comes after.
Last(w, T) == CHOOSE x \in T : \A y \in T : ~ Less(w, x, y)

Fold(w, v, base, S) ==
  MapThenFoldSet(LAMBDA x, acc : Step(w, v, acc, x), base, LAMBDA x : x,
                 LAMBDA T : CHOOSE x \in T : \A y \in T : ~ Less(w, x, y), S)

\* Every set of elements that is not empty has a last one.
HasLast(w, S) == \A T \in SUBSET S : T # {} => \E x \in T : \A y \in T : ~ Less(w, x, y)

\* Induction over the finite subsets of a set: P holds them all if it holds each one whose
\* strict subsets it holds.
LEMMA FiniteSubsets ==
  ASSUME NEW U, NEW P,
         \A T \in FiniteSubsetsOf(U) : (\A s \in SUBSET T : s # T => s \in P) => T \in P
  PROVE  \A T \in FiniteSubsetsOf(U) : T \in P
<1> DEFINE Bad == {T \in FiniteSubsetsOf(U) : T \notin P}
<1> SUFFICES ASSUME Bad # {} PROVE FALSE
  OBVIOUS
<1>1. IsWellFoundedOn(StrictSubsetOrdering(U), FiniteSubsetsOf(U))
  BY FS_StrictSubsetOrderingWellFounded
<1>2. PICK x \in Bad : \A y \in Bad : ~ (<<y, x>> \in StrictSubsetOrdering(U))
  <2>1. Bad \subseteq FiniteSubsetsOf(U)
    OBVIOUS
  <2> HIDE DEF Bad
  <2> QED
    BY <1>1, <2>1, WFMin
<1>3. PICK s \in SUBSET x : s # x /\ s \notin P
  OBVIOUS
<1>4. x \in SUBSET U /\ IsFiniteSet(x)
  BY DEF FiniteSubsetsOf
<1>5. s \in SUBSET U /\ IsFiniteSet(s)
  BY <1>4, FS_Subset
<1>6. s \in Bad
  BY <1>3, <1>5 DEF FiniteSubsetsOf
<1> QED
  BY <1>2, <1>3, <1>4, <1>5, <1>6, Zenon DEF StrictSubsetOrdering

\* A set of naturals that is not empty has a least member.
LEMMA LeastNatural ==
  ASSUME NEW T, T \subseteq Nat, T # {}
  PROVE  \E m \in T : \A k \in T : m <= k
<1> DEFINE D == {0 .. n : n \in T}
<1>1. D \subseteq FiniteSubsetsOf(Nat)
  <2>1. ASSUME NEW n \in T PROVE 0 .. n \in FiniteSubsetsOf(Nat)
    <3>1. IsFiniteSet(0 .. n)
      BY FS_Interval
    <3> QED
      BY <3>1 DEF FiniteSubsetsOf
  <2> QED
    BY <2>1
<1>2. D # {}
  OBVIOUS
<1>3. IsWellFoundedOn(StrictSubsetOrdering(Nat), FiniteSubsetsOf(Nat))
  BY FS_StrictSubsetOrderingWellFounded
<1>4. PICK x \in D : \A y \in D : ~ (<<y, x>> \in StrictSubsetOrdering(Nat))
  <2> HIDE DEF D
  <2> QED
    BY <1>1, <1>2, <1>3, WFMin
<1>5. PICK m \in T : x = 0 .. m
  OBVIOUS
<1>6. ASSUME NEW k \in T, k < m PROVE FALSE
  <2>1. 0 .. k \in D /\ 0..k \in SUBSET Nat /\ x \in SUBSET Nat /\ 0 .. k \subseteq x /\ 0 .. k # x
    BY <1>5, <1>6
  <2> QED
    BY <2>1, <1>4, Zenon DEF StrictSubsetOrdering
<1> QED
  BY <1>6

\* Finite sets under an irreflexive and transitive order have last elements.
LEMMA OrdersHaveLast ==
  ASSUME NEW w, NEW S, IsFiniteSet(S),
         \A x \in S : ~ Less(w, x, x),
         \A x, y, z \in S : Less(w, x, y) /\ Less(w, y, z) => Less(w, x, z)
  PROVE  HasLast(w, S)
<1> DEFINE P == {T \in SUBSET S : T # {} => \E x \in T : \A y \in T : ~ Less(w, x, y)}
<1>1. ASSUME NEW T \in FiniteSubsetsOf(S), \A s \in SUBSET T : s # T => s \in P
      PROVE  T \in P
  <2>1. T \in SUBSET S
    BY DEF FiniteSubsetsOf
  <2> SUFFICES ASSUME T # {} PROVE \E x \in T : \A y \in T : ~ Less(w, x, y)
    BY <2>1
  <2>2. PICK a \in T : TRUE
    OBVIOUS
  <2>3. CASE T = {a}
    BY <2>1, <2>3
  <2>4. CASE T # {a}
    <3>1. T \ {a} \in P /\ T \ {a} # {}
      BY <1>1, <2>2, <2>4
    <3>2. PICK x \in T \ {a} : \A y \in T \ {a} : ~ Less(w, x, y)
      BY <3>1
    <3>3. CASE Less(w, x, a)
      <4>1. \A y \in T : ~ Less(w, a, y)
        BY <2>1, <2>2, <3>2, <3>3
      <4> QED
        BY <2>2, <4>1
    <3>4. CASE ~ Less(w, x, a)
      BY <3>2, <3>4
    <3> QED
      BY <3>3, <3>4
  <2> QED
    BY <2>3, <2>4
<1>2. \A T \in FiniteSubsetsOf(S) : T \in P
  <2> HIDE DEF P
  <2> QED
    BY <1>1, FiniteSubsets
<1>3. FiniteSubsetsOf(S) = SUBSET S
  BY FS_FiniteSubsetsOfFinite
<1> QED
  BY <1>2, <1>3 DEF HasLast

LEMMA LastIsIn ==
  ASSUME NEW w, NEW S, HasLast(w, S), NEW T \in SUBSET S, T # {}
  PROVE  Last(w, T) \in T /\ \A y \in T : ~ Less(w, Last(w, T), y)
BY DEF HasLast, Last

\* What is true of no element at all, and of a set if it is true without its last element,
\* is true of every set of elements.
LEMMA InductionInOrder ==
  ASSUME NEW w, NEW S, IsFiniteSet(S), HasLast(w, S), NEW P, {} \in P,
         \A T \in SUBSET S : T # {} /\ T \ {Last(w, T)} \in P => T \in P
  PROVE  \A T \in SUBSET S : T \in P
<1>1. ASSUME NEW T \in FiniteSubsetsOf(S), \A s \in SUBSET T : s # T => s \in P
      PROVE  T \in P
  <2>1. T \in SUBSET S
    BY DEF FiniteSubsetsOf
  <2>2. CASE T # {}
    <3>1. Last(w, T) \in T
      BY <2>1, <2>2, LastIsIn
    <3>2. T \ {Last(w, T)} \in P
      BY <1>1, <3>1
    <3> QED
      BY <2>1, <2>2, <3>2
  <2> QED
    BY <2>2
<1>2. \A T \in FiniteSubsetsOf(S) : T \in P
  BY <1>1, FiniteSubsets
<1> QED
  BY <1>2, FS_FiniteSubsetsOfFinite

\* The loop takes its last step after the loop over the elements before the last.
LEMMA FoldUnfolds ==
  ASSUME NEW w, NEW v, NEW base, NEW S, IsFiniteSet(S), HasLast(w, S)
  PROVE  Fold(w, v, base, S) =
           IF S = {} THEN base ELSE Step(w, v, Fold(w, v, base, S \ {Last(w, S)}), Last(w, S))
<1> DEFINE body(g, s) == IF s = {} THEN base ELSE Step(w, v, g[s \ {Last(w, s)}], Last(w, s))
           iter(T) == CHOOSE g : g = [s \in SUBSET T |-> body(g, s)]
           P == {T \in SUBSET S : /\ iter(T) = [s \in SUBSET T |-> body(iter(T), s)]
                                  /\ \A s \in SUBSET T : iter(T)[s] = Fold(w, v, base, s)}
<1>1. \A T : Fold(w, v, base, T) = iter(T)[T]
  BY Zenon DEF Fold, MapThenFoldSet, Last
<1>2. \A T \in SUBSET S : T # {} => Last(w, T) \in T
  BY LastIsIn
<1>3. ASSUME NEW T \in FiniteSubsetsOf(S), \A s \in SUBSET T : s # T => s \in P
      PROVE  T \in P
  <2> DEFINE G == [s \in SUBSET T |->
                     IF s = {} THEN base
                     ELSE Step(w, v, Fold(w, v, base, s \ {Last(w, s)}), Last(w, s))]
  <2> HIDE DEF iter
  <2>1. T \in SUBSET S /\ IsFiniteSet(T)
    BY DEF FiniteSubsetsOf
  <2>2. ASSUME NEW s \in SUBSET T, s # T
        PROVE  Fold(w, v, base, s) = G[s]
    <3>1. s \in P
      BY <1>3, <2>2
    <3>2. iter(s)[s] = body(iter(s), s)
      BY <3>1
    <3>3. s # {} => iter(s)[s \ {Last(w, s)}] = Fold(w, v, base, s \ {Last(w, s)})
      BY <3>1
    <3> QED
      BY <1>1, <3>2, <3>3
  <2>3. G = [s \in SUBSET T |-> body(G, s)]
    <3>1. ASSUME NEW s \in SUBSET T, s # {}
          PROVE  G[s \ {Last(w, s)}] = Fold(w, v, base, s \ {Last(w, s)})
      <4>1. s \ {Last(w, s)} \in SUBSET T /\ s \ {Last(w, s)} # T
        BY <1>2, <2>1, <3>1
      <4> QED
        BY <2>2, <4>1
    <3> QED
      BY <3>1
  <2>4. iter(T) = [s \in SUBSET T |-> body(iter(T), s)]
    <3> HIDE DEF body, G
    <3> QED
      BY <2>3 DEF iter
  <2>5. iter(T) = G
    <3> DEFINE Q == {s \in SUBSET T : iter(T)[s] = G[s]}
    <3>1. ASSUME NEW X \in FiniteSubsetsOf(T), \A s \in SUBSET X : s # X => s \in Q
          PROVE  X \in Q
      <4>1. X \in SUBSET T
        BY DEF FiniteSubsetsOf
      <4>2. iter(T)[X] = body(iter(T), X) /\ G[X] = body(G, X)
        BY <2>3, <2>4, <4>1
      <4>3. X # {} => X \ {Last(w, X)} \in Q
        BY <1>2, <2>1, <3>1, <4>1
      <4> HIDE DEF G
      <4> QED
        BY <4>1, <4>2, <4>3
    <3>2. \A X \in FiniteSubsetsOf(T) : X \in Q
      <4> HIDE DEF Q
      <4> QED
        BY <3>1, FiniteSubsets
    <3>3. \A X \in SUBSET T : iter(T)[X] = G[X]
      BY <2>1, <3>2, FS_FiniteSubsetsOfFinite
    <3> HIDE DEF body
    <3> QED
      BY <2>4, <3>3
  <2>6. \A s \in SUBSET T : iter(T)[s] = Fold(w, v, base, s)
    BY <1>1, <2>2, <2>5
  <2> QED
    BY <2>1, <2>4, <2>6
<1>4. S \in P
  <2>1. S \in FiniteSubsetsOf(S)
    BY DEF FiniteSubsetsOf
  <2> HIDE DEF P
  <2> QED
    BY <1>3, <2>1, FiniteSubsets
<1> HIDE DEF iter
<1>5. iter(S)[S] = body(iter(S), S)
  BY <1>4
<1>6. S # {} => iter(S)[S \ {Last(w, S)}] = Fold(w, v, base, S \ {Last(w, S)})
  BY <1>4
<1> QED
  BY <1>1, <1>5, <1>6

\* A loop over nothing leaves what it began with.
LEMMA FoldOfNone ==
  ASSUME NEW w, NEW v, NEW base
  PROVE  Fold(w, v, base, {}) = base
<1>1. IsFiniteSet({}) /\ HasLast(w, {})
  BY FS_EmptySet DEF HasLast
<1>2. ASSUME NEW S, S = {} PROVE Fold(w, v, base, S) = base
  BY <1>1, <1>2, FoldUnfolds
<1> QED
  BY <1>2

=============================================================================
