---------------------------- MODULE OrderedProofs ----------------------------
(***************************************************************************)
(* What the operators of Ordered return.  Every set of natural numbers has *)
(* a least element; the rest follows from it, and so does every induction  *)
(* in the proofs: a least counterexample is one whose predecessors are     *)
(* none.                                                                   *)
(***************************************************************************)
EXTENDS Ordered, FiniteSetTheorems, FunctionTheorems, TLAPS

\* A non-empty set of natural numbers has a least element: the sets 0..m are
\* finite, and strict inclusion is well-founded on finite sets.
LEMMA LeastExists ==
    ASSUME NEW S \in SUBSET Nat, S # {}
    PROVE  \E m \in S : \A k \in S : m <= k
<1> DEFINE UpTo == {0..m : m \in S}
           R    == StrictSubsetOrdering(Nat)
           F    == FiniteSubsetsOf(Nat)
<1>1. IsWellFoundedOn(R, F)
  BY FS_StrictSubsetOrderingWellFounded
<1>2. ASSUME NEW m \in S PROVE 0..m \in F
  <2>1. IsFiniteSet(0..m)
    BY FS_Interval
  <2> QED
    BY <2>1 DEF FiniteSubsetsOf
<1>3. UpTo \subseteq F /\ UpTo # {}
  BY <1>2
<1>4. PICK x \in UpTo : \A y \in UpTo : ~(<<y, x>> \in R)
  <2> HIDE DEF UpTo, R, F
  <2> QED
    BY <1>1, <1>3, WFMin, Zenon
<1>5. PICK m \in S : x = 0..m
  OBVIOUS
<1>6. ASSUME NEW k \in S, k < m PROVE FALSE
  <2>1. 0..k \subseteq 0..m /\ 0..k # 0..m
    BY <1>6
  <2>2. <<0..k, 0..m>> \in R
    BY <2>1 DEF StrictSubsetOrdering
  <2> QED
    BY <1>4, <1>5, <2>2
<1> QED
  BY <1>6

LEMMA FirstOfLeast ==
    ASSUME NEW S \in SUBSET Nat, S # {}
    PROVE  FirstOf(S) \in S /\ \A k \in S : FirstOf(S) <= k
BY LeastExists DEF FirstOf

\* A non-empty set with a bound has a greatest element: its least bound.
LEMMA LastOfGreatest ==
    ASSUME NEW S \in SUBSET Nat, S # {}, NEW n \in Nat, \A k \in S : k <= n
    PROVE  LastOf(S) \in S /\ \A k \in S : k <= LastOf(S)
<1> DEFINE Bounds == {b \in Nat : \A k \in S : k <= b}
<1>1. PICK b \in Bounds : \A c \in Bounds : b <= c
  <2>1. n \in Bounds /\ Bounds \in SUBSET Nat
    OBVIOUS
  <2> HIDE DEF Bounds
  <2> QED
    BY <2>1, LeastExists
<1>2. b \in S
  <2> SUFFICES ASSUME b \notin S PROVE FALSE
    OBVIOUS
  <2>1. ASSUME NEW k \in S PROVE k <= b - 1
    <3>1. k \in Nat /\ b \in Nat /\ k <= b /\ k # b
      BY <1>1
    <3> QED
      BY <3>1
  <2>2. PICK k \in S : TRUE
    OBVIOUS
  <2>3. b - 1 \in Nat
    BY <2>1, <2>2
  <2>4. b - 1 \in Bounds
    BY <2>1, <2>3
  <2> QED
    BY <2>4, <1>1
<1> QED
  BY <1>1, <1>2 DEF LastOf

\* The numbers below a member are fewer than the set has, and more for a
\* greater member.
LEMMA BelowGrows ==
    ASSUME NEW S \in SUBSET Nat, IsFiniteSet(S), NEW i \in S
    PROVE  /\ Cardinality(Below(S, i)) \in 0..(Cardinality(S) - 1)
           /\ \A j \in S : i < j =>
                 Cardinality(Below(S, i)) < Cardinality(Below(S, j))
<1>1. ASSUME NEW T \in SUBSET S, i \in T, Below(S, i) \in SUBSET T
      PROVE  /\ Cardinality(Below(S, i)) \in Nat /\ Cardinality(T) \in Nat
             /\ Cardinality(Below(S, i)) < Cardinality(T)
  <2>1. IsFiniteSet(T)
    BY FS_Subset
  <2>2. /\ IsFiniteSet(Below(S, i))
        /\ Cardinality(Below(S, i)) <= Cardinality(T)
        /\ Cardinality(T) = Cardinality(Below(S, i)) => T = Below(S, i)
    BY <1>1, <2>1, FS_Subset
  <2>3. i \notin Below(S, i)
    BY DEF Below
  <2>4. Cardinality(T) \in Nat /\ Cardinality(Below(S, i)) \in Nat
    BY <2>1, <2>2, FS_CardinalityType
  <2> QED
    BY <1>1, <2>2, <2>3, <2>4
<1>2. Below(S, i) \in SUBSET S
  BY DEF Below
<1>3. ASSUME NEW j \in S, i < j
      PROVE  i \in Below(S, j) /\ Below(S, j) \in SUBSET S
             /\ Below(S, i) \in SUBSET Below(S, j)
  <2>1. i \in Below(S, j) /\ Below(S, j) \in SUBSET S
    BY <1>3 DEF Below
  <2>2. ASSUME NEW l \in Below(S, i) PROVE l \in Below(S, j)
    <3>1. l \in S /\ l < i
      BY <2>2 DEF Below
    <3>2. l \in Nat /\ i \in Nat /\ j \in Nat
      BY <3>1
    <3>3. l < j
      BY <3>1, <3>2, <1>3
    <3> QED
      BY <3>1, <3>3 DEF Below
  <2> QED
    BY <2>1, <2>2
<1>4. /\ Cardinality(Below(S, i)) \in Nat /\ Cardinality(S) \in Nat
      /\ Cardinality(Below(S, i)) < Cardinality(S)
  BY <1>1, <1>2
<1> QED
  BY <1>1, <1>3, <1>4

\* The k-th number is a member, it has k - 1 below it, and every member is the
\* k-th for one k.
LEMMA NthOfCounts ==
    ASSUME NEW S \in SUBSET Nat, IsFiniteSet(S)
    PROVE  /\ Cardinality(S) \in Nat
           /\ \A k \in 1..Cardinality(S) :
                 NthOf(S, k) \in S /\ Cardinality(Below(S, NthOf(S, k))) = k - 1
           /\ \A i \in S : \E k \in 1..Cardinality(S) : NthOf(S, k) = i
<1> DEFINE n == Cardinality(S)
           rank == [i \in S |-> Cardinality(Below(S, i)) + 1]
<1>1. n \in Nat
  BY FS_CardinalityType
<1>2. ASSUME NEW i \in S
      PROVE  /\ Cardinality(Below(S, i)) \in 0..(n - 1)
             /\ \A j \in S : i < j =>
                   Cardinality(Below(S, i)) < Cardinality(Below(S, j))
  BY BelowGrows
<1>3. rank \in [S -> 1..n]
  BY <1>1, <1>2
<1>4. ASSUME NEW i \in S, NEW j \in S,
             Cardinality(Below(S, i)) = Cardinality(Below(S, j))
      PROVE  i = j
  <2>1. ~(i < j) /\ ~(j < i)
    BY <1>2, <1>4
  <2> QED
    BY <2>1
<1>5. \A i, j \in S : rank[i] = rank[j] => i = j
  BY <1>2, <1>4
<1>6. IsFiniteSet(1..n) /\ Cardinality(1..n) = n
  BY <1>1, FS_Interval
<1>7. rank \in Injection(S, 1..n)
  <2> HIDE DEF rank, n
  <2> QED
    BY <1>3, <1>5, Fun_IsInj
<1>8. rank \in Surjection(S, 1..n)
  <2> HIDE DEF rank
  <2> QED
    BY <1>6, <1>7, FS_Injection
<1>9. \A k \in 1..n : \E i \in S : rank[i] = k
  <2> HIDE DEF rank
  <2> QED
    BY <1>8, Fun_SurjectionProperties
<1>10. ASSUME NEW k \in 1..n
       PROVE  NthOf(S, k) \in S /\ Cardinality(Below(S, NthOf(S, k))) = k - 1
  <2>1. PICK i \in S : Cardinality(Below(S, i)) + 1 = k
    BY <1>9
  <2>2. Cardinality(Below(S, i)) = k - 1
    BY <2>1, <1>2
  <2> QED
    BY <2>2 DEF NthOf
<1>11. ASSUME NEW i \in S PROVE \E k \in 1..n : NthOf(S, k) = i
  <2>1. PICK k \in 1..n : k = Cardinality(Below(S, i)) + 1
    BY <1>2, <1>1
  <2>2. Cardinality(Below(S, NthOf(S, k))) = Cardinality(Below(S, i))
    BY <2>1, <1>10, <1>2
  <2>3. NthOf(S, k) = i
    BY <2>2, <1>4, <1>10
  <2> QED
    BY <2>3
<1> QED
  BY <1>1, <1>10, <1>11

\* The places are taken in their order.
LEMMA NthOfIncreases ==
    ASSUME NEW S \in SUBSET Nat, IsFiniteSet(S),
           NEW k \in 1..Cardinality(S), NEW l \in 1..Cardinality(S), k < l
    PROVE  NthOf(S, k) < NthOf(S, l)
<1>1. /\ NthOf(S, k) \in S /\ Cardinality(Below(S, NthOf(S, k))) = k - 1
      /\ NthOf(S, l) \in S /\ Cardinality(Below(S, NthOf(S, l))) = l - 1
      /\ Cardinality(S) \in Nat
  BY NthOfCounts
<1>2. ~(NthOf(S, l) < NthOf(S, k))
  <2> SUFFICES ASSUME NthOf(S, l) < NthOf(S, k) PROVE FALSE
    OBVIOUS
  <2>1. Cardinality(Below(S, NthOf(S, l))) < Cardinality(Below(S, NthOf(S, k)))
    BY <1>1, BelowGrows
  <2> QED
    BY <1>1, <2>1
<1>3. NthOf(S, l) # NthOf(S, k)
  BY <1>1
<1>4. NthOf(S, k) \in Nat /\ NthOf(S, l) \in Nat
  BY <1>1
<1> QED
  BY <1>2, <1>3, <1>4

\* What is picked from a sequence is a sequence of its elements, and all of
\* those at the places kept.
LEMMA PickedIsSequence ==
    ASSUME NEW A, NEW s \in Seq(A), NEW S \in SUBSET (DOMAIN s)
    PROVE  /\ PickedFrom(s, S) \in Seq(A)
           /\ Cardinality(S) \in Nat
           /\ Cardinality(S) <= Len(s)
           /\ Len(PickedFrom(s, S)) = Cardinality(S)
           /\ \A k \in DOMAIN PickedFrom(s, S) :
                 NthOf(S, k) \in S /\ PickedFrom(s, S)[k] = s[NthOf(S, k)]
<1>1. /\ S \in SUBSET Nat /\ IsFiniteSet(S)
      /\ Cardinality(S) <= Len(s)
  <2>1. DOMAIN s = 1..Len(s) /\ Len(s) \in Nat
    OBVIOUS
  <2>2. IsFiniteSet(1..Len(s)) /\ Cardinality(1..Len(s)) = Len(s)
    <3> DEFINE n == Len(s)
    <3>1. n \in Nat
      BY <2>1
    <3> HIDE DEF n
    <3>2. IsFiniteSet(1..n) /\ Cardinality(1..n) = n
      BY <3>1, FS_Interval
    <3> QED
      BY <3>2 DEF n
  <2> QED
    BY <2>1, <2>2, FS_Subset
<1>2. /\ Cardinality(S) \in Nat
      /\ \A k \in 1..Cardinality(S) : NthOf(S, k) \in S
  BY <1>1, NthOfCounts
<1>3. \A k \in 1..Cardinality(S) : s[NthOf(S, k)] \in A
  BY <1>2
<1>4. PickedFrom(s, S) \in Seq(A) /\ Len(PickedFrom(s, S)) = Cardinality(S)
  BY <1>2, <1>3 DEF PickedFrom
<1> QED
  BY <1>1, <1>2, <1>4 DEF PickedFrom

(***************************************************************************)
(* Functions defined step by step, and what holds of all their steps.      *)
(***************************************************************************)
StepByStep(f, n, a, step) ==
    f = [k \in 0..n |-> IF k = 0 THEN a ELSE step[f[k - 1]]]

LEMMA StepsExist ==
    ASSUME NEW X, NEW a \in X, NEW step \in [X -> X], NEW n \in Nat
    PROVE  \E f \in [0..n -> X] : StepByStep(f, n, a, step)
<1> DEFINE Bad == {m \in Nat : ~ \E f \in [0..m -> X] : StepByStep(f, m, a, step)}
<1> SUFFICES ASSUME Bad # {} PROVE FALSE
  OBVIOUS
<1>1. PICK m \in Bad : \A k \in Bad : m <= k
  <2> Bad \in SUBSET Nat
    OBVIOUS
  <2> HIDE DEF Bad
  <2> QED
    BY LeastExists
<1>2. m # 0
  <2> DEFINE f == [k \in 0..0 |-> a]
  <2>1. f \in [0..0 -> X] /\ StepByStep(f, 0, a, step)
    BY DEF StepByStep
  <2> HIDE DEF f
  <2> QED
    BY <2>1
<1>3. m - 1 \in Nat /\ m - 1 \notin Bad
  BY <1>1, <1>2
<1>4. PICK f \in [0..(m - 1) -> X] : StepByStep(f, m - 1, a, step)
  BY <1>3
<1> DEFINE g == [k \in 0..m |-> IF k = m THEN step[f[m - 1]] ELSE f[k]]
<1>5. g \in [0..m -> X]
  BY <1>2, <1>3
<1>6. ASSUME NEW k \in 0..m PROVE g[k] = IF k = 0 THEN a ELSE step[g[k - 1]]
  <2>1. CASE k = m
    BY <1>2, <1>3, <2>1
  <2>2. CASE k # m
    <3>1. k \in 0..(m - 1) /\ f[k] = (IF k = 0 THEN a ELSE step[f[k - 1]])
      BY <1>3, <1>4, <2>2 DEF StepByStep
    <3>2. k # 0 => g[k - 1] = f[k - 1]
      BY <1>3, <3>1
    <3> QED
      BY <3>1, <3>2, <2>2
  <2> QED
    BY <2>1, <2>2
<1> HIDE DEF g
<1>7. StepByStep(g, m, a, step)
  BY <1>5, <1>6 DEF StepByStep
<1> QED
  BY <1>1, <1>5, <1>7

\* Induction: what holds at 0 and is kept by each step holds up to n.
LEMMA StepsKeep ==
    ASSUME NEW n \in Nat, NEW Good \in SUBSET (0..n), 0 \in Good,
           \A k \in 1..n : k - 1 \in Good => k \in Good
    PROVE  Good = 0..n
<1> DEFINE Bad == (0..n) \ Good
<1> SUFFICES ASSUME Bad # {} PROVE FALSE
  OBVIOUS
<1>1. PICK m \in Bad : \A k \in Bad : m <= k
  <2> Bad \in SUBSET Nat
    OBVIOUS
  <2> HIDE DEF Bad
  <2> QED
    BY LeastExists
<1>2. m \in 1..n
  BY <1>1
<1>3. m - 1 \in 0..n /\ m - 1 \notin Bad
  BY <1>1, <1>2
<1> QED
  BY <1>1, <1>2, <1>3

=============================================================================
