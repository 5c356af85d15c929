------------------------------ MODULE WellOrder ------------------------------
(***************************************************************************)
(* The least element of a set of naturals, and induction over a set: the   *)
(* library states induction for an operator, here it is stated for a set,  *)
(* which is what the provers can instantiate.                              *)
(***************************************************************************)
EXTENDS Integers, FiniteSetTheorems, TLAPS

\* A set of naturals that is not empty has a least element: the intervals
\* below its elements are finite sets, and the smallest of them is its own.
LEMMA LeastNatural ==
  ASSUME NEW S \in SUBSET Nat, S # {}
  PROVE  \E m \in S : \A n \in S : m <= n
PROOF
<1> DEFINE T == {0..m : m \in S}
<1>1. T \subseteq FiniteSubsetsOf(Nat)
  <2>1. \A m \in S : IsFiniteSet(0..m)
    BY FS_Interval
  <2>2. QED
    BY <2>1 DEF FiniteSubsetsOf
<1>2. T # {}
  OBVIOUS
<1>3. PICK A \in T : \A B \in T : <<B, A>> \notin StrictSubsetOrdering(Nat)
  <2>1. IsWellFoundedOn(StrictSubsetOrdering(Nat), FiniteSubsetsOf(Nat))
    BY FS_StrictSubsetOrderingWellFounded
  <2> HIDE DEF T
  <2>2. QED
    BY <2>1, <1>1, <1>2, WFMin
<1>4. PICK m \in S : A = 0..m
  OBVIOUS
<1>5. ASSUME NEW n \in S, ~(m <= n)
      PROVE  FALSE
  <2>1. (0..n) \in T
    OBVIOUS
  <2>2. 0..n \subseteq 0..m /\ 0..n # 0..m /\ 0..m \subseteq Nat
    <3>1. m \in 0..m /\ m \notin 0..n
      BY <1>5
    <3>2. QED
      BY <3>1, <1>5
  <2>3. <<0..n, 0..m>> \in StrictSubsetOrdering(Nat)
    BY <2>2 DEF StrictSubsetOrdering
  <2>4. QED
    BY <2>1, <2>3, <1>3, <1>4
<1>6. QED
  BY <1>5

\* Induction: a set that holds zero and every successor of its naturals holds
\* them all.
LEMMA SetInduction ==
  ASSUME NEW S, 0 \in S, \A n \in Nat : n \in S => n + 1 \in S
  PROVE  Nat \subseteq S
PROOF
<1>1. SUFFICES ASSUME Nat \ S # {} PROVE FALSE
  OBVIOUS
<1>2. PICK m \in Nat \ S : \A n \in Nat \ S : m <= n
  BY <1>1, LeastNatural
<1>3. m # 0
  OBVIOUS
<1>4. m - 1 \in Nat /\ m - 1 \notin Nat \ S
  BY <1>2, <1>3
<1>5. QED
  BY <1>4

\* A power of two is at least one, being the number of subsets of a set.
LEMMA PowerPositive ==
  ASSUME NEW n \in Nat
  PROVE  2 ^ n \in Nat /\ 2 ^ n >= 1
PROOF
<1>1. IsFiniteSet(1..n) /\ Cardinality(1..n) = n
  BY FS_Interval
<1>2. IsFiniteSet(SUBSET (1..n)) /\ Cardinality(SUBSET (1..n)) = 2 ^ n
  BY <1>1, FS_SUBSET
<1>3. 2 ^ n \in Nat
  BY <1>2, FS_CardinalityType
<1>4. 2 ^ n # 0
  <2>1. SUBSET (1..n) # {}
    OBVIOUS
  <2>2. QED
    BY <1>2, <2>1, FS_EmptySet
<1>5. QED
  BY <1>3, <1>4
=============================================================================
