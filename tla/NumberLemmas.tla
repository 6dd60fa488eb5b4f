---------------------------- MODULE NumberLemmas ----------------------------
(***************************************************************************)
(* Facts about numbers that several of the proofs need.                    *)
(***************************************************************************)
EXTENDS Integers, FiniteSets, FiniteSetTheorems, WellFoundedInduction, TLAPS

\* A set of naturals that is not empty has a least element.
LEMMA LeastNatural ==
    ASSUME NEW S \in SUBSET Nat, S # {}
    PROVE  \E m \in S : \A k \in S : m <= k
  <1> DEFINE R == OpToRel(<, Nat)
  <1>1. IsWellFoundedOn(R, Nat)
    BY NatLessThanWellFounded
  <1>2. \A x, y \in Nat : x < y => <<x, y>> \in R
    BY DEF OpToRel
  <1> HIDE DEF R
  <1>3. PICK m \in S : \A y \in S : ~ (<<y, m>> \in R)
    BY <1>1, WFMin
  <1>4. \A y \in S : ~ (y < m)
    BY <1>2, <1>3
  <1>5. \A y \in S : m <= y
    BY <1>4
  <1> QED BY <1>5

\* One that is bounded has a greatest.
LEMMA GreatestNatural ==
    ASSUME NEW S \in SUBSET Nat, S # {}, NEW n \in Nat, \A k \in S : k <= n
    PROVE  \E m \in S : \A k \in S : k <= m
  <1> DEFINE T == {n - k : k \in S}
  <1>1. T \in SUBSET Nat /\ T # {}
    <2>1. \A k \in S : n - k \in Nat
      OBVIOUS
    <2>2. T \subseteq Nat
      BY <2>1
    <2>3. \E k \in S : n - k \in T
      OBVIOUS
    <2> QED BY <2>2, <2>3
  <1> HIDE DEF T
  <1>2. PICK j \in T : \A k \in T : j <= k
    BY <1>1, LeastNatural
  <1>3. PICK m \in S : j = n - m
    BY DEF T
  <1>4. \A k \in S : n - m <= n - k
    BY <1>2, <1>3 DEF T
  <1> QED BY <1>4

\* The numbers from i to j.
LEMMA IntervalCardinality ==
    ASSUME NEW i \in Int, NEW j \in Int, i <= j + 1
    PROVE  IsFiniteSet(i .. j) /\ Cardinality(i .. j) = j - i + 1
  <1> DEFINE I == i .. j
  <1>1. /\ IsFiniteSet(I)
        /\ Cardinality(I) = IF i > j THEN 0 ELSE j - i + 1
    BY FS_Interval, Zenon
  <1> HIDE DEF I
  <1>2. IsFiniteSet(I) /\ Cardinality(I) = j - i + 1
    BY <1>1
  <1> QED BY <1>2 DEF I

=============================================================================
