------------------------------ MODULE NatExtremes ------------------------------
(***************************************************************************)
(* Least and greatest elements of sets of natural numbers, which Min and   *)
(* Max of FiniteSetsExt choose.                                            *)
(***************************************************************************)
EXTENDS Integers, FiniteSetsExt, FiniteSetTheorems, WellFoundedInduction, TLAPS

\* A set of naturals that has an element has a least one: the interval up to it
\* is least among the intervals, which inclusion orders well.
LEMMA MinOfNats ==
  ASSUME NEW S \in SUBSET Nat, S # {}
  PROVE  Min(S) \in S /\ \A n \in S : Min(S) =< n
<1> DEFINE T == {1..n : n \in S}
<1>1. T # {}
  OBVIOUS
<1>2. T \subseteq FiniteSubsetsOf(Nat)
  BY FS_Interval DEF FiniteSubsetsOf
<1>3. PICK t \in T : \A u \in T : <<u, t>> \notin StrictSubsetOrdering(Nat)
  BY <1>1, <1>2, FS_StrictSubsetOrderingWellFounded, WFMin
<1>4. PICK m \in S : t = 1..m
  BY <1>3
<1>5. ASSUME NEW n \in S, n < m PROVE FALSE
  <2>1. 1..n \in T /\ 1..n \subseteq 1..m /\ m \in 1..m /\ m \notin 1..n
    BY <1>5
  <2>2. 1..n \in SUBSET Nat /\ 1..m \in SUBSET Nat
    OBVIOUS
  <2>3. <<1..n, 1..m>> \in StrictSubsetOrdering(Nat)
    BY <2>1, <2>2 DEF StrictSubsetOrdering
  <2> QED  BY <1>3, <1>4, <2>1, <2>3
<1>6. \E k \in S : \A n \in S : k =< n
  BY <1>4, <1>5
<1> QED
  BY <1>6 DEF Min

\* A bounded one has a greatest.
LEMMA MaxOfNats ==
  ASSUME NEW S \in SUBSET Nat, S # {}, NEW b \in Nat, \A n \in S : n =< b
  PROVE  Max(S) \in S /\ \A n \in S : n =< Max(S)
<1> DEFINE T == {b - n : n \in S}
<1>1. T # {} /\ T \in SUBSET Nat
  <2>1. \A n \in S : b - n \in Nat
    OBVIOUS
  <2> QED  BY <2>1
<1>2. PICK n \in S : Min(T) = b - n
  BY <1>1, MinOfNats
<1>3. \A k \in S : b - n =< b - k
  BY <1>1, <1>2, MinOfNats
<1>4. \E m \in S : \A k \in S : m >= k
  BY <1>3
<1> QED
  BY <1>4 DEF Max
=============================================================================
