---------------------------- MODULE OrderLemmas ----------------------------
(* Least and greatest elements, for the CHOOSEs that model first and last   *)
(* matches.                                                                *)
EXTENDS Naturals, WellFoundedInduction, TLAPS

\* A nonempty set of naturals has a least element.
LEMMA LeastNat ==
  ASSUME NEW T \in SUBSET Nat, T # {}
  PROVE  \E i \in T : \A j \in T : i <= j
  <1> DEFINE R == OpToRel(<, Nat)
  <1>1. IsWellFoundedOn(R, Nat)
    BY NatLessThanWellFounded
  <1>2. \A x, y \in Nat : x < y => <<x, y>> \in R
    BY DEF OpToRel
  <1> HIDE DEF R
  <1>3. PICK i \in T : \A j \in T : <<j, i>> \notin R
    BY <1>1, WFMin
  <1>4. ASSUME NEW j \in T PROVE i <= j
    <2>1. ~(j < i)
      BY <1>2, <1>3
    <2> QED BY <2>1
  <1> QED BY <1>4

\* A nonempty bounded set of naturals has a greatest element.
LEMMA GreatestNat ==
  ASSUME NEW last \in Nat, NEW T \in SUBSET (0..last), T # {}
  PROVE  \E i \in T : \A j \in T : i >= j
  <1> DEFINE M == {last - i : i \in T}
  <1>1. M \in SUBSET Nat /\ M # {}
    <2>1. \A i \in T : i \in 0..last /\ last - i \in Nat
      OBVIOUS
    <2>2. PICK i \in T : TRUE
      OBVIOUS
    <2>3. last - i \in M
      OBVIOUS
    <2> QED BY <2>1, <2>3
  <1>2. PICK m \in M : \A k \in M : m <= k
    BY <1>1, LeastNat
  <1>3. PICK i \in T : m = last - i
    BY <1>2
  <1>4. ASSUME NEW j \in T PROVE i >= j
    <2>1. last - j \in M
      OBVIOUS
    <2>2. last - i <= last - j
      BY <1>2, <1>3, <2>1
    <2> QED BY <2>2
  <1> QED BY <1>4
=============================================================================
