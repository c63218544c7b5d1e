------------------------------ MODULE Extrema -------------------------------
(***************************************************************************)
(* Least and greatest elements of sets of numbers, for the minima and      *)
(* maxima the code computes in loops.                                      *)
(***************************************************************************)
EXTENDS Integers, WellFoundedInduction, TLAPS

(* A non-empty set of numbers has a least element: what the loops of        *)
(* GetMinActiveTxID, and the neighbour test of vacuumLeaf, look for.        *)
LEMMA LeastExists ==
  ASSUME NEW S \in SUBSET Nat, S # {}
  PROVE  \E x \in S : \A y \in S : x <= y
<1>1. \E x \in S : \A y \in S : ~(<<y, x>> \in OpToRel(<, Nat))
  BY NatLessThanWellFounded, WFMin
<1>2. PICK x \in S : \A y \in S : ~(<<y, x>> \in OpToRel(<, Nat))
  BY <1>1
<1>3. \A y \in S : ~(y < x)
  BY <1>2 DEF OpToRel
<1> QED  BY <1>3

(* A non-empty bounded set of numbers has a greatest element: the version   *)
(* FindLatest keeps in bestKV.                                              *)
LEMMA GreatestExists ==
  ASSUME NEW n \in Nat, NEW S \in SUBSET (0 .. n), S # {}
  PROVE  \E x \in S : \A y \in S : y <= x
<1> DEFINE T == {m \in Nat : \E y \in S : m = n - y}
<1>1. T \in SUBSET Nat /\ T # {}
  <2>1. PICK y \in S : TRUE  OBVIOUS
  <2>2. n - y \in T  BY <2>1
  <2> QED  BY <2>2
<1>2. PICK m \in T : \A l \in T : m <= l
  BY <1>1, LeastExists
<1>3. PICK x \in S : m = n - x
  BY <1>2
<1>4. ASSUME NEW y \in S PROVE y <= x
  <2>1. n - y \in T  OBVIOUS
  <2> QED  BY <2>1, <1>2, <1>3
<1> QED  BY <1>4
=============================================================================
