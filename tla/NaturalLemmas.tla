---------------------------- MODULE NaturalLemmas ----------------------------
(***************************************************************************)
(* What the proofs of more than one component need of the naturals: that a *)
(* CHOOSE of a least one finds one.                                        *)
(***************************************************************************)
EXTENDS FiniteSetTheorems, WellFoundedInduction, TLAPS

(* Every set of naturals that has an element has a least one.              *)
LEMMA LeastNatural ==
  ASSUME NEW S \in SUBSET Nat, S # {}
  PROVE  \E v \in S : \A w \in S : v <= w
<1> DEFINE Below == {1..n : n \in S}
<1>1. Below \subseteq FiniteSubsetsOf(Nat) /\ Below # {}
  <2>1. ASSUME NEW n \in S PROVE 1..n \in SUBSET Nat /\ IsFiniteSet(1..n)
    BY FS_Interval
  <2> QED
    BY <2>1 DEF FiniteSubsetsOf
<1>2. PICK x \in Below : \A y \in Below : ~ (<<y, x>> \in StrictSubsetOrdering(Nat))
  <2>1. IsWellFoundedOn(StrictSubsetOrdering(Nat), FiniteSubsetsOf(Nat))
    BY FS_StrictSubsetOrderingWellFounded
  <2> HIDE DEF Below
  <2> QED
    BY <1>1, <2>1, WFMin
<1>3. PICK v \in S : x = 1..v
  OBVIOUS
<1>4. ASSUME NEW w \in S, w < v PROVE FALSE
  <2>1. 1..w \subseteq 1..v /\ v \in 1..v /\ v \notin 1..w
    BY <1>4
  <2>2. <<1..w, 1..v>> \in StrictSubsetOrdering(Nat)
    BY <2>1 DEF StrictSubsetOrdering
  <2> QED
    BY <1>2, <1>3, <2>2
<1> QED
  BY <1>4

=============================================================================
