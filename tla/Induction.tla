----------------------------- MODULE Induction ------------------------------
(***************************************************************************)
(* Induction over the natural numbers in the form of a least               *)
(* counterexample, for the proofs about what loops and recursions compute. *)
(***************************************************************************)
EXTENDS Integers, WellFoundedInduction, TLAPS

\* A non-empty set of natural numbers has a least member: if a fact fails
\* anywhere in a loop, there is a first turn at which it fails.
LEMMA LeastNatural ==
    ASSUME NEW S \in SUBSET Nat, S # {}
    PROVE  \E n \in S : \A k \in S : n <= k
<1>. DEFINE Less == {ss \in Nat \X Nat : ss[1] < ss[2]}
<1>1. IsWellFoundedOn(Less, Nat)
  BY NatLessThanWellFounded, Zenon DEF OpToRel
<1>2. PICK n \in S : \A k \in S : ~(<<k, n>> \in Less)
  <2>. HIDE DEF Less
  <2>. QED  BY <1>1, WFMin
<1>3. \A k \in S : ~(k < n)
  BY <1>2
<1>. QED  BY <1>3
=============================================================================
