---------------------------- MODULE LeastElement -----------------------------
(***************************************************************************)
(* A fact about the naturals that the proofs about ob1's matching take as  *)
(* a hypothesis; Ob1MatchProofs derives it from WellFoundedInduction.      *)
(***************************************************************************)
EXTENDS Naturals

\* Every set of naturals that is not empty has a least element.
Least == \A T \in SUBSET Nat : T # {} => \E x \in T : \A y \in T : x <= y
==============================================================================
