---------------------------- MODULE MCRendering -----------------------------
(***************************************************************************)
(* A small instance of Rendering for TLC: two dishes that menus share, each *)
(* light or rich in either of two nutrients.                               *)
(***************************************************************************)
EXTENDS Rendering, FiniteSets, TLC

CONSTANT MaxSeen      \* bound on the states of the catalogue during a request

BoundedNext == Reader \/ (Elsewhere /\ Cardinality(vu') <= MaxSeen)

BoundedSpec == PageInit /\ [][BoundedNext]_allVars

Light == [nbCalories |-> 1, nbLipides |-> 3]
Rich == [nbCalories |-> 2, nbLipides |-> 0]
TwoRows == {Light, Rich}
TwoNutriments == {"nbCalories", "nbLipides"}

\* Any total, and one that leaves out a menu without dishes and one with two
\* rich dishes.
TwoRanges == {[min |-> 0, max |-> 9], [min |-> 1, max |-> 3]}

IdSymmetry == Permutations(PlatIds) \cup Permutations(MenuIds)
=============================================================================
