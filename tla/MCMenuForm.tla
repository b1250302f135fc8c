----------------------------- MODULE MCMenuForm -----------------------------
(***************************************************************************)
(* A small instance of MenuForm for TLC: three dishes whose totals differ  *)
(* for any two selections, one filter that hides a dish and one that does  *)
(* not (the reset link).                                                   *)
(***************************************************************************)
EXTENDS MenuForm

ThreeDishes == 1 .. 3
PowersOfTwo == [p \in Dishes |-> 2 ^ p]
PowersOfThree == [p \in Dishes |-> 3 ^ p]
OneHidden == {{1, 2}, Dishes}
=============================================================================
