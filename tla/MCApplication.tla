--------------------------- MODULE MCApplication ----------------------------
(***************************************************************************)
(* Small instances of Application for TLC.                                 *)
(***************************************************************************)
EXTENDS Application, TLC

\* Rows: two dishes that differ in either column, a menu and its edition,
\* and a menu whose description the form accepts but the column does not.
RowA0 == [nom |-> "a", nbCalories |-> 0]
RowB0 == [nom |-> "b", nbCalories |-> 0]
RowA1 == [nom |-> "a", nbCalories |-> 1]
MenuA == [nom |-> "a", description |-> 10, prix |-> 100]
MenuB == [nom |-> "b", description |-> 255, prix |-> 1250]
MenuLong == [nom |-> "a", description |-> 256, prix |-> 100]

Names == {"a", "b"}
NoForms == {}
DishForms == {RowA0, RowB0, RowA1}
OneDishForm == {RowB0}
OneMenuForm == {MenuB}
MenuAndLong == {MenuB, MenuLong}

\* One dish, no menu.
OneDish == [p \in PlatIds |-> IF p = 1 THEN RowA0 ELSE Absent]
NoMenu == [m \in MenuIds |-> Absent]
NoPairs == {}

\* Dishes 1 .. n; menu 1, made of dish 1.
AllDishes == [p \in PlatIds |-> RowA0]
TwoDishes == [p \in PlatIds |-> IF p <= 2 THEN RowA0 ELSE Absent]
OneMenu == [m \in MenuIds |-> IF m = 1 THEN MenuA ELSE Absent]
MenuOfDish1 == {<<1, 1>>}

AnySelection == (SUBSET PlatIds) \ {{}}

\* The union of the last two is a subset of none of them.
Overlapping == {{1}, {1, 2}, {1, 3}}

\* Menu 1 exchanges its dish or gains another.
OtherDish == {{2}, {1, 2}}

ClientSymmetry == Permutations(Clients)
=============================================================================
