----------------------------- MODULE MCMenuList -----------------------------
(***************************************************************************)
(* A small instance of MenuList for TLC: five menus, in pages of one, two  *)
(* or four (5, 10 and 20 in menus.html), whose order by name, by price and *)
(* by calories all differ.  Menu 5 has no dishes; menus 1 and 4 cost the   *)
(* same; the calories of menus 1 and 3 do not fit into an int.             *)
(***************************************************************************)
EXTENDS MenuList

FiveMenus == 1 .. 5

\* The order of the keys and its reverse, for the rows ORDER BY leaves undecided.
BothWays == {[r \in 1 .. 5 |-> r], [r \in 1 .. 5 |-> 5 - r]}

\* The database reads neither in the order of the keys nor in its reverse.
AsStored == <<2, 4, 1, 5, 3>>

Names == <<3, 1, 5, 2, 4>>
Prices == <<2, 3, 1, 2, 4>>
Dishes == <<{1, 2}, {3}, {2, 3}, {1, 3}, {}>>
Calories == <<4, 7, 2>>
DishNames == <<11, 12, 13>>

\* Searching a text found in two names of menus and in one of a dish, with
\* every combination of one bound per criterion.
Choices == [filtre |-> {1, 4, 12}, prixMin |-> 2, prixMax |-> 3, calMin |-> 1, calMax |-> 5]
AnyFilter == {[c \in Criteria |-> IF c \in given THEN Choices[c] ELSE Null] :
                  given \in SUBSET Criteria}
=============================================================================
