----------------------------- MODULE MCPlatList -----------------------------
(***************************************************************************)
(* A small instance of PlatList for TLC: five dishes of two categories,    *)
(* whose names are not in the order of their keys, in pages of one,        *)
(* two or three (5, 10 and 15 in plats.html), and a different order for    *)
(* every column.                                                           *)
(***************************************************************************)
EXTENDS PlatList

FiveDishes == 1 .. 5

\* The order of the keys and its reverse, for the rows ORDER BY leaves undecided.
BothWays == {[r \in 1 .. 5 |-> r], [r \in 1 .. 5 |-> 5 - r]}

\* The database reads neither in the order of the keys nor in its reverse.
AsStored == <<2, 4, 1, 5, 3>>

Names == <<3, 1, 5, 2, 4>>
Categories == <<1, 2, 1, 2, 2>>
CategoryNames == <<9, 8>>
Nutrition == [n \in Nutriments |->
    CASE n = "Calories"  -> <<6, 7, 2, 2, 0>>
      [] n = "Lipides"   -> <<1, 0, 2, 3, 1>>
      [] n = "Glucides"  -> <<4, 4, 4, 0, 5>>
      [] n = "Proteines" -> <<0, 2, 1, 2, 3>>]

\* Every combination of a text, a category, bounds on the calories and a bound
\* on another nutrient.
Choices == [motCle |-> {1, 3, 4, 5}, categorieId |-> 2, minCalories |-> 1, maxCalories |-> 6,
            minLipides |-> 1, maxGlucides |-> 4, minProteines |-> 1]
SomeFilters == {[c \in Criteria |-> IF c \in given THEN Choices[c] ELSE Null] :
                    given \in SUBSET DOMAIN Choices}
=============================================================================
