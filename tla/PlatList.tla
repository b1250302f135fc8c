------------------------------ MODULE PlatList ------------------------------
(***************************************************************************)
(* The list of dishes: plats.html, listePlats and PlatRepository.          *)
(***************************************************************************)
EXTENDS Integers, FiniteSets

CONSTANTS
    PlatIds,      \* the dishes
    Nom,          \* name of each dish: its rank in alphabetical order
    Categorie,    \* category of each dish
    NomCategorie, \* name of each category: its rank in alphabetical order
    Nb,           \* Nb[n][p]: the nbCalories, nbLipides, ... of dish p
    TieOrders,    \* see Listing
    ScanOrder,
    Null,
    FilterForms,  \* filters users submit; a text stands for the names it is in
    Sizes,
    DefaultSize

VARIABLE query

\* The nutrients and the parameters that bound them.
MinOf == [minCalories |-> "Calories", minLipides |-> "Lipides",
          minGlucides |-> "Glucides", minProteines |-> "Proteines"]
MaxOf == [maxCalories |-> "Calories", maxLipides |-> "Lipides",
          maxGlucides |-> "Glucides", maxProteines |-> "Proteines"]
Nutriments == {"Calories", "Lipides", "Glucides", "Proteines"}

ASSUME PlatListAssumption ==
    /\ PlatIds \subseteq Int /\ IsFiniteSet(PlatIds)
    /\ Nom \in [PlatIds -> Int]
    /\ \A p \in PlatIds : NomCategorie[Categorie[p]] \in Int
    /\ Nb \in [Nutriments -> [PlatIds -> Int]]
    /\ \A t \in TieOrders : \A a, b \in PlatIds : t[a] \in Int /\ (a # b => t[a] # t[b])
    /\ \A a, b \in PlatIds : ScanOrder[a] \in Int /\ (a # b => ScanOrder[a] # ScanOrder[b])
    /\ DefaultSize \in Nat \ {0} /\ Sizes \subseteq Nat \ {0}

-----------------------------------------------------------------------------
Criteria == {"motCle", "categorieId"} \cup DOMAIN MinOf \cup DOMAIN MaxOf

ASSUME DishFormsAssumption == \A f \in FilterForms : f = [c \in Criteria |-> f[c]]

\* The WHERE clause of findFiltered, one criterion at a time.
Retains(c, v, p) ==
    \/ c = "motCle" /\ Nom[p] \in v
    \/ c = "categorieId" /\ Categorie[p] = v
    \/ c \in DOMAIN MinOf /\ Nb[MinOf[c]][p] >= v
    \/ c \in DOMAIN MaxOf /\ Nb[MaxOf[c]][p] <= v

\* Every sort column becomes a Sort of the Pageable.
DbColumns == {"nom", "cat"} \cup Nutriments
MemColumns == {}

MutKeyCategoryId(col, p) ==
    CASE col = "nom" -> Nom[p]
      [] col = "cat" -> Categorie[p]
      [] col \in Nutriments -> Nb[col][p]

Key(col, p) ==
    CASE col = "nom" -> Nom[p]
      [] col = "cat" -> NomCategorie[Categorie[p]]
      [] col \in Nutriments -> Nb[col][p]

\* The criteria each link of plats.html names: the page links and the choice
\* of a size carry the calories, a nutrient's header its own bounds.
MutPageKeepsSearch == {"motCle"}
PageKeeps == {"motCle", "categorieId", "minCalories", "maxCalories"}
SortKeeps(col) ==
    LET n == IF col \in Nutriments THEN col ELSE "Calories"
    IN {"motCle", "categorieId"} \cup {c \in DOMAIN MinOf : MinOf[c] = n}
                                 \cup {c \in DOMAIN MaxOf : MaxOf[c] = n}
SizeKeeps == {"motCle", "categorieId", "minCalories", "maxCalories"}
ReturnKeeps == {"motCle"}

INSTANCE Listing WITH Rows <- PlatIds

\* What the table displays in a sortable column.
Shown(col, p) ==
    CASE col = "nom" -> Nom[p]
      [] col = "cat" -> NomCategorie[Categorie[p]]
      [] col \in Nutriments -> Nb[col][p]

-----------------------------------------------------------------------------
\* The criteria that both the links and the property below are about.
Carried == {"motCle", "categorieId", "minCalories", "maxCalories"}

\* Filtered by text, category and calories, the page links lead through every
\* matching dish exactly once, whatever was clicked before, unless dishes sort
\* alike: each page is a query of its own, with an OFFSET, that may order
\* those differently.
CalorieWalkComplete ==
    TotalPages(query) > 1 /\ query.filter = Keep(query.filter, Carried) /\ Decided(query)
        => WalkComplete(query)

\* Sorted by any column, the dishes stay in order from one page to the next,
\* however the database orders the dishes that are alike in that column.
DishSortSpansPages ==
    query.sort.col # "" /\ query.filter = Keep(query.filter, Carried)
        => WalkSorted(query, Shown)

\* Whatever the filter, and wherever submitting it leaves the browser, the
\* numbered links and the next arrow lead to dishes, as does the previous arrow
\* from a page no more than one beyond the end: the links drop criteria, and
\* dropping a criterion only adds dishes.
DishLinksLeadToRows == LinksLeadToRows(query)
=============================================================================
