------------------------------ MODULE MenuList ------------------------------
(***************************************************************************)
(* The list of menus: menus.html, listMenus and MenuRepository.            *)
(***************************************************************************)
EXTENDS Integers, FiniteSets, Functions

CONSTANTS
    MenuIds,      \* the menus
    Nom,          \* name of each menu: its rank in alphabetical order
    Prix,         \* price of each menu
    Plats,        \* dishes of each menu
    NbCalories,   \* calories of each dish
    NomPlat,      \* name of each dish
    IntBits,      \* width of a Java int
    TieOrders,    \* see Listing
    ScanOrder,
    Null,
    FilterForms,  \* filters users submit; a text stands for the names it is in
    Sizes,
    DefaultSize

VARIABLE query

ASSUME MenuListAssumption ==
    /\ MenuIds \subseteq Int /\ IsFiniteSet(MenuIds)
    /\ Nom \in [MenuIds -> Int] /\ Prix \in [MenuIds -> Int]
    /\ \A t \in TieOrders : \A a, b \in MenuIds : t[a] \in Int /\ (a # b => t[a] # t[b])
    /\ IntBits \in Nat \ {0} /\ 2 ^ (IntBits - 1) \in Nat \ {0}
    /\ \A a, b \in MenuIds : ScanOrder[a] \in Int /\ (a # b => ScanOrder[a] # ScanOrder[b])
    /\ DefaultSize \in Nat \ {0} /\ Sizes \subseteq Nat \ {0}

-----------------------------------------------------------------------------
\* SUM(p2.nbCalories) in the query, computed by the database: 0 without dishes.
SumCalories(m) == SumFunctionOnSet(NbCalories, Plats[m])

\* CHECK (nb_calories >= 0), and a menu has finitely many dishes.
ASSUME SumsAssumption == \A m \in MenuIds : SumCalories(m) \in Nat

\* The value a Java int holds instead of n.
Wrap(n) == LET half == 2 ^ (IntBits - 1) IN ((n + half) % (2 * half)) - half

\* IntStream.sum wraps around.
getTotalCalories(m) == Wrap(SumCalories(m))

Criteria == {"filtre", "prixMin", "prixMax", "calMin", "calMax"}

ASSUME MenuFormsAssumption == \A f \in FilterForms :
    /\ f = [c \in Criteria |-> f[c]]
    /\ f["calMin"] \in Int \cup {Null} /\ f["calMax"] \in Int \cup {Null}

MutRetainsDishByDish(c, v, m) ==
    CASE c = "filtre"  -> Nom[m] \in v \/ \E p \in Plats[m] : NomPlat[p] \in v
      [] c = "prixMin" -> Prix[m] >= v
      [] c = "prixMax" -> Prix[m] <= v
      [] c = "calMin"  -> SumCalories(m) >= v
      [] c = "calMax"  -> \A p \in Plats[m] : NbCalories[p] <= v

\* The WHERE clause of findFiltered, one criterion at a time.  The LEFT JOIN
\* makes the text match a menu when it is in the name of any of its dishes.
Retains(c, v, m) ==
    CASE c = "filtre"  -> Nom[m] \in v \/ \E p \in Plats[m] : NomPlat[p] \in v
      [] c = "prixMin" -> Prix[m] >= v
      [] c = "prixMax" -> Prix[m] <= v
      [] c = "calMin"  -> SumCalories(m) >= v
      [] c = "calMax"  -> SumCalories(m) <= v

\* The sort columns that become a Sort of the Pageable, and the one that
\* listMenus applies to the page it got.
DbColumns == {"nom", "prix"}
MemColumns == {"cal"}

MutKeyAlwaysName(col, m) == IF col = "cal" THEN getTotalCalories(m) ELSE Nom[m]

Key(col, m) ==
    CASE col = "nom"  -> Nom[m]
      [] col = "prix" -> Prix[m]
      [] col = "cal"  -> getTotalCalories(m)

\* The criteria each link of menus.html names.
MutPageKeepsNothing == {}
PageKeeps == {"filtre"}
SortKeeps(col) == {"filtre"}
SizeKeeps == {"filtre"}
ReturnKeeps == {"filtre"}

INSTANCE Listing WITH Rows <- MenuIds

\* What the table displays in a sortable column.
Shown(col, m) ==
    CASE col = "nom"  -> Nom[m]
      [] col = "prix" -> Prix[m]
      [] col = "cal"  -> getTotalCalories(m)

-----------------------------------------------------------------------------
\* With a text search, or no filter at all, the page links lead through every
\* matching menu exactly once, whatever was clicked before, unless menus sort
\* alike: each page is a query of its own, with an OFFSET, that may order
\* those differently.
SearchWalkComplete ==
    TotalPages(query) > 1 /\ query.filter = Keep(query.filter, {"filtre"}) /\ Decided(query)
        => WalkComplete(query)

\* Sorted by name or price, the menus stay in order from one page to the next,
\* however the database orders the menus of the same name or price.
SortSpansPages ==
    query.sort.col \in {"nom", "prix"} /\ query.filter = Keep(query.filter, {"filtre"})
        => WalkSorted(query, Shown)

\* The query sums in the database, the page in a Java int.  They part only
\* where the sum does not fit into an int, and then the total displayed is too
\* small: no menu is listed with a total above calMax, and one with a total
\* below calMin has dishes whose calories overflow.
OutsideOnlyByOverflow ==
    \A t \in TieOrders : \A m \in Slice(query, t) :
        LET shown == getTotalCalories(m)
            min == query.filter["calMin"]
            max == query.filter["calMax"]
        IN /\ max # Null => shown <= max
           /\ min # Null /\ shown < min => SumCalories(m) >= 2 ^ (IntBits - 1)

\* Whatever the filter, and wherever submitting it leaves the browser, the
\* numbered links and the next arrow lead to menus, as does the previous arrow
\* from a page no more than one beyond the end: the links drop criteria, and
\* dropping a criterion only adds menus.
MenuLinksLeadToRows == LinksLeadToRows(query)

-----------------------------------------------------------------------------
=============================================================================
