----------------------------- MODULE Rendering ------------------------------
(***************************************************************************)
(* One request for the list of menus, or for the details of one, while the *)
(* rest of the application changes the catalogue as Carte lets it.  The    *)
(* query reads the menus; the dishes of each are loaded later, lazily, by  *)
(* the first call of getPlats, and stay in the session of the request.     *)
(*                                                                         *)
(* Totals are integers here; MenuList has their width.                     *)
(***************************************************************************)
EXTENDS Carte, Integers, Sequences, Functions

CONSTANTS
    Nutriments,   \* the columns of a dish that Menu sums up
    Filtres,      \* ranges of calories users ask for: [min, max]
    PageSize      \* most menus on a page

VARIABLES
    etat,         \* "libre", "tri" in listMenus or "rendu" in the view
    vue,          \* the view rendered
    sort,         \* parameter sort of the list
    filtre,       \* its bounds on the calories
    liste,        \* the menus, in the order in which the view lists them
    entites,      \* the dishes in the session, as they were loaded
    collections,  \* the collections plats that are initialized
    affiche,      \* the rows rendered so far
    vu            \* dishes and compositions there have been since the query

session == <<entites, collections>>
request == <<vue, sort, filtre>>
pageVars == <<etat, request, liste, session, affiche, vu>>
allVars == <<vars, pageVars>>

ASSUME RenderingAssumption ==
    /\ "nbCalories" \in Nutriments
    /\ \A row \in PlatRows : \A n \in Nutriments : row[n] \in Int
    /\ PageSize \in Nat

\* Sum of a column over some dishes.
Total(n, dishes, rows) == SumFunctionOnSet([p \in dishes |-> rows[p][n]], dishes)

\* getTotalCalories, getTotalGlucides, ... of a menu whose dishes are loaded.
Totaux(dishes, rows) == [n \in Nutriments |-> Total(n, dishes, rows)]

MutRetenuMin(f, m) ==
    LET sum == Total("nbCalories", composition[m], plats) IN f.min <= sum

\* findFiltered compares the sum that the database computes.
Retenu(f, m) ==
    LET sum == Total("nbCalories", composition[m], plats) IN f.min <= sum /\ sum <= f.max

-----------------------------------------------------------------------------
Open(v, s, f, l) ==
    /\ etat = "libre"
    /\ vue' = v /\ sort' = s /\ filtre' = f /\ liste' = l
    /\ etat' = IF s \in {"calAsc", "calDesc"} /\ Len(l) > 1 THEN "tri" ELSE "rendu"
    /\ vu' = {<<plats, composition>>}
    /\ UNCHANGED <<vars, session, affiche>>

\* GET /menus: some page of the menus retained, in some order of the query.
ListMenus(s, f, l) ==
    /\ \A i \in DOMAIN l : menus[l[i]] # Absent /\ Retenu(f, l[i])
    /\ Open("menus", s, f, l)

\* GET /menuDetail: findById; a menu that is gone redirects to the list.
ShowMenuDetail(m) ==
    /\ menus[m] # Absent
    /\ Open("menuDetail", "", [min |-> 0, max |-> 0], <<m>>)

MutGetPlatsReloads(m) ==
    /\ collections' = [k \in DOMAIN collections \cup {m} |->
                          IF k = m THEN composition[m] ELSE collections[k]]
    /\ entites' = [p \in DOMAIN entites \cup composition[m] |->
                      IF p \in DOMAIN entites THEN entites[p] ELSE plats[p]]

\* The first use of menu.plats in a session loads the dishes of the menu, in
\* one statement that sees what is committed by then: none if the menu was
\* deleted.  A dish that is in the session already is left as it is there.
GetPlats(m) ==
    IF m \in DOMAIN collections THEN UNCHANGED session
    ELSE /\ collections' = [k \in DOMAIN collections \cup {m} |->
                               IF k = m THEN composition[m] ELSE collections[k]]
         /\ entites' = [p \in DOMAIN entites \cup composition[m] |->
                           IF p \in DOMAIN entites THEN entites[p] ELSE plats[p]]

\* A comparison of the in-memory sort asks two menus for their totals.
Compare(i, j) ==
    /\ etat = "tri"
    /\ i # j
    /\ IF liste[i] \in DOMAIN collections THEN GetPlats(liste[j]) ELSE GetPlats(liste[i])
    /\ UNCHANGED <<vars, etat, request, liste, affiche, vu>>

SessionTotal(m) == Total("nbCalories", collections[m], entites)

Precedes(a, b) ==
    IF sort = "calAsc" THEN SessionTotal(a) < SessionTotal(b) ELSE SessionTotal(a) > SessionTotal(b)

\* l is what List.sort, which is stable, makes of the list.
IsSorted(l) == \A i, j \in DOMAIN l : i < j =>
    /\ ~Precedes(l[j], l[i])
    /\ \/ Precedes(l[i], l[j])
       \/ \E k, n \in DOMAIN liste : k < n /\ liste[k] = l[i] /\ liste[n] = l[j]

\* The end of the sort: every menu has been compared with another one.
SortPage(l) ==
    /\ etat = "tri"
    /\ Range(liste) \subseteq DOMAIN collections
    /\ DOMAIN l = DOMAIN liste /\ Range(l) = Range(liste)
    /\ IsSorted(l)
    /\ liste' = l
    /\ etat' = "rendu"
    /\ UNCHANGED <<vars, request, session, affiche, vu>>

\* What the view shows of menu m: its totals, then its dishes one by one.
Ligne(m, dishes, rows) ==
    [menu |-> m, totaux |-> Totaux(dishes, rows), plats |-> [p \in dishes |-> rows[p]]]

MutRenderQueriesSum ==
    /\ etat = "rendu"
    /\ Len(affiche) < Len(liste)
    /\ LET m == liste[Len(affiche) + 1]
       IN /\ GetPlats(m)
          /\ affiche' = Append(affiche,
                [Ligne(m, collections'[m], entites')
                     EXCEPT !.totaux = Totaux(composition[m], plats)])
    /\ UNCHANGED <<vars, etat, request, liste, vu>>

\* The view renders the next menu: a line of the table, or the whole page of
\* details.
Render ==
    /\ etat = "rendu"
    /\ Len(affiche) < Len(liste)
    /\ LET m == liste[Len(affiche) + 1]
       IN /\ GetPlats(m)
          /\ affiche' = Append(affiche, Ligne(m, collections'[m], entites'))
    /\ UNCHANGED <<vars, etat, request, liste, vu>>

Empty == [k \in {} |-> 0]

MutRespondKeepsSession ==
    /\ etat = "rendu"
    /\ Len(affiche) = Len(liste)
    /\ etat' = "libre"
    /\ liste' = <<>> /\ affiche' = <<>> /\ vu' = {}
    /\ UNCHANGED <<vars, request, session>>

\* The page is sent and the session of the request is closed.
Respond ==
    /\ etat = "rendu"
    /\ Len(affiche) = Len(liste)
    /\ etat' = "libre"
    /\ liste' = <<>> /\ affiche' = <<>> /\ vu' = {}
    /\ entites' = Empty /\ collections' = Empty
    /\ UNCHANGED <<vars, request>>

\* The request is at rest while another one takes a step.
Observe ==
    /\ vu' = IF etat = "libre" THEN {} ELSE vu \cup {<<plats', composition'>>}
    /\ UNCHANGED <<etat, request, liste, session, affiche>>

\* Another request changes the catalogue.
Elsewhere == Next /\ Observe

ReaderInit ==
    /\ etat = "libre" /\ vue = "menus" /\ sort = "" /\ filtre = [min |-> 0, max |-> 0]
    /\ liste = <<>> /\ affiche = <<>> /\ vu = {}
    /\ entites = Empty /\ collections = Empty

\* The pages the query may return: no menu twice.
Pages == {l \in UNION {[1 .. n -> MenuIds] : n \in 0 .. PageSize} : IsInjective(l)}

Reader ==
    \/ \E s \in {"", "calAsc", "calDesc"}, f \in Filtres, l \in Pages : ListMenus(s, f, l)
    \/ \E m \in MenuIds : ShowMenuDetail(m)
    \/ \E i, j \in DOMAIN liste : Compare(i, j)
    \/ \E l \in Pages : SortPage(l)
    \/ Render
    \/ Respond

PageInit == Init /\ ReaderInit

PageNext == Reader \/ Elsewhere

PageSpec == PageInit /\ [][PageNext]_allVars

-----------------------------------------------------------------------------
Lignes == {affiche[i] : i \in DOMAIN affiche}

\* Everything on one page agrees, although its menus are loaded one after the
\* other while dishes and menus are being changed: the totals of a menu are
\* the sums of the dishes listed with it, and a dish of two menus is the same
\* in both.
PageAgrees ==
    /\ \A x \in Lignes : x.totaux = Totaux(DOMAIN x.plats, x.plats)
    /\ \A x, y \in Lignes : \A p \in DOMAIN x.plats \cap DOMAIN y.plats :
           x.plats[p] = y.plats[p]

\* Sorted by calories, a page is in the order of the totals it displays, even
\* if the calories change between the sort in listMenus and the rendering: no
\* menu has less, or descending more, than one listed above it.
SortedAsShown ==
    sort \in {"calAsc", "calDesc"} =>
        \A i, j \in DOMAIN affiche : i < j =>
            LET a == affiche[i].totaux["nbCalories"]
                b == affiche[j].totaux["nbCalories"]
            IN IF sort = "calAsc" THEN ~(b < a) ELSE ~(b > a)

\* A page shows nothing older than its request: the dishes listed with a menu
\* were its dishes at some moment since, each of them as it was at some moment
\* since; the details of a menu are as they were at one and the same moment.
NothingStale ==
    \A x \in Lignes :
        /\ \E d \in vu : DOMAIN x.plats = d[2][x.menu]
        /\ \A p \in DOMAIN x.plats : \E d \in vu : x.plats[p] = d[1][p]
        /\ vue = "menuDetail" =>
               \E d \in vu : x.plats = [p \in d[2][x.menu] |-> d[1][p]]

\* A menu is listed with a total outside the bounds asked for only if its
\* dishes, or their rows, were changed since the query that applied them.
OutsideOnlyIfChanged ==
    vue = "menus" =>
        \A x \in Lignes :
            \/ filtre.min <= x.totaux["nbCalories"] /\ x.totaux["nbCalories"] <= filtre.max
            \/ \E d, e \in vu : \/ d[2][x.menu] # e[2][x.menu]
                                \/ \E p \in d[2][x.menu] : d[1][p] # e[1][p]
=============================================================================
