-------------------------- MODULE RenderingProofs ---------------------------
(***************************************************************************)
(* Whatever the catalogue, the page and the changes made meanwhile, a page *)
(* of menus agrees with itself, is sorted as it shows, and shows nothing   *)
(* older than its request.  The proofs follow the session: what has been   *)
(* loaded into it never changes, and every row rendered is what the        *)
(* session holds of its menu.                                              *)
(***************************************************************************)
EXTENDS Rendering, SequenceTheorems, TLAPS

\* The session holds the dishes of its collections, all of them read since
\* the query; it only has collections of the menus of the page.
SessionOK ==
    /\ \A m \in DOMAIN collections :
           /\ m \in Range(liste)
           /\ collections[m] \subseteq DOMAIN entites
           /\ \E d \in vu : collections[m] = d[2][m]
    /\ \A p \in DOMAIN entites : \E d \in vu : entites[p] = d[1][p]
    /\ DOMAIN collections = {} => DOMAIN entites = {}

\* Every row rendered is what the session holds of the menu listed there.
RowsOK ==
    /\ liste \in Seq(MenuIds)
    /\ affiche \in Seq(Lignes)
    /\ Len(affiche) <= Len(liste)
    /\ \A i \in 1 .. Len(affiche) :
           /\ liste[i] \in DOMAIN collections
           /\ affiche[i] = Ligne(liste[i], collections[liste[i]], entites)

EtatOK ==
    /\ etat \in {"libre", "tri", "rendu"}
    /\ etat # "libre" => <<plats, composition>> \in vu
    /\ etat # "rendu" => Len(affiche) = 0
    /\ etat = "libre" => Len(liste) = 0

\* Once sorted, the list is in the order of what the session holds.
SortOK ==
    etat = "rendu" /\ sort \in {"calAsc", "calDesc"} =>
        \A i, j \in DOMAIN liste : i < j =>
            /\ liste[i] \in DOMAIN collections
            /\ liste[j] \in DOMAIN collections
            /\ ~Precedes(liste[j], liste[i])

\* For the details of one menu, the session holds the result of one statement.
DetailOK ==
    etat # "libre" /\ vue = "menuDetail" =>
        /\ Len(liste) = 1
        /\ \A m \in DOMAIN collections : \E d \in vu :
               /\ collections[m] = d[2][m]
               /\ \A p \in collections[m] : entites[p] = d[1][p]

\* The menus of the page were within the bounds when the query was made.
FiltreOK ==
    etat # "libre" /\ vue = "menus" =>
        \E d \in vu : \A i \in DOMAIN liste :
            LET sum == Total("nbCalories", d[2][liste[i]], d[1])
            IN filtre.min <= sum /\ sum <= filtre.max

PageInv == SessionOK /\ RowsOK /\ EtatOK /\ SortOK /\ DetailOK /\ FiltreOK

-----------------------------------------------------------------------------
\* A total depends on the rows of its dishes only, so do the rows displayed.
LEMMA SameTotal ==
    ASSUME NEW n, NEW dishes, NEW rows, NEW others,
           \A p \in dishes : rows[p] = others[p]
    PROVE  Total(n, dishes, rows) = Total(n, dishes, others)
BY [p \in dishes |-> rows[p][n]] = [p \in dishes |-> others[p][n]] DEF Total

LEMMA SameLigne ==
    ASSUME NEW m, NEW dishes, NEW rows, NEW others,
           \A p \in dishes : rows[p] = others[p]
    PROVE  Ligne(m, dishes, rows) = Ligne(m, dishes, others)
<1>1. Totaux(dishes, rows) = Totaux(dishes, others)
      BY SameTotal DEF Totaux
<1>2. [p \in dishes |-> rows[p]] = [p \in dishes |-> others[p]]
      OBVIOUS
<1>. QED BY <1>1, <1>2 DEF Ligne

\* Appending a row to those rendered.
LEMMA Appended ==
    ASSUME affiche \in Seq(Lignes), NEW x, affiche' = Append(affiche, x)
    PROVE  /\ (affiche \in Seq(Lignes))'
           /\ Len(affiche') = Len(affiche) + 1
           /\ \A i \in 1 .. Len(affiche) : affiche'[i] = affiche[i]
           /\ affiche'[Len(affiche) + 1] = x
<1>. DEFINE S == Lignes \cup {x}
<1>1. affiche \in Seq(S)
      OBVIOUS
<1>2. affiche' \in Seq(S) /\ Len(affiche') = Len(affiche) + 1
      BY <1>1, AppendProperties
<1>3. \A i \in 1 .. Len(affiche) : affiche'[i] = affiche[i]
      BY <1>1, AppendProperties
<1>4. affiche'[Len(affiche) + 1] = x
      BY <1>1, AppendProperties
<1>5. affiche' \in Seq(Lignes')
      BY <1>2 DEF Lignes
<1>. QED BY <1>2, <1>3, <1>4, <1>5

\* What loading the dishes of a menu does to the session: what it held stays.
Loads(m) ==
    /\ DOMAIN collections' = DOMAIN collections \cup {m}
    /\ \A k \in DOMAIN collections : collections'[k] = collections[k]
    /\ DOMAIN entites \subseteq DOMAIN entites'
    /\ \A p \in DOMAIN entites : entites'[p] = entites[p]
    /\ m \notin DOMAIN collections =>
           /\ collections'[m] = composition[m]
           /\ DOMAIN entites' = DOMAIN entites \cup composition[m]
           /\ \A p \in DOMAIN entites' \ DOMAIN entites : entites'[p] = plats[p]
    /\ m \in DOMAIN collections => UNCHANGED session

LEMMA Loaded ==
    ASSUME NEW m, GetPlats(m)
    PROVE  Loads(m)
<1>1. CASE m \in DOMAIN collections
      BY <1>1 DEF GetPlats, session, Loads
<1>2. CASE m \notin DOMAIN collections
      BY <1>2 DEF GetPlats, Loads
<1>. QED BY <1>1, <1>2

\* A session that loads one more collection of the page stays in order.
LEMMA LoadedSession ==
    ASSUME PageInv, NEW m \in Range(liste), GetPlats(m), etat # "libre",
           UNCHANGED <<liste, vu>>
    PROVE  SessionOK'
<1>0. Loads(m)
      BY Loaded
<1>1. <<plats, composition>> \in vu
      BY DEF PageInv, EtatOK
<1>2. ASSUME NEW k \in DOMAIN collections'
      PROVE  /\ k \in Range(liste)
             /\ collections'[k] \subseteq DOMAIN entites'
             /\ \E d \in vu : collections'[k] = d[2][k]
  <2>1. CASE k \in DOMAIN collections
        BY <2>1, <1>0 DEF PageInv, SessionOK, Loads
  <2>2. CASE k \notin DOMAIN collections
    <3>1. k = m /\ collections'[m] = composition[m] /\ composition[m] \subseteq DOMAIN entites'
          BY <1>2, <2>2, <1>0 DEF Loads
    <3>2. collections'[m] = <<plats, composition>>[2][m]
          BY <3>1
    <3>. QED BY <1>1, <3>1, <3>2
  <2>. QED BY <2>1, <2>2
<1>3. ASSUME NEW p \in DOMAIN entites'
      PROVE  \E d \in vu : entites'[p] = d[1][p]
  <2>1. CASE p \in DOMAIN entites
        BY <2>1, <1>0 DEF PageInv, SessionOK, Loads
  <2>2. CASE p \notin DOMAIN entites
    <3>1. entites'[p] = plats[p]
          BY <2>2, <1>3, <1>0 DEF session, Loads
    <3>2. entites'[p] = <<plats, composition>>[1][p]
          BY <3>1
    <3>. QED BY <1>1, <3>2
  <2>. QED BY <2>1, <2>2
<1>4. DOMAIN collections' # {}
      BY <1>0 DEF Loads
<1>. QED BY <1>2, <1>3, <1>4 DEF SessionOK

-----------------------------------------------------------------------------
LEMMA InitPage == PageInit => PageInv
<1>. SUFFICES ASSUME PageInit PROVE PageInv
     OBVIOUS
<1>0. etat = "libre" /\ liste = <<>> /\ affiche = <<>> /\ entites = Empty /\ collections = Empty
      BY DEF PageInit, ReaderInit
<1>1. SessionOK
      BY <1>0 DEF SessionOK, Empty
<1>2. RowsOK
  <2>1. liste \in Seq(MenuIds) /\ affiche \in Seq(Lignes)
        BY <1>0
  <2>2. Len(affiche) <= Len(liste) /\ 1 .. Len(affiche) = {}
        BY <1>0
  <2>. QED BY <2>1, <2>2 DEF RowsOK
<1>3. EtatOK /\ SortOK /\ DetailOK /\ FiltreOK
      BY <1>0 DEF EtatOK, SortOK, DetailOK, FiltreOK
<1>. QED BY <1>1, <1>2, <1>3 DEF PageInv

\* Between requests the session is empty.
LEMMA LibreEmpty ==
    ASSUME PageInv, etat = "libre"
    PROVE  DOMAIN collections = {} /\ DOMAIN entites = {} /\ Len(affiche) = 0
BY DEF PageInv, EtatOK, RowsOK, SessionOK, Range

LEMMA TwoPositions ==
    ASSUME NEW l \in Seq(MenuIds), NEW i \in DOMAIN l, NEW j \in DOMAIN l, i < j
    PROVE  Len(l) > 1
OBVIOUS

LEMMA NoRows ==
    ASSUME NEW l \in Seq(MenuIds), NEW rows, Len(rows) = 0
    PROVE  Len(rows) <= Len(l) /\ 1 .. Len(rows) = {}
OBVIOUS

LEMMA OpenPage ==
    ASSUME PageInv, NEW v, NEW s, NEW f, NEW l \in Seq(MenuIds), Open(v, s, f, l),
           v = "menuDetail" => Len(l) = 1 /\ s = "",
           v = "menus" => \A i \in DOMAIN l : Retenu(f, l[i])
    PROVE  PageInv'
<1>. DEFINE now == <<plats, composition>>
<1>1. /\ etat = "libre" /\ etat' \in {"tri", "rendu"} /\ vu' = {now}
      /\ liste' = l /\ vue' = v /\ sort' = s /\ filtre' = f
      /\ affiche' = affiche /\ UNCHANGED <<plats, composition, collections, entites>>
      BY DEF Open, session, vars
<1>2. DOMAIN collections = {} /\ DOMAIN entites = {} /\ Len(affiche) = 0
      BY <1>1, LibreEmpty
<1>3. SessionOK'
      BY <1>1, <1>2 DEF SessionOK
<1>4. RowsOK'
  <2>1. affiche \in Seq(Lignes) /\ Lignes' = Lignes
        BY <1>1 DEF PageInv, RowsOK, Lignes
  <2>2. affiche' \in Seq(Lignes')
        BY <1>1, <2>1
  <2>3. Len(affiche') <= Len(liste') /\ 1 .. Len(affiche') = {}
        BY <1>1, <1>2, NoRows
  <2>. QED BY <1>1, <2>2, <2>3 DEF RowsOK
<1>5. EtatOK'
      BY <1>1, <1>2 DEF EtatOK
<1>6. SortOK'
  <2>1. SUFFICES ASSUME etat' = "rendu", s \in {"calAsc", "calDesc"},
                        NEW i \in DOMAIN l, NEW j \in DOMAIN l, i < j
                 PROVE  FALSE
        BY <1>1 DEF SortOK
  <2>2. ~(Len(l) > 1)
        BY <2>1 DEF Open
  <2>. QED BY <2>1, <2>2, TwoPositions
<1>7. DetailOK'
      BY <1>1, <1>2 DEF DetailOK
<1>8. FiltreOK'
  <2>1. SUFFICES ASSUME v = "menus", NEW i \in DOMAIN l
                 PROVE  /\ f.min <= Total("nbCalories", now[2][l[i]], now[1])
                        /\ Total("nbCalories", now[2][l[i]], now[1]) <= f.max
        BY <1>1 DEF FiltreOK
  <2>. QED BY <2>1 DEF Retenu
<1>. QED BY <1>3, <1>4, <1>5, <1>6, <1>7, <1>8 DEF PageInv

\* Rows rendered before a collection is loaded are still those of the session.
LEMMA LoadedRows ==
    ASSUME PageInv, NEW m, GetPlats(m), NEW i \in 1 .. Len(affiche)
    PROVE  /\ liste[i] \in DOMAIN collections'
           /\ affiche[i] = Ligne(liste[i], collections'[liste[i]], entites')
<1>1. Loads(m)
      BY Loaded
<1>2. /\ liste[i] \in DOMAIN collections
      /\ affiche[i] = Ligne(liste[i], collections[liste[i]], entites)
      BY DEF PageInv, RowsOK
<1>3. \A p \in collections[liste[i]] : entites[p] = entites'[p]
      BY <1>1, <1>2 DEF Loads, PageInv, SessionOK
<1>4. Ligne(liste[i], collections[liste[i]], entites)
          = Ligne(liste[i], collections[liste[i]], entites')
      BY <1>3, SameLigne
<1>. QED BY <1>1, <1>2, <1>4 DEF Loads

\* Loading leaves what is known of the request and of its list in place.
LEMMA LoadedRequest ==
    ASSUME PageInv, NEW m \in Range(liste), GetPlats(m), etat # "libre",
           UNCHANGED <<plats, composition, etat, request, liste, vu>>
    PROVE  SortOK' /\ DetailOK' /\ FiltreOK'
<1>0. Loads(m) /\ SessionOK
      BY Loaded DEF PageInv
<1>1. UNCHANGED <<sort, vue, filtre>>
      BY DEF request
<1>2. SortOK'
  <2>1. SUFFICES ASSUME etat = "rendu", sort \in {"calAsc", "calDesc"},
                        NEW i \in DOMAIN liste, NEW j \in DOMAIN liste, i < j
                 PROVE  /\ liste[i] \in DOMAIN collections'
                        /\ liste[j] \in DOMAIN collections'
                        /\ ~Precedes(liste[j], liste[i])'
        BY <1>1 DEF SortOK
  <2>2. /\ liste[i] \in DOMAIN collections
        /\ liste[j] \in DOMAIN collections
        /\ ~Precedes(liste[j], liste[i])
        BY <2>1 DEF PageInv, SortOK
  <2>3. /\ SessionTotal(liste[i])' = SessionTotal(liste[i])
        /\ SessionTotal(liste[j])' = SessionTotal(liste[j])
    <3>1. \A k \in DOMAIN collections :
              /\ collections'[k] = collections[k]
              /\ \A p \in collections[k] : entites[p] = entites'[p]
          BY <1>0 DEF Loads, SessionOK
    <3>2. \A k \in DOMAIN collections :
              Total("nbCalories", collections[k], entites) = Total("nbCalories", collections[k], entites')
          BY <3>1, SameTotal
    <3>. QED BY <2>2, <3>1, <3>2 DEF SessionTotal
  <2>. QED BY <1>0, <1>1, <2>2, <2>3 DEF Precedes, Loads
<1>3. DetailOK'
  <2>1. SUFFICES ASSUME vue = "menuDetail"
                 PROVE  /\ Len(liste) = 1
                        /\ \A k \in DOMAIN collections' : \E d \in vu :
                               /\ collections'[k] = d[2][k]
                               /\ \A p \in collections'[k] : entites'[p] = d[1][p]
        BY <1>1 DEF DetailOK
  <2>2. /\ Len(liste) = 1
        /\ \A k \in DOMAIN collections : \E d \in vu :
               /\ collections[k] = d[2][k]
               /\ \A p \in collections[k] : entites[p] = d[1][p]
        BY <2>1 DEF PageInv, DetailOK
  <2>3. CASE m \in DOMAIN collections
        BY <1>0, <2>2, <2>3 DEF Loads, session
  <2>4. CASE m \notin DOMAIN collections
    <3>1. DOMAIN collections = {}
      <4>1. \A a, b \in Range(liste) : a = b
            BY <2>2 DEF Range, PageInv, RowsOK
      <4>. QED BY <1>0, <2>4, <4>1 DEF SessionOK
    <3>2. DOMAIN entites = {}
          BY <1>0, <3>1 DEF SessionOK
    <3>3. /\ DOMAIN collections' = {m}
          /\ collections'[m] = composition[m]
          /\ \A p \in composition[m] : entites'[p] = plats[p]
          BY <1>0, <2>4, <3>1, <3>2 DEF Loads
    <3>4. <<plats, composition>> \in vu
          BY DEF PageInv, EtatOK
    <3>5. /\ collections'[m] = <<plats, composition>>[2][m]
          /\ \A p \in collections'[m] : entites'[p] = <<plats, composition>>[1][p]
          BY <3>3
    <3>. QED BY <2>2, <3>3, <3>4, <3>5
  <2>. QED BY <2>3, <2>4
<1>4. FiltreOK'
      BY <1>1 DEF PageInv, FiltreOK
<1>. QED BY <1>2, <1>3, <1>4

LEMMA ComparePage ==
    ASSUME PageInv, NEW i \in DOMAIN liste, NEW j \in DOMAIN liste, Compare(i, j)
    PROVE  PageInv'
<1>1. /\ etat = "tri"
      /\ UNCHANGED <<plats, composition, etat, request, liste, affiche, vu>>
      BY DEF Compare, vars
<1>2. PICK m \in Range(liste) : GetPlats(m)
      BY DEF Compare, Range
<1>3. SessionOK'
      BY <1>1, <1>2, LoadedSession
<1>4. SortOK' /\ DetailOK' /\ FiltreOK'
      BY <1>1, <1>2, LoadedRequest
<1>5. EtatOK'
      BY <1>1 DEF PageInv, EtatOK
<1>6. RowsOK'
  <2>1. \A k \in 1 .. Len(affiche) :
            /\ liste[k] \in DOMAIN collections'
            /\ affiche[k] = Ligne(liste[k], collections'[liste[k]], entites')
        BY <1>2, LoadedRows
  <2>2. Lignes' = Lignes
        BY <1>1 DEF Lignes
  <2>. QED BY <1>1, <2>1, <2>2 DEF PageInv, RowsOK
<1>. QED BY <1>3, <1>4, <1>5, <1>6 DEF PageInv

LEMMA SortPagePage ==
    ASSUME PageInv, NEW l \in Seq(MenuIds), SortPage(l)
    PROVE  PageInv'
<1>1. /\ etat = "tri" /\ etat' = "rendu" /\ liste' = l
      /\ DOMAIN l = DOMAIN liste /\ Range(l) = Range(liste)
      /\ Range(liste) \subseteq DOMAIN collections
      /\ UNCHANGED <<plats, composition, sort, vue, filtre, collections, entites, affiche, vu>>
      BY DEF SortPage, vars, request, session
<1>2. Len(affiche) = 0 /\ liste \in Seq(MenuIds)
      BY <1>1 DEF PageInv, EtatOK, RowsOK
<1>5. SessionOK'
      BY <1>1 DEF PageInv, SessionOK
<1>6. RowsOK'
  <2>1. affiche \in Seq(Lignes) /\ Lignes' = Lignes
        BY <1>1 DEF PageInv, RowsOK, Lignes
  <2>2. affiche' \in Seq(Lignes')
        BY <1>1, <2>1
  <2>3. Len(affiche') <= Len(liste') /\ 1 .. Len(affiche') = {}
        BY <1>1, <1>2, NoRows
  <2>. QED BY <1>1, <2>2, <2>3 DEF RowsOK
<1>7. EtatOK'
      BY <1>1 DEF PageInv, EtatOK
<1>8. SortOK'
  <2>1. SUFFICES ASSUME sort \in {"calAsc", "calDesc"},
                        NEW i \in DOMAIN l, NEW j \in DOMAIN l, i < j
                 PROVE  /\ l[i] \in DOMAIN collections
                        /\ l[j] \in DOMAIN collections
                        /\ ~Precedes(l[j], l[i])'
        BY <1>1 DEF SortOK
  <2>2. ~Precedes(l[j], l[i])
        BY <2>1 DEF SortPage, IsSorted
  <2>3. l[i] \in Range(l) /\ l[j] \in Range(l)
        BY <2>1 DEF Range
  <2>. QED BY <1>1, <2>2, <2>3 DEF Precedes, SessionTotal
<1>9. DetailOK'
  <2>1. Len(l) = Len(liste)
        BY <1>1, <1>2
  <2>. QED BY <1>1, <2>1 DEF PageInv, DetailOK
<1>10. FiltreOK'
  <2>1. SUFFICES ASSUME vue = "menus"
                 PROVE  \E d \in vu : \A i \in DOMAIN l :
                            /\ filtre.min <= Total("nbCalories", d[2][l[i]], d[1])
                            /\ Total("nbCalories", d[2][l[i]], d[1]) <= filtre.max
        BY <1>1 DEF FiltreOK
  <2>2. PICK d \in vu : \A i \in DOMAIN liste :
            /\ filtre.min <= Total("nbCalories", d[2][liste[i]], d[1])
            /\ Total("nbCalories", d[2][liste[i]], d[1]) <= filtre.max
        BY <1>1, <2>1 DEF PageInv, FiltreOK
  <2>3. \A i \in DOMAIN l : \E k \in DOMAIN liste : l[i] = liste[k]
        BY <1>1 DEF Range
  <2>. QED BY <2>2, <2>3
<1>. QED BY <1>5, <1>6, <1>7, <1>8, <1>9, <1>10 DEF PageInv

LEMMA RenderPage ==
    ASSUME PageInv, Render
    PROVE  PageInv'
<1>. DEFINE n == Len(affiche) + 1
            m == liste[n]
            x == Ligne(m, collections'[m], entites')
<1>1. /\ etat = "rendu" /\ Len(affiche) < Len(liste)
      /\ GetPlats(m) /\ affiche' = Append(affiche, x)
      /\ UNCHANGED <<plats, composition, etat, request, liste, vu>>
      BY DEF Render, vars
<1>2. /\ liste \in Seq(MenuIds) /\ affiche \in Seq(Lignes)
      /\ n \in DOMAIN liste /\ n <= Len(liste)
      BY <1>1 DEF PageInv, RowsOK
<1>3. m \in Range(liste)
      BY <1>2 DEF Range
<1>4. SessionOK'
      BY <1>1, <1>3, LoadedSession
<1>5. SortOK' /\ DetailOK' /\ FiltreOK'
      BY <1>1, <1>3, LoadedRequest
<1>6. EtatOK'
      BY <1>1 DEF PageInv, EtatOK
<1>7. /\ (affiche \in Seq(Lignes))' /\ Len(affiche') = n
      /\ \A i \in 1 .. Len(affiche) : affiche'[i] = affiche[i]
      /\ affiche'[n] = x
      BY <1>1, <1>2, Appended
<1>8. ASSUME NEW i \in 1 .. n
      PROVE  /\ liste[i] \in DOMAIN collections'
             /\ affiche'[i] = Ligne(liste[i], collections'[liste[i]], entites')
  <2>1. CASE i = n
    <3>1. Loads(m)
          BY <1>1, Loaded
    <3>2. m \in DOMAIN collections'
          BY <3>1 DEF Loads
    <3>. QED BY <1>7, <2>1, <3>2
  <2>2. CASE i # n
    <3>1. i \in 1 .. Len(affiche)
          BY <1>2, <2>2
    <3>. QED BY <1>1, <1>7, <3>1, LoadedRows
  <2>. QED BY <2>1, <2>2
<1>9. RowsOK'
      BY <1>1, <1>2, <1>7, <1>8 DEF RowsOK
<1>. QED BY <1>4, <1>5, <1>6, <1>9 DEF PageInv

LEMMA RespondPage ==
    ASSUME PageInv, Respond
    PROVE  PageInv'
<1>1. /\ etat' = "libre" /\ liste' = <<>> /\ affiche' = <<>>
      /\ entites' = Empty /\ collections' = Empty
      BY DEF Respond
<1>2. SessionOK'
      BY <1>1 DEF SessionOK, Empty
<1>3. RowsOK'
  <2>1. liste' \in Seq(MenuIds) /\ affiche' \in Seq(Lignes')
        BY <1>1
  <2>2. Len(affiche') <= Len(liste') /\ 1 .. Len(affiche') = {}
        BY <1>1
  <2>. QED BY <2>1, <2>2 DEF RowsOK
<1>4. EtatOK' /\ SortOK' /\ DetailOK' /\ FiltreOK'
      BY <1>1 DEF EtatOK, SortOK, DetailOK, FiltreOK
<1>. QED BY <1>2, <1>3, <1>4 DEF PageInv

\* A change of the catalogue only adds to what there has been.
LEMMA ObservePage ==
    ASSUME PageInv, Observe
    PROVE  PageInv'
<1>1. /\ UNCHANGED <<etat, sort, vue, filtre, liste, collections, entites, affiche>>
      /\ vu' = IF etat = "libre" THEN {} ELSE vu \cup {<<plats', composition'>>}
      BY DEF Observe, request, session
<1>2. RowsOK'
  <2>1. Lignes' = Lignes
        BY <1>1 DEF Lignes
  <2>. QED BY <1>1, <2>1 DEF PageInv, RowsOK
<1>3. EtatOK'
      BY <1>1 DEF PageInv, EtatOK
<1>4. SortOK'
      BY <1>1 DEF PageInv, SortOK, Precedes, SessionTotal
<1>5. SessionOK' /\ DetailOK' /\ FiltreOK'
  <2>1. CASE etat = "libre"
    <3>1. DOMAIN collections = {} /\ DOMAIN entites = {}
          BY <2>1, LibreEmpty
    <3>. QED BY <1>1, <2>1, <3>1 DEF SessionOK, DetailOK, FiltreOK
  <2>2. CASE etat # "libre"
    <3>1. vu \subseteq vu'
          BY <1>1, <2>2
    <3>2. SessionOK'
          BY <1>1, <3>1 DEF PageInv, SessionOK
    <3>3. DetailOK'
          BY <1>1, <3>1 DEF PageInv, DetailOK
    <3>4. FiltreOK'
          BY <1>1, <3>1 DEF PageInv, FiltreOK
    <3>. QED BY <3>2, <3>3, <3>4
  <2>. QED BY <2>1, <2>2
<1>. QED BY <1>2, <1>3, <1>4, <1>5 DEF PageInv

LEMMA SamePage ==
    ASSUME PageInv, UNCHANGED allVars
    PROVE  PageInv'
<1>1. UNCHANGED <<plats, composition, etat, sort, vue, filtre, liste, collections, entites, affiche, vu>>
      BY DEF allVars, vars, pageVars, request, session
<1>. QED BY <1>1 DEF PageInv, SessionOK, RowsOK, EtatOK, SortOK, DetailOK, FiltreOK,
                    Lignes, Precedes, SessionTotal

\* A page is a sequence of menus.
LEMMA PagesAreSequences == Pages \subseteq Seq(MenuIds)
<1>. SUFFICES ASSUME NEW l \in Pages PROVE l \in Seq(MenuIds)
     OBVIOUS
<1>1. PICK n \in 0 .. PageSize : l \in [1 .. n -> MenuIds]
      BY DEF Pages
<1>2. n \in Nat
      BY <1>1, RenderingAssumption
<1>. QED BY <1>1, <1>2

\* Every step of the request, and every change made elsewhere, preserves PageInv.
LEMMA StepPage == PageInv /\ [PageNext]_allVars => PageInv'
<1>. SUFFICES ASSUME PageInv, [PageNext]_allVars PROVE PageInv'
     OBVIOUS
<1>1. ASSUME NEW s, NEW f, NEW l \in Pages, ListMenus(s, f, l) PROVE PageInv'
  <2>1. /\ Open("menus", s, f, l)
        /\ \A i \in DOMAIN l : Retenu(f, l[i])
        BY <1>1 DEF ListMenus
  <2>. QED BY <2>1, PagesAreSequences, OpenPage
<1>2. ASSUME NEW m \in MenuIds, ShowMenuDetail(m) PROVE PageInv'
  <2>1. Open("menuDetail", "", [min |-> 0, max |-> 0], <<m>>)
        BY <1>2 DEF ShowMenuDetail
  <2>2. <<m>> \in Seq(MenuIds) /\ Len(<<m>>) = 1
        OBVIOUS
  <2>. QED BY <2>1, <2>2, OpenPage
<1>3. ASSUME NEW i \in DOMAIN liste, NEW j \in DOMAIN liste, Compare(i, j) PROVE PageInv'
      BY <1>3, ComparePage
<1>4. ASSUME NEW l \in Pages, SortPage(l) PROVE PageInv'
      BY <1>4, PagesAreSequences, SortPagePage
<1>5. CASE Render
      BY <1>5, RenderPage
<1>6. CASE Respond
      BY <1>6, RespondPage
<1>7. CASE Elsewhere
      BY <1>7, ObservePage DEF Elsewhere
<1>8. CASE UNCHANGED allVars
      BY <1>8, SamePage
<1>. QED BY <1>1, <1>2, <1>3, <1>4, <1>5, <1>6, <1>7, <1>8 DEF PageNext, Reader

\* The invariant of a request.
THEOREM PageInvariant == PageSpec => []PageInv
BY InitPage, StepPage, PTL DEF PageSpec

-----------------------------------------------------------------------------
\* A rendered row is what the session holds of its menu.
LEMMA LigneOfSession ==
    ASSUME PageInv, NEW x \in Lignes
    PROVE  /\ x.menu \in DOMAIN collections
           /\ x = Ligne(x.menu, collections[x.menu], entites)
           /\ x.plats = [p \in collections[x.menu] |-> entites[p]]
           /\ x.totaux = Totaux(collections[x.menu], entites)
<1>1. PICK i \in DOMAIN affiche : x = affiche[i]
      BY DEF Lignes
<1>2. i \in 1 .. Len(affiche)
      BY DEF PageInv, RowsOK
<1>3. /\ liste[i] \in DOMAIN collections
      /\ x = Ligne(liste[i], collections[liste[i]], entites)
      BY <1>1, <1>2 DEF PageInv, RowsOK
<1>4. x.menu = liste[i]
      BY <1>3 DEF Ligne
<1>. QED BY <1>3, <1>4 DEF Ligne

\* On one page, totals are the sums of the dishes listed with them, and a dish
\* is the same in every menu, whatever savePlat, saveMenu and deleteMenu commit
\* between the lazy loads of getPlats.
THEOREM OnePage == PageSpec => []PageAgrees
<1>1. PageInv => PageAgrees
  <2>. SUFFICES ASSUME PageInv PROVE PageAgrees
       OBVIOUS
  <2>1. ASSUME NEW x \in Lignes PROVE x.totaux = Totaux(DOMAIN x.plats, x.plats)
    <3>1. /\ x.plats = [p \in collections[x.menu] |-> entites[p]]
          /\ x.totaux = Totaux(collections[x.menu], entites)
          BY LigneOfSession
    <3>2. DOMAIN x.plats = collections[x.menu] /\ \A p \in DOMAIN x.plats : x.plats[p] = entites[p]
          BY <3>1
    <3>3. \A n : Total(n, DOMAIN x.plats, x.plats) = Total(n, DOMAIN x.plats, entites)
          BY <3>2, SameTotal
    <3>. QED BY <3>1, <3>2, <3>3 DEF Totaux
  <2>2. ASSUME NEW x \in Lignes, NEW y \in Lignes,
               NEW p \in DOMAIN x.plats \cap DOMAIN y.plats
        PROVE  x.plats[p] = y.plats[p]
    <3>1. x.plats = [q \in collections[x.menu] |-> entites[q]]
          BY LigneOfSession
    <3>2. y.plats = [q \in collections[y.menu] |-> entites[q]]
          BY LigneOfSession
    <3>. QED BY <3>1, <3>2
  <2>. QED BY <2>1, <2>2 DEF PageAgrees
<1>. QED BY <1>1, PageInvariant, PTL

\* A page sorted by calories is in the order of the totals it displays: those
\* the sort of listMenus compared, kept by the session until the rendering.
THEOREM SortedPage == PageSpec => []SortedAsShown
<1>1. PageInv => SortedAsShown
  <2>1. SUFFICES ASSUME PageInv, sort \in {"calAsc", "calDesc"},
                        NEW i \in DOMAIN affiche, NEW j \in DOMAIN affiche, i < j
                 PROVE  LET a == affiche[i].totaux["nbCalories"]
                            b == affiche[j].totaux["nbCalories"]
                        IN IF sort = "calAsc" THEN ~(b < a) ELSE ~(b > a)
        BY DEF SortedAsShown
  <2>2. /\ i \in 1 .. Len(affiche) /\ j \in 1 .. Len(affiche)
        /\ i \in DOMAIN liste /\ j \in DOMAIN liste
        BY <2>1 DEF PageInv, RowsOK
  <2>3. /\ affiche[i] = Ligne(liste[i], collections[liste[i]], entites)
        /\ affiche[j] = Ligne(liste[j], collections[liste[j]], entites)
        BY <2>1, <2>2 DEF PageInv, RowsOK
  <2>4. etat = "rendu"
        BY <2>1, <2>2 DEF PageInv, EtatOK
  <2>5. ~Precedes(liste[j], liste[i])
        BY <2>1, <2>2, <2>4 DEF PageInv, SortOK
  <2>6. /\ affiche[i].totaux["nbCalories"] = SessionTotal(liste[i])
        /\ affiche[j].totaux["nbCalories"] = SessionTotal(liste[j])
        BY <2>3, RenderingAssumption DEF Ligne, Totaux, SessionTotal
  <2>. QED BY <2>5, <2>6 DEF Precedes
<1>. QED BY <1>1, PageInvariant, PTL

\* A page shows nothing older than its request, and the page of details shows
\* the dishes of its menu as they were at one moment.
THEOREM FreshPage == PageSpec => []NothingStale
<1>1. PageInv => NothingStale
  <2>1. SUFFICES ASSUME PageInv, NEW x \in Lignes
                 PROVE  /\ \E d \in vu : DOMAIN x.plats = d[2][x.menu]
                        /\ \A p \in DOMAIN x.plats : \E d \in vu : x.plats[p] = d[1][p]
                        /\ vue = "menuDetail" =>
                               \E d \in vu : x.plats = [p \in d[2][x.menu] |-> d[1][p]]
        BY DEF NothingStale
  <2>2. /\ x.menu \in DOMAIN collections
        /\ x.plats = [p \in collections[x.menu] |-> entites[p]]
        BY <2>1, LigneOfSession
  <2>3. /\ collections[x.menu] \subseteq DOMAIN entites
        /\ \E d \in vu : collections[x.menu] = d[2][x.menu]
        BY <2>1, <2>2 DEF PageInv, SessionOK
  <2>4. \A p \in DOMAIN x.plats : \E d \in vu : x.plats[p] = d[1][p]
        BY <2>1, <2>2, <2>3 DEF PageInv, SessionOK
  <2>5. ASSUME vue = "menuDetail"
        PROVE  \E d \in vu : x.plats = [p \in d[2][x.menu] |-> d[1][p]]
    <3>1. etat # "libre"
          BY <2>1, <2>2, LibreEmpty
    <3>2. PICK d \in vu : /\ collections[x.menu] = d[2][x.menu]
                          /\ \A p \in collections[x.menu] : entites[p] = d[1][p]
          BY <2>1, <2>2, <2>5, <3>1 DEF PageInv, DetailOK
    <3>3. x.plats = [p \in d[2][x.menu] |-> d[1][p]]
          BY <2>2, <3>2
    <3>. QED BY <3>3
  <2>. QED BY <2>2, <2>3, <2>4, <2>5
<1>. QED BY <1>1, PageInvariant, PTL

\* A menu is listed with a total outside the bounds that findFiltered applied
\* only if its dishes or their rows changed between the query and their load.
THEOREM FilteredPage == PageSpec => []OutsideOnlyIfChanged
<1>1. PageInv => OutsideOnlyIfChanged
  <2>1. SUFFICES ASSUME PageInv, vue = "menus", NEW x \in Lignes,
                        \A d, e \in vu : /\ d[2][x.menu] = e[2][x.menu]
                                         /\ \A p \in d[2][x.menu] : d[1][p] = e[1][p]
                 PROVE  /\ filtre.min <= x.totaux["nbCalories"]
                        /\ x.totaux["nbCalories"] <= filtre.max
        BY DEF OutsideOnlyIfChanged
  <2>2. /\ x.menu \in DOMAIN collections
        /\ x.totaux = Totaux(collections[x.menu], entites)
        BY <2>1, LigneOfSession
  <2>3. etat # "libre"
        BY <2>1, <2>2, LibreEmpty
  <2>4. PICK d \in vu : \A i \in DOMAIN liste :
            /\ filtre.min <= Total("nbCalories", d[2][liste[i]], d[1])
            /\ Total("nbCalories", d[2][liste[i]], d[1]) <= filtre.max
        BY <2>1, <2>3 DEF PageInv, FiltreOK
  <2>5. /\ filtre.min <= Total("nbCalories", d[2][x.menu], d[1])
        /\ Total("nbCalories", d[2][x.menu], d[1]) <= filtre.max
    <3>1. \E i \in DOMAIN liste : x.menu = liste[i]
          BY <2>1, <2>2 DEF PageInv, SessionOK, Range
    <3>. QED BY <2>4, <3>1
  <2>6. collections[x.menu] = d[2][x.menu]
    <3>1. \E e \in vu : collections[x.menu] = e[2][x.menu]
          BY <2>1, <2>2 DEF PageInv, SessionOK
    <3>. QED BY <2>1, <3>1
  <2>7. \A p \in collections[x.menu] : entites[p] = d[1][p]
    <3>1. \A p \in collections[x.menu] : \E e \in vu : entites[p] = e[1][p]
          BY <2>1, <2>2 DEF PageInv, SessionOK
    <3>. QED BY <2>1, <2>6, <3>1
  <2>8. Total("nbCalories", collections[x.menu], entites) = Total("nbCalories", d[2][x.menu], d[1])
        BY <2>6, <2>7, SameTotal
  <2>9. x.totaux["nbCalories"] = Total("nbCalories", collections[x.menu], entites)
        BY <2>2, RenderingAssumption DEF Totaux
  <2>. QED BY <2>5, <2>8, <2>9
<1>. QED BY <1>1, PageInvariant, PTL
=============================================================================
