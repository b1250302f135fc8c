----------------------------- MODULE CarteProofs -----------------------------
(***************************************************************************)
(* Proof that Application implements Carte, for every set of browsers, of  *)
(* keys, of forms and every initial content of the database.               *)
(*                                                                         *)
(* Of the steps of the requests, six write to the tables.  Each of them is *)
(* one step of the catalogue, or none; IInv is what makes the guards of    *)
(* that step hold although the request read the tables some steps ago.     *)
(* RowsInv adds that a menu holds a row somebody submitted: a flush that   *)
(* writes only the dishes leaves the row as it finds it.                   *)
(*                                                                         *)
(* What the catalogue promises is carried over to the tables: deletions    *)
(* are final, and a page rendered beside the requests has the properties   *)
(* that RenderingProofs proves of a page rendered beside the catalogue.    *)
(***************************************************************************)
EXTENDS ApplicationProofs, Consultation

RowsInv == \A m \in Menus : menu[m] \in MenuRows

Comp == [m \in MenuIds |-> Composition(m)]

\* A step of the catalogue, or none.
CarteStep == [Abstract!Next]_(Abstract!vars)

-----------------------------------------------------------------------------
\* The dump the server starts with is a catalogue.
LEMMA InitCarte == Init => Abstract!Init /\ RowsInv
<1> SUFFICES ASSUME Init PROVE Abstract!Init /\ RowsInv
  OBVIOUS
<1> USE DEF Init, SchemaInit
<1>1. plat \in [PlatIds -> PlatRows \cup {Absent}] /\ menu \in [MenuIds -> MenuRows \cup {Absent}]
  BY InitAssumption DEF PlatRows, MenuRows
<1>2. Comp \in [MenuIds -> SUBSET Abstract!Existing(plat)]
  BY InitAssumption DEF Comp, Composition, Abstract!Existing
<1>3. \A m \in MenuIds : menu[m] = Absent => Comp[m] = {}
  BY InitAssumption DEF Comp, Composition
<1>4. KnownPlats \in SUBSET PlatIds /\ KnownMenus \in SUBSET MenuIds
  BY DEF KnownPlats, KnownMenus
<1>5. Abstract!Existing(plat) \subseteq KnownPlats /\ Abstract!Existing(menu) \subseteq KnownMenus
  BY InitAssumption DEF Abstract!Existing, KnownPlats, KnownMenus
<1>6. RowsInv
  BY <1>1 DEF RowsInv, Menus
<1> QED
  BY <1>1, <1>2, <1>3, <1>4, <1>5, <1>6 DEF Abstract!Init, Comp

\* A step that does not touch the tables is none of the catalogue.
LEMMA SameCarte ==
    ASSUME UNCHANGED dbVars
    PROVE  CarteStep /\ (RowsInv => RowsInv')
<1>1. UNCHANGED <<plat, menu, Comp, KnownPlats, KnownMenus, Menus>>
  BY DEF dbVars, Comp, Composition, KnownPlats, KnownMenus, Menus
<1> QED
  BY <1>1 DEF CarteStep, Abstract!vars, Comp, RowsInv

\* The keys below the next AUTO_INCREMENT value.
LEMMA KeysBelowNext ==
    ASSUME NEW a \in Nat
    PROVE  /\ \A p \in PlatIds : p < a + 1 <=> p < a \/ p = a
           /\ \A m \in MenuIds : m < a + 1 <=> m < a \/ m = a
<1>1. ASSUME NEW n \in Nat PROVE n < a + 1 <=> n < a \/ n = a
  OBVIOUS
<1> QED
  BY <1>1, KeysAreNat

\* What the catalogue sees of a step that leaves the menus alone.
LEMMA SameMenus ==
    ASSUME UNCHANGED <<menu, menu_plat, autoMenu>>
    PROVE  UNCHANGED <<menu, Comp, KnownMenus>> /\ (RowsInv => RowsInv')
BY DEF Comp, Composition, KnownMenus, RowsInv, Menus

-----------------------------------------------------------------------------
\* A creation of a dish that fails after its INSERT uses up a key.
LEMMA SkipPlatCarte ==
    ASSUME RowsInv, autoPlat \in PlatIds, autoPlat \in Nat, autoPlat' = autoPlat + 1,
           UNCHANGED <<plat, menu, menu_plat, autoMenu>>
    PROVE  CarteStep /\ RowsInv'
<1>1. KnownPlats' = KnownPlats \cup {autoPlat}
  <2>1. \A p \in PlatIds : p < autoPlat + 1 <=> p < autoPlat \/ p = autoPlat
    BY KeysBelowNext
  <2> QED
    BY <2>1 DEF KnownPlats
<1>2. Abstract!SkipPlatId(autoPlat)
  BY <1>1, SameMenus DEF Abstract!SkipPlatId, Comp
<1> QED
  BY <1>2, SameMenus DEF CarteStep, Abstract!Next

\* savePlat and deletePlat create, modify and remove one dish of the catalogue.
LEMMA PlatCarteStep ==
    ASSUME IInv, RowsInv, NEW c \in Clients, PlatServer(c)
    PROVE  CarteStep /\ RowsInv'
<1> DEFINE r == platReq[c]
<1>0. /\ plat \in [PlatIds -> PlatRow \cup {Absent}] /\ autoPlat \in Nat
      /\ r \in PlatReq /\ r.id \in KnownPlats \cup {0}
      /\ pc[c] \in {"savePlat", "flushPlat"} => r.row \in PlatForms
      /\ pc[c] \in {"flushPlat", "deletePlat", "removePlat"} => r.id # 0
  BY DEF IInv, DbOK, SchemaTypeOK, ClientOK, PlatReqOK
<1>1. CASE PersistPlat(c)
  <2>0. r.row \in PlatRows
    BY <1>0, <1>1 DEF PersistPlat, PlatRows
  <2>1. /\ autoPlat \in PlatIds
        /\ plat' = [plat EXCEPT ![autoPlat] = r.row] /\ autoPlat' = autoPlat + 1
        /\ UNCHANGED <<menu, menu_plat, autoMenu>>
    BY <1>1 DEF PersistPlat
  <2>2. autoPlat \notin KnownPlats
    BY <1>0 DEF KnownPlats
  <2>3. KnownPlats' = KnownPlats \cup {autoPlat}
    <3>1. \A p \in PlatIds : p < autoPlat + 1 <=> p < autoPlat \/ p = autoPlat
      BY <1>0, KeysBelowNext
    <3> QED
      BY <2>1, <3>1 DEF KnownPlats
  <2>4. Abstract!CreatePlat(autoPlat, r.row)
    BY <2>1, <2>2, <2>3, SameMenus DEF Abstract!CreatePlat, Comp
  <2> QED
    BY <2>0, <2>1, <2>4, SameMenus DEF CarteStep, Abstract!Next
<1>2. CASE FlushPlat(c)
  <2>1. CASE UNCHANGED plat
    BY <1>2, <2>1, SameCarte DEF FlushPlat, dbVars
  <2>2. CASE UpdateFindsPlat(r) /\ plat' = [plat EXCEPT ![r.id] = UpdatedPlat(r)]
    <3>1. r.id \in PlatIds /\ plat[r.id] # Absent /\ r.row \in PlatRows
      BY <1>0, <1>2, <2>2 DEF FlushPlat, KnownPlats, UpdateFindsPlat, PlatRows
    <3>2. UNCHANGED <<menu, menu_plat, autoPlat, autoMenu, KnownPlats>>
      BY <1>2 DEF FlushPlat, KnownPlats
    <3>3. Abstract!ModifyPlat(r.id, r.row)
      BY <2>2, <3>1, <3>2, SameMenus DEF Abstract!ModifyPlat, UpdatedPlat, Comp
    <3> QED
      BY <3>1, <3>2, <3>3, SameMenus DEF CarteStep, Abstract!Next
  <2> QED
    BY <1>2, <2>1, <2>2 DEF FlushPlat
<1>3. CASE RemovePlat(c)
  <2>1. CASE UNCHANGED plat
    BY <1>3, <2>1, SameCarte DEF RemovePlat, dbVars
  <2>2. CASE /\ plat[r.id] # Absent /\ ~Referenced(r.id)
             /\ plat' = [plat EXCEPT ![r.id] = Absent]
    <3>1. r.id \in PlatIds /\ \A m \in MenuIds : r.id \notin Comp[m]
      BY <1>0, <1>3, <2>2 DEF RemovePlat, KnownPlats, Referenced, Comp, Composition
    <3>2. UNCHANGED <<menu, menu_plat, autoPlat, autoMenu, KnownPlats>>
      BY <1>3 DEF RemovePlat, KnownPlats
    <3>3. Abstract!RemovePlat(r.id)
      BY <2>2, <3>1, <3>2, SameMenus DEF Abstract!RemovePlat, Comp
    <3> QED
      BY <3>1, <3>2, <3>3, SameMenus DEF CarteStep, Abstract!Next
  <2> QED
    BY <1>3, <2>1, <2>2 DEF RemovePlat
<1>4. CASE UNCHANGED dbVars
  BY <1>4, SameCarte
<1>5. CASE FailPlat(c)
  <2>1. CASE autoPlat \in PlatIds /\ autoPlat' = autoPlat + 1
    BY <1>0, <1>5, <2>1, SkipPlatCarte DEF FailPlat
  <2> QED
    BY <1>4, <1>5, <2>1 DEF FailPlat, dbVars
<1> QED
  BY <1>1, <1>2, <1>3, <1>4, <1>5
  DEF PlatServer, PersistPlatExhausted, MergePlat, DeletePlat, ListePlats

-----------------------------------------------------------------------------
\* What the catalogue sees of a step that leaves the dishes alone.
LEMMA SamePlats ==
    ASSUME UNCHANGED <<plat, autoPlat>>
    PROVE  UNCHANGED <<plat, KnownPlats>>
BY DEF KnownPlats

\* A creation of a menu that is rolled back after its INSERT uses up a key.
LEMMA SkipMenuCarte ==
    ASSUME RowsInv, autoMenu \in MenuIds, autoMenu \in Nat, autoMenu' = autoMenu + 1,
           UNCHANGED <<plat, menu, menu_plat, autoPlat>>
    PROVE  CarteStep /\ RowsInv'
<1>1. KnownMenus' = KnownMenus \cup {autoMenu}
  <2>1. \A m \in MenuIds : m < autoMenu + 1 <=> m < autoMenu \/ m = autoMenu
    BY KeysBelowNext
  <2> QED
    BY <2>1 DEF KnownMenus
<1>2. UNCHANGED Comp /\ RowsInv'
  BY DEF Comp, Composition, RowsInv, Menus
<1>3. Abstract!SkipMenuId(autoMenu)
  BY <1>1, <1>2, SamePlats DEF Abstract!SkipMenuId, Comp
<1> QED
  BY <1>2, <1>3 DEF CarteStep, Abstract!Next

\* saveMenu of a new menu creates it with its dishes, or uses up its key.
LEMMA PersistMenuCarte ==
    ASSUME IInv, RowsInv, NEW c \in Clients, PersistMenu(c)
    PROVE  CarteStep /\ RowsInv'
<1> DEFINE r == menuReq[c]
<1>0. /\ menu \in [MenuIds -> MenuRow \cup {Absent}] /\ autoMenu \in Nat
      /\ r.selectedPlats \subseteq PlatIds
  BY DEF IInv, DbOK, SchemaTypeOK, ClientOK, MenuReqOK, MenuReq
<1>1. /\ autoMenu \in MenuIds /\ autoMenu' = autoMenu + 1
      /\ UNCHANGED <<plat, autoPlat>>
  BY DEF PersistMenu
<1>2. r.row \in MenuRows
  BY DEF PersistMenu, IInv, ClientOK, MenuReqOK, MenuRows
<1>3. autoMenu \notin KnownMenus
  BY <1>0 DEF KnownMenus
<1>4. KnownMenus' = KnownMenus \cup {autoMenu}
  <2>1. \A m \in MenuIds : m < autoMenu + 1 <=> m < autoMenu \/ m = autoMenu
    BY <1>0, KeysBelowNext
  <2> QED
    BY <1>1, <2>1 DEF KnownMenus
<1>5. CASE /\ r.selectedPlats \subseteq Plats
           /\ menu' = [menu EXCEPT ![autoMenu] = r.row]
           /\ menu_plat' = menu_plat \cup ({autoMenu} \X r.selectedPlats)
  <2>1. Composition(autoMenu) = {}
    <3>1. menu[autoMenu] = Absent
      BY <1>0, <1>1 DEF IInv, DbOK, KeysBelowCounter, Menus
    <3> QED
      BY <1>1, <3>1 DEF IInv, DbOK, Integrity, Composition
  <2>2. \A m \in MenuIds :
            Composition(m)' = IF m = autoMenu THEN r.selectedPlats ELSE Composition(m)
    BY <1>0, <1>5, <2>1 DEF Composition
  <2>3. Comp' = [Comp EXCEPT ![autoMenu] = r.selectedPlats]
    BY <2>2 DEF Comp
  <2>4. r.selectedPlats \in SUBSET Abstract!Existing(plat)
    BY <1>5 DEF Plats, Abstract!Existing, IInv, DbOK, SchemaTypeOK
  <2>5. Abstract!CreateMenu(autoMenu, r.row, r.selectedPlats)
    BY <1>1, <1>3, <1>4, <1>5, <2>3, SamePlats DEF Abstract!CreateMenu, Comp
  <2>6. RowsInv'
    BY <1>0, <1>1, <1>2, <1>5 DEF RowsInv, Menus
  <2> QED
    BY <1>1, <1>2, <2>4, <2>5, <2>6 DEF CarteStep, Abstract!Next
<1>6. CASE UNCHANGED <<menu, menu_plat>>
  BY <1>0, <1>1, <1>6, SkipMenuCarte
<1> QED
  BY <1>5, <1>6 DEF PersistMenu

\* saveMenu of an existing menu replaces its row and its dishes in one step,
\* or changes nothing if there is nothing to write and the menu is gone.
LEMMA FlushMenuCarte ==
    ASSUME IInv, RowsInv, NEW c \in Clients, FlushMenu(c)
    PROVE  CarteStep /\ RowsInv'
<1> DEFINE r == menuReq[c]
           i == r.id
           row == IF Dirty(r) THEN r.row ELSE menu[i]
           dishes == (Composition(i) \ Removed(r)) \cup Added(r)
<1>0. /\ menu \in [MenuIds -> MenuRow \cup {Absent}] /\ plat \in [PlatIds -> PlatRow \cup {Absent}]
      /\ menu_plat \subseteq MenuIds \X PlatIds
      /\ i \in MenuIds /\ r.row \in MenuForms
      /\ r.selectedPlats \subseteq PlatIds /\ r.snapPlats \subseteq PlatIds
  BY DEF FlushMenu, IInv, DbOK, SchemaTypeOK, ClientOK, MenuReqOK, MenuReq, KnownMenus
<1>1. /\ UpdateDone(r) /\ InsertsDone(r)
      /\ menu' = IF Dirty(r) THEN [menu EXCEPT ![i] = r.row] ELSE menu
      /\ menu_plat' = (menu_plat \ ({i} \X Removed(r))) \cup ({i} \X Added(r))
      /\ UNCHANGED <<plat, autoPlat, autoMenu>>
  BY DEF FlushMenu
<1>2. UNCHANGED KnownMenus
  BY <1>1 DEF KnownMenus
<1>3. Removed(r) \subseteq PlatIds /\ Added(r) \subseteq PlatIds
  BY <1>0 DEF Removed, Added
<1>4. \A m \in MenuIds : Composition(m)' = IF m = i THEN dishes ELSE Composition(m)
  BY <1>0, <1>1, <1>3 DEF Composition
<1>5. CASE menu[i] = Absent
  <2>1. ~Dirty(r) /\ Added(r) = {}
    BY <1>0, <1>1, <1>3, <1>5 DEF UpdateDone, InsertsDone, Insertable
  <2>2. Composition(i) = {}
    BY <1>0, <1>5 DEF IInv, DbOK, Integrity, Composition
  <2>3. UNCHANGED <<menu, Comp>>
    BY <1>1, <1>4, <2>1, <2>2 DEF Comp
  <2>4. RowsInv'
    BY <2>3 DEF RowsInv, Menus
  <2> QED
    BY <1>1, <1>2, <2>3, <2>4, SamePlats DEF CarteStep, Abstract!vars, Comp
<1>6. CASE menu[i] # Absent
  <2>1. row \in MenuRows
    <3>1. CASE Dirty(r)
      BY <1>0, <1>1, <3>1 DEF UpdateDone, MenuRows
    <3>2. CASE ~Dirty(r)
      BY <1>0, <1>6, <3>2 DEF RowsInv, Menus
    <3> QED
      BY <3>1, <3>2
  <2>2. menu' = [menu EXCEPT ![i] = row]
    BY <1>0, <1>1
  <2>3. Comp' = [Comp EXCEPT ![i] = dishes]
    BY <1>4 DEF Comp
  <2>4. dishes \in SUBSET Abstract!Existing(plat)
    <3>1. Composition(i) \subseteq Plats
      BY <1>0 DEF IInv, DbOK, Integrity, Composition, Plats
    <3>2. Added(r) \subseteq Plats
      BY <1>1, <1>3 DEF InsertsDone, Insertable, Plats
    <3> QED
      BY <1>0, <3>1, <3>2 DEF Plats, Abstract!Existing
  <2>5. RowsInv'
    BY <1>0, <2>1, <2>2 DEF RowsInv, Menus
  <2> HIDE DEF row, dishes
  <2>6. Abstract!ModifyMenu(i, row, dishes)
    BY <1>1, <1>2, <1>6, <2>2, <2>3, SamePlats DEF Abstract!ModifyMenu, Comp
  <2> QED
    BY <1>0, <2>1, <2>4, <2>5, <2>6 DEF CarteStep, Abstract!Next
<1> QED
  BY <1>5, <1>6

\* deleteMenu removes a menu with its dishes.
LEMMA RemoveMenuCarte ==
    ASSUME IInv, RowsInv, NEW c \in Clients, RemoveMenu(c)
    PROVE  CarteStep /\ RowsInv'
<1> DEFINE i == menuReq[c].id
<1>0. /\ menu \in [MenuIds -> MenuRow \cup {Absent}] /\ i \in MenuIds
      /\ menu_plat \subseteq MenuIds \X PlatIds
  BY DEF RemoveMenu, IInv, DbOK, SchemaTypeOK, ClientOK, MenuReqOK, MenuReq, KnownMenus
<1>1. CASE UNCHANGED <<menu, menu_plat>>
  BY <1>1, SameCarte DEF RemoveMenu, dbVars
<1>2. CASE /\ menu[i] # Absent
           /\ menu_plat' = menu_plat \ ({i} \X PlatIds)
           /\ menu' = [menu EXCEPT ![i] = Absent]
  <2>1. UNCHANGED <<plat, autoPlat, autoMenu, KnownMenus>>
    BY DEF RemoveMenu, KnownMenus
  <2>2. \A m \in MenuIds : Composition(m)' = IF m = i THEN {} ELSE Composition(m)
    BY <1>0, <1>2 DEF Composition
  <2>3. Comp' = [Comp EXCEPT ![i] = {}]
    BY <2>2 DEF Comp
  <2>4. Abstract!RemoveMenu(i)
    BY <1>2, <2>1, <2>3, SamePlats DEF Abstract!RemoveMenu, Comp
  <2>5. RowsInv'
    BY <1>0, <1>2 DEF RowsInv, Menus
  <2> QED
    BY <1>0, <2>4, <2>5 DEF CarteStep, Abstract!Next
<1> QED
  BY <1>1, <1>2 DEF RemoveMenu

\* Every step of every request is a step of the catalogue, or none.
LEMMA StepCarte == IInv /\ RowsInv /\ [Next]_vars => CarteStep /\ RowsInv'
<1> SUFFICES ASSUME IInv, RowsInv, [Next]_vars PROVE CarteStep /\ RowsInv'
  OBVIOUS
<1>1. CASE UNCHANGED vars
  BY <1>1, SameCarte DEF vars, dbVars
<1>2. ASSUME NEW c \in Clients, UserStep(c) PROVE CarteStep /\ RowsInv'
  <2>1. UNCHANGED dbVars
    BY <1>2
    DEF UserStep, PlatUser, EditPlat, ShowPlatDetail, LeavePlatForm, SubmitPlat, AskDeletePlat,
        MenuUser, EditMenu, ShowMenuDetail, LeaveMenuForm, SubmitMenu, AskDeleteMenu
  <2> QED
    BY <2>1, SameCarte
<1>3. ASSUME NEW c \in Clients, ServerStep(c) PROVE CarteStep /\ RowsInv'
  <2>1. CASE PlatServer(c)
    BY <2>1, PlatCarteStep
  <2>2. CASE PersistMenu(c) \/ FlushMenu(c) \/ RemoveMenu(c)
    BY <2>2, PersistMenuCarte, FlushMenuCarte, RemoveMenuCarte
  <2>3. CASE UNCHANGED dbVars
    BY <2>3, SameCarte
  <2>4. CASE FailMenu(c)
    <3>1. CASE autoMenu \in MenuIds /\ autoMenu' = autoMenu + 1
      <4>1. autoMenu \in Nat
        BY DEF IInv, DbOK, SchemaTypeOK
      <4> QED
        BY <2>4, <3>1, <4>1, SkipMenuCarte DEF FailMenu
    <3> QED
      BY <2>3, <2>4, <3>1 DEF FailMenu, dbVars
  <2> QED
    BY <1>3, <2>1, <2>2, <2>3, <2>4
    DEF ServerStep, MenuServer, OfferPlats, RenderMenuForm, FindPlat, PersistMenuRefused,
        MergeMenu, FlushMenuStale, FlushMenuTooLong, FlushMenuRefused, DeleteMenu, ListMenus
<1> QED
  BY <1>1, <1>2, <1>3 DEF Next

\* Every interleaving of the requests of both controllers implements the
\* catalogue: identifiers are never reused or revived, a menu changes its row
\* and its dishes in one step, and a dish in use is not removed.
THEOREM Refinement == Spec => ImplementsCarte
<1>1. Spec => []IInv
  BY Invariance
<1>2. Init => Abstract!Init /\ RowsInv
  BY InitCarte
<1>3. IInv /\ RowsInv /\ [Next]_vars => [Abstract!Next]_(Abstract!vars) /\ RowsInv'
  BY StepCarte DEF CarteStep
<1> QED
  BY <1>1, <1>2, <1>3, PTL DEF Spec, ImplementsCarte, Abstract!Spec

-----------------------------------------------------------------------------
\* Every row of menu was submitted and fits, or was there from the start.
LEMMA MenuRowsInvariant == Spec => []RowsInv
<1>1. Init => RowsInv
  BY InitCarte
<1>2. IInv /\ RowsInv /\ [Next]_vars => RowsInv'
  BY StepCarte
<1> QED
  BY <1>1, <1>2, Invariance, PTL DEF Spec

\* What the forms let through satisfies the CHECK constraints of plat and menu
\* and the length of menu.description, or is refused: no statement of savePlat
\* and saveMenu ever fails on a CHECK.
THEOREM ChecksSatisfied == Spec => []RowsChecked
<1>1. IInv /\ RowsInv => RowsChecked
  <2> SUFFICES ASSUME IInv, RowsInv PROVE RowsChecked
    OBVIOUS
  <2>1. ASSUME NEW p \in Plats PROVE PlatChecks(plat[p])
    <3>1. p \in PlatIds /\ plat[p] # Absent /\ plat[p] \in PlatForms \cup {InitPlat[p]}
      BY <2>1 DEF IInv, DbOK, NoTornPlat, Plats
    <3> QED
      BY <3>1, PlatFormsAssumption, InitAssumption
  <2>2. ASSUME NEW m \in Menus PROVE MenuChecks(menu[m])
    <3>1. CASE menu[m] \in MenuForms /\ Fits(menu[m])
      BY <3>1, MenuFormsAssumption DEF MenuChecks, MenuRow
    <3>2. ASSUME NEW k \in MenuIds, menu[m] = InitMenu[k], InitMenu[k] # Absent
          PROVE  MenuChecks(menu[m])
      BY <3>2, InitAssumption
    <3> QED
      BY <2>2, <3>1, <3>2 DEF RowsInv, MenuRows
  <2> QED
    BY <2>1, <2>2 DEF RowsChecked
<1> QED
  BY <1>1, Invariance, MenuRowsInvariant, PTL

\* The catalogue never takes back an identifier that it has used.
LEMMA CarteForGood ==
    ASSUME IInv, [Abstract!Next]_(Abstract!vars)
    PROVE  /\ \A p \in KnownPlats \ Plats : plat'[p] = Absent
           /\ \A m \in KnownMenus \ Menus : menu'[m] = Absent
<1>0. /\ plat \in [PlatIds -> PlatRow \cup {Absent}] /\ menu \in [MenuIds -> MenuRow \cup {Absent}]
      /\ \A p \in KnownPlats \ Plats : p \in PlatIds /\ plat[p] = Absent
      /\ \A m \in KnownMenus \ Menus : m \in MenuIds /\ menu[m] = Absent
  BY DEF IInv, TypeOK, SchemaTypeOK, Plats, Menus, KnownPlats, KnownMenus
<1>1. CASE UNCHANGED Abstract!vars
  BY <1>0, <1>1 DEF Abstract!vars
<1>2. ASSUME NEW p \in PlatIds, NEW row, Abstract!CreatePlat(p, row) \/ Abstract!ModifyPlat(p, row)
      PROVE  UNCHANGED menu /\ \A k \in KnownPlats \ Plats : plat'[k] = Absent
  BY <1>0, <1>2 DEF Abstract!CreatePlat, Abstract!ModifyPlat
<1>3. ASSUME NEW p \in PlatIds, Abstract!RemovePlat(p) \/ Abstract!SkipPlatId(p)
      PROVE  UNCHANGED menu /\ \A k \in KnownPlats \ Plats : plat'[k] = Absent
  BY <1>0, <1>3 DEF Abstract!RemovePlat, Abstract!SkipPlatId
<1>4. ASSUME NEW m \in MenuIds, NEW row, NEW dishes,
             Abstract!CreateMenu(m, row, dishes) \/ Abstract!ModifyMenu(m, row, dishes)
      PROVE  UNCHANGED plat /\ \A k \in KnownMenus \ Menus : menu'[k] = Absent
  BY <1>0, <1>4 DEF Abstract!CreateMenu, Abstract!ModifyMenu
<1>5. ASSUME NEW m \in MenuIds, Abstract!RemoveMenu(m) \/ Abstract!SkipMenuId(m)
      PROVE  UNCHANGED plat /\ \A k \in KnownMenus \ Menus : menu'[k] = Absent
  BY <1>0, <1>5 DEF Abstract!RemoveMenu, Abstract!SkipMenuId
<1> QED
  BY <1>0, <1>1, <1>2, <1>3, <1>4, <1>5 DEF Abstract!Next

\* What deletePlat and deleteMenu delete stays deleted, whatever forms and
\* saves were under way: it does in the catalogue, which the requests implement.
THEOREM DeletionsFinal == Spec => DeletedForGood
<1>1. IInv /\ [Abstract!Next]_(Abstract!vars) /\ [Next]_vars =>
          [/\ \A p \in KnownPlats \ Plats : plat'[p] = Absent
           /\ \A m \in KnownMenus \ Menus : menu'[m] = Absent]_vars
  BY CarteForGood
<1> QED
  BY <1>1, Refinement, Invariance, PTL DEF Spec, DeletedForGood, ImplementsCarte, Abstract!Spec

-----------------------------------------------------------------------------
(***************************************************************************)
(* The request that renders a page, beside the application.                *)
(***************************************************************************)
\* What the page may have seen: nothing without a request, and the catalogue as
\* it is now during one.
SeenOK ==
    /\ etat = "libre" => vu = {}
    /\ etat # "libre" => <<plat, Comp>> \in vu

\* Both instances of Carte describe the same catalogue.
LEMMA SameCatalogue ==
    /\ Abstract!Init => Lecteur!Init
    /\ Abstract!Next => Lecteur!Next
    /\ UNCHANGED Abstract!vars => UNCHANGED Lecteur!vars
<1>1. UNCHANGED Abstract!vars => UNCHANGED Lecteur!vars
  BY DEF Abstract!vars, Lecteur!vars
<1>2. Abstract!Init => Lecteur!Init
  BY DEF Abstract!Init, Lecteur!Init, Abstract!Existing, Lecteur!Existing
<1>3. Abstract!Next => Lecteur!Next
  BY Zenon
  DEF Abstract!Next, Lecteur!Next, Abstract!Existing, Lecteur!Existing,
      Abstract!CreatePlat, Lecteur!CreatePlat, Abstract!ModifyPlat, Lecteur!ModifyPlat,
      Abstract!RemovePlat, Lecteur!RemovePlat, Abstract!CreateMenu, Lecteur!CreateMenu,
      Abstract!SkipMenuId, Lecteur!SkipMenuId, Abstract!ModifyMenu, Lecteur!ModifyMenu,
      Abstract!RemoveMenu, Lecteur!RemoveMenu, Abstract!SkipPlatId, Lecteur!SkipPlatId
<1> QED
  BY <1>1, <1>2, <1>3

\* The steps of the request itself keep what the page has seen up to date.
LEMMA ReaderSees ==
    ASSUME SeenOK, Lecteur!Reader, UNCHANGED vars
    PROVE  SeenOK'
<1>1. UNCHANGED <<plat, Comp>>
  BY DEF vars, dbVars, Comp, Composition
<1>2. ASSUME NEW v, NEW s, NEW f, NEW l, Lecteur!Open(v, s, f, l) PROVE SeenOK'
  <2>1. etat' # "libre" /\ vu' = {<<plat, Comp>>}
    BY <1>2 DEF Lecteur!Open, Comp
  <2> QED
    BY <1>1, <2>1 DEF SeenOK
<1>3. CASE \/ \E i, j \in DOMAIN liste : Lecteur!Compare(i, j)
           \/ \E l \in Lecteur!Pages : Lecteur!SortPage(l)
           \/ Lecteur!Render
  <2>1. etat # "libre" /\ etat' # "libre" /\ UNCHANGED vu
    BY <1>3 DEF Lecteur!Compare, Lecteur!SortPage, Lecteur!Render
  <2> QED
    BY <1>1, <2>1 DEF SeenOK
<1>4. CASE Lecteur!Respond
  BY <1>4 DEF Lecteur!Respond, SeenOK
<1> QED
  BY <1>2, <1>3, <1>4 DEF Lecteur!Reader, Lecteur!ListMenus, Lecteur!ShowMenuDetail

\* A step of a controller changes the catalogue as Carte promises, or changes
\* nothing that the request could see.
LEMMA ControllerSeen ==
    ASSUME SeenOK, CarteStep, Lecteur!Observe
    PROVE  SeenOK' /\ [Lecteur!PageNext]_(Lecteur!allVars)
<1>1. vu' = IF etat = "libre" THEN {} ELSE vu \cup {<<plat', Comp'>>}
  BY DEF Lecteur!Observe, Comp
<1>2. UNCHANGED <<etat, vue, sort, filtre, liste, entites, collections, affiche>>
  BY DEF Lecteur!Observe, Lecteur!request, Lecteur!session
<1>3. SeenOK'
  BY <1>1, <1>2 DEF SeenOK
<1>4. CASE Abstract!Next
  BY <1>3, <1>4, SameCatalogue DEF Lecteur!PageNext, Lecteur!Elsewhere
<1>5. CASE UNCHANGED Abstract!vars
  <2>1. UNCHANGED <<plat, Comp>>
    BY <1>5 DEF Abstract!vars, Comp
  <2>2. UNCHANGED vu
    BY <1>1, <2>1 DEF SeenOK
  <2>3. UNCHANGED Lecteur!vars
    BY <1>5, SameCatalogue
  <2> QED
    BY <1>2, <1>3, <2>2, <2>3
    DEF Lecteur!allVars, Lecteur!pageVars, Lecteur!request, Lecteur!session
<1> QED
  BY <1>3, <1>4, <1>5 DEF CarteStep

\* A page rendered beside the two controllers is rendered as Rendering says:
\* whatever steps their requests take between the query and the last row, the
\* page meets no change of the catalogue but those of Carte.
THEOREM ReaderRefinement == ConsultSpec => ImplementsRendering
<1>1. ConsultSpec => Spec
  <2>1. ConsultInit => Init
    BY DEF ConsultInit
  <2>2. [ConsultNext]_consultVars => [Next]_vars
    BY DEF ConsultNext, consultVars
  <2> QED
    BY <2>1, <2>2, PTL DEF ConsultSpec, Spec
<1>2. ConsultInit => Lecteur!PageInit /\ SeenOK
  BY InitCarte, SameCatalogue DEF ConsultInit, Lecteur!PageInit, Lecteur!ReaderInit, SeenOK
<1>3. IInv /\ RowsInv /\ SeenOK /\ [ConsultNext]_consultVars =>
          [Lecteur!PageNext]_(Lecteur!allVars) /\ SeenOK'
  <2> SUFFICES ASSUME IInv, RowsInv, SeenOK, [ConsultNext]_consultVars
               PROVE  [Lecteur!PageNext]_(Lecteur!allVars) /\ SeenOK'
    OBVIOUS
  <2>1. CASE Lecteur!Reader /\ UNCHANGED vars
    BY <2>1, ReaderSees DEF Lecteur!PageNext
  <2>2. CASE Next /\ Lecteur!Observe
    BY <2>2, StepCarte, ControllerSeen
  <2>3. CASE UNCHANGED consultVars
    <3>1. UNCHANGED <<plat, menu, Comp, KnownPlats, KnownMenus>>
      BY <2>3 DEF consultVars, vars, dbVars, Comp, Composition, KnownPlats, KnownMenus
    <3>2. UNCHANGED <<etat, vue, sort, filtre, liste, entites, collections, affiche, vu>>
      BY <2>3 DEF consultVars
    <3> QED
      BY <3>1, <3>2
      DEF SeenOK, Lecteur!allVars, Lecteur!vars, Lecteur!pageVars, Lecteur!request,
          Lecteur!session, Comp
  <2> QED
    BY <2>1, <2>2, <2>3 DEF ConsultNext
<1> QED
  BY <1>1, <1>2, <1>3, Invariance, MenuRowsInvariant, PTL
  DEF ConsultSpec, ImplementsRendering, Lecteur!PageSpec

\* What Rendering assumes of the rows holds of the rows of plat.
LEMMA RowsHaveCalories ==
    ASSUME PageSize \in Nat
    PROVE  Lecteur!RenderingAssumption
<1>1. ASSUME NEW row \in PlatRows PROVE row.nbCalories \in Int
  <2>1. row \in PlatRow
    BY PlatFormsAssumption, InitAssumption DEF PlatRows
  <2> QED
    BY <2>1 DEF PlatRow
<1> QED
  BY <1>1 DEF Lecteur!RenderingAssumption

\* Every page of menus that the application renders agrees with itself, is
\* sorted by the totals it shows, shows nothing older than its request and
\* leaves the bounds asked for only because of a change since: the theorems
\* about Rendering carry over to the tables and the requests that change them.
THEOREM PagesOfApplication ==
    ASSUME PageSize \in Nat
    PROVE  ConsultSpec => [](/\ Lecteur!PageAgrees
                             /\ Lecteur!SortedAsShown
                             /\ Lecteur!NothingStale
                             /\ Lecteur!OutsideOnlyIfChanged)
<1>1. ConsultSpec => Lecteur!PageSpec
  BY ReaderRefinement DEF ImplementsRendering
<1>2. Lecteur!RenderingAssumption
  BY RowsHaveCalories
<1> QED
  BY <1>1, <1>2, Lecteur!OnePage, Lecteur!SortedPage, Lecteur!FreshPage, Lecteur!FilteredPage, PTL
=============================================================================
