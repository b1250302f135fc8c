--------------------------- MODULE MenuController ---------------------------
(***************************************************************************)
(* The requests MenuController serves.  As in PlatController every         *)
(* repository call is a transaction of its own: saveMenu looks up the      *)
(* selected dishes one by one, then saves the menu; a save of an existing  *)
(* menu loads it with its dishes (MergeMenu) and writes the difference     *)
(* (FlushMenu).  Other requests may run between any two of these steps.    *)
(***************************************************************************)
EXTENDS Web, FiniteSets

CONSTANTS
    MenuForms,    \* the menus users type into menuForm.html
    Selections    \* the sets of dishes users select there

\* The form accepts a description of 0 to 500 characters and a price of at
\* least 1 euro.
ASSUME MenuFormsAssumption ==
    /\ MenuForms \subseteq MenuRow
    /\ \A row \in MenuForms : row.description <= 500 /\ row.prix >= 100

\* validateMenuSelection keeps an empty selection from being submitted; the
\* form has finitely many inputs.
ASSUME SelectionsAssumption ==
    /\ Selections \subseteq SUBSET PlatIds /\ {} \notin Selections
    /\ \A s \in Selections : IsFiniteSet(s)

VARIABLE menuReq      \* the request of each browser on a menu: its id (0 for a
                      \* new menu), the row submitted, platIds (the dishes the
                      \* form offers, then those submitted and not yet looked
                      \* up), submitted (the parameter platIds as received),
                      \* selectedPlats, and the row and the dishes that merge
                      \* loaded

NoMenuReq == [id |-> 0, row |-> Absent,
              platIds |-> {}, submitted |-> {}, selectedPlats |-> {},
              snap |-> Absent, snapPlats |-> {}]

MenuReq == [id : MenuIds \cup {0}, row : MenuRow \cup {Absent},
            platIds : SUBSET PlatIds, submitted : SUBSET PlatIds,
            selectedPlats : SUBSET PlatIds,
            snap : MenuRow \cup {Absent}, snapPlats : SUBSET PlatIds]

MenuInit == menuReq = [c \in Clients |-> NoMenuReq]

\* The request on a menu of browser c ends with view v.
EndMenu(c, v, i) ==
    /\ Answer(c, v, "menu", i)
    /\ menuReq' = [menuReq EXCEPT ![c] = NoMenuReq]

\* The response redirects to /menus with these action and id parameters.
RedirectMenus(c, v, i) ==
    /\ Goto(c, "listMenus")
    /\ Show(c, v, "menu", i)
    /\ menuReq' = [menuReq EXCEPT ![c] = NoMenuReq]

-----------------------------------------------------------------------------
\* GET /edit looks up the menu to edit; 0 asks for the form of a new menu.
EditMenu(c, i) ==
    /\ pc[c] = "page"
    /\ \/ /\ i = 0 \/ i \in Menus
          /\ Goto(c, "editMenu")
          /\ Show(c, "form", "menu", i)
          /\ menuReq' = [menuReq EXCEPT ![c].id = i]
       \/ /\ i \in KnownMenus \ Menus
          /\ EndMenu(c, "liste", 0)
    /\ UNCHANGED dbVars

\* editMenu then reads the dishes to offer.  A filter only leaves some out,
\* and the user need not select what is offered.
OfferPlats(c) ==
    /\ pc[c] = "editMenu"
    /\ Goto(c, "menuView")
    /\ menuReq' = [menuReq EXCEPT ![c].platIds = Plats]
    /\ UNCHANGED <<dbVars, page>>

\* The view loads menu.plats lazily, to list the dishes already selected.
RenderMenuForm(c) ==
    /\ pc[c] = "menuView"
    /\ Goto(c, "menuForm")
    /\ menuReq' = [menuReq EXCEPT ![c].platIds = @ \cup Composition(menuReq[c].id)]
    /\ UNCHANGED <<dbVars, page>>

\* GET /menuDetail/{id}.
ShowMenuDetail(c, i) ==
    /\ pc[c] = "page"
    /\ i \in KnownMenus
    /\ EndMenu(c, IF i \in Menus THEN "detail" ELSE "liste", i)
    /\ UNCHANGED dbVars

\* The user leaves the form without submitting it: "Annuler", or a filter on
\* the dishes, which loads the form again.
LeaveMenuForm(c) ==
    /\ pc[c] = "menuForm"
    /\ EndMenu(c, "liste", 0)
    /\ UNCHANGED dbVars

\* The user submits the form with the dishes sel; saveMenu starts with none of
\* them looked up.
SubmitMenu(c, row, sel) ==
    /\ pc[c] = "menuForm"
    /\ sel \subseteq menuReq[c].platIds
    /\ Goto(c, "saveMenu")
    /\ menuReq' = [menuReq EXCEPT ![c].row = row, ![c].platIds = sel,
                                  ![c].submitted = sel, ![c].selectedPlats = {}]
    /\ UNCHANGED <<dbVars, page>>

MutFindPlatWaits(c, p) ==
    /\ pc[c] = "saveMenu"
    /\ p \in menuReq[c].platIds \cap Plats
    /\ menuReq' = [menuReq EXCEPT ![c].platIds = @ \ {p},
                                  ![c].selectedPlats = @ \cup {p}]
    /\ UNCHANGED <<dbVars, webVars>>

MutFindPlatKeepsLast(c, p) ==
    /\ pc[c] = "saveMenu"
    /\ p \in menuReq[c].platIds
    /\ menuReq' = [menuReq EXCEPT ![c].platIds = @ \ {p},
                                  ![c].selectedPlats = {p} \cap Plats]
    /\ UNCHANGED <<dbVars, webVars>>

\* saveMenu looks up one submitted dish; a dish that is gone is dropped.
FindPlat(c, p) ==
    /\ pc[c] = "saveMenu"
    /\ p \in menuReq[c].platIds
    /\ menuReq' = [menuReq EXCEPT ![c].platIds = @ \ {p},
                                  ![c].selectedPlats = @ \cup ({p} \cap Plats)]
    /\ UNCHANGED <<dbVars, webVars>>

MutPersistMenuReusesKey(c) ==
    LET r == menuReq[c] IN
    /\ pc[c] = "saveMenu"
    /\ r.platIds = {}
    /\ r.id = 0
    /\ r.selectedPlats \subseteq Plats
    /\ \E m \in KnownMenus \ Menus :
          /\ menu' = [menu EXCEPT ![m] = r.row]
          /\ menu_plat' = menu_plat \cup ({m} \X r.selectedPlats)
          /\ RedirectMenus(c, "new", m)
    /\ UNCHANGED <<plat, autoPlat, autoMenu>>

\* save of a menu without id.  The menu is inserted first, which uses up an
\* AUTO_INCREMENT value even when a row of menu_plat is then refused because
\* its dish was deleted in the meantime.
PersistMenu(c) ==
    LET r == menuReq[c] IN
    /\ pc[c] = "saveMenu"
    /\ r.platIds = {}
    /\ r.id = 0
    /\ autoMenu \in MenuIds
    /\ Fits(r.row)
    /\ autoMenu' = autoMenu + 1
    /\ \/ /\ r.selectedPlats \subseteq Plats
          /\ menu' = [menu EXCEPT ![autoMenu] = r.row]
          /\ menu_plat' = menu_plat \cup ({autoMenu} \X r.selectedPlats)
          /\ RedirectMenus(c, "new", autoMenu)
       \/ /\ ~(r.selectedPlats \subseteq Plats)
          /\ EndMenu(c, "integrity", 0)
          /\ UNCHANGED <<menu, menu_plat>>
    /\ UNCHANGED <<plat, autoPlat>>

\* The insert of the menu itself is refused: the description is too long, or
\* (the bound on the keys of menu) AUTO_INCREMENT is exhausted.
PersistMenuRefused(c) ==
    LET r == menuReq[c] IN
    /\ pc[c] = "saveMenu"
    /\ r.platIds = {}
    /\ r.id = 0
    /\ ~Fits(r.row) \/ autoMenu \notin MenuIds
    /\ EndMenu(c, IF Fits(r.row) THEN "integrity" ELSE "tooLong", 0)
    /\ UNCHANGED dbVars

\* save of a menu with an id: merge loads the menu and its dishes, and
\* refuses to merge into a menu that no longer exists.
MergeMenu(c) ==
    LET i == menuReq[c].id IN
    /\ pc[c] = "saveMenu"
    /\ menuReq[c].platIds = {}
    /\ i # 0
    /\ \/ /\ menu[i] # Absent
          /\ Goto(c, "flushMenu")
          /\ menuReq' = [menuReq EXCEPT ![c].snap = menu[i],
                                        ![c].snapPlats = Composition(i)]
          /\ UNCHANGED page
       \/ /\ menu[i] = Absent
          /\ EndMenu(c, "stale", 0)
    /\ UNCHANGED dbVars

-----------------------------------------------------------------------------
(***************************************************************************)
(* The flush of a merged menu: the row is updated if it differs from the   *)
(* row loaded, and the rows of menu_plat are deleted and inserted by       *)
(* difference with the dishes loaded.                                      *)
(***************************************************************************)
Dirty(r) == r.row # r.snap

MutRemovedNothing(r) == {}

Removed(r) == r.snapPlats \ r.selectedPlats

Added(r) == r.selectedPlats \ r.snapPlats

\* The outcome of the UPDATE of table menu.
UpdateMisses(r) == Dirty(r) /\ menu[r.id] = Absent
UpdateTooLong(r) == Dirty(r) /\ menu[r.id] # Absent /\ ~Fits(r.row)

MutUpdateDoneAnyLength(r) == Dirty(r) => menu[r.id] # Absent

UpdateDone(r) == Dirty(r) => menu[r.id] # Absent /\ Fits(r.row)

\* A row of menu_plat to delete is already gone.
DeleteMisses(r) == \E p \in Removed(r) : <<r.id, p>> \notin menu_plat

InsertsDone(r) == \A p \in Added(r) : Insertable(r.id, p)

\* All statements succeed and the transaction commits.  Whether deleting a
\* join row that is already gone fails is left open: see FlushMenuStale.
FlushMenu(c) ==
    LET r == menuReq[c] IN
    /\ pc[c] = "flushMenu"
    /\ UpdateDone(r)
    /\ InsertsDone(r)
    /\ menu' = IF Dirty(r) THEN [menu EXCEPT ![r.id] = r.row] ELSE menu
    /\ menu_plat' = (menu_plat \ ({r.id} \X Removed(r))) \cup ({r.id} \X Added(r))
    /\ RedirectMenus(c, "mod", r.id)
    /\ UNCHANGED <<plat, autoPlat, autoMenu>>

\* A statement finds fewer rows than it should: the menu was deleted since it
\* was loaded, or one of the join rows to delete was.
FlushMenuStale(c) ==
    LET r == menuReq[c] IN
    /\ pc[c] = "flushMenu"
    /\ UpdateMisses(r) \/ (UpdateDone(r) /\ DeleteMisses(r))
    /\ EndMenu(c, "stale", 0)
    /\ UNCHANGED dbVars

FlushMenuTooLong(c) ==
    LET r == menuReq[c] IN
    /\ pc[c] = "flushMenu"
    /\ UpdateTooLong(r)
    /\ EndMenu(c, "tooLong", 0)
    /\ UNCHANGED dbVars

MutFlushMenuRefusedRetries(c) ==
    LET r == menuReq[c] IN
    /\ pc[c] = "flushMenu"
    /\ UpdateDone(r)
    /\ ~InsertsDone(r)
    /\ Goto(c, "saveMenu")
    /\ UNCHANGED <<dbVars, page, menuReq>>

\* A join row to insert is a duplicate, or its menu or dish is gone.
FlushMenuRefused(c) ==
    LET r == menuReq[c] IN
    /\ pc[c] = "flushMenu"
    /\ UpdateDone(r)
    /\ ~InsertsDone(r)
    /\ EndMenu(c, "integrity", 0)
    /\ UNCHANGED dbVars

-----------------------------------------------------------------------------
\* The user follows "Supprimer" on the form or on the page of a menu.
AskDeleteMenu(c) ==
    /\ \/ /\ pc[c] = "menuForm"
          /\ menuReq[c].id # 0
          /\ menuReq' = [menuReq EXCEPT ![c].platIds = {}]
       \/ /\ pc[c] = "page"
          /\ page[c].view = "detail"
          /\ page[c].table = "menu"
          /\ menuReq' = [menuReq EXCEPT ![c].id = page[c].id]
    /\ Goto(c, "deleteMenu")
    /\ UNCHANGED <<dbVars, page>>

MutDeleteMenuForgets(c) ==
    /\ pc[c] = "deleteMenu"
    /\ RedirectMenus(c, "del", menuReq[c].id)
    /\ UNCHANGED dbVars

\* deleteMenu: deleteById looks the menu up, and does nothing if it is gone.
DeleteMenu(c) ==
    LET i == menuReq[c].id IN
    /\ pc[c] = "deleteMenu"
    /\ \/ /\ menu[i] # Absent
          /\ Goto(c, "removeMenu")
          /\ UNCHANGED <<page, menuReq>>
       \/ /\ menu[i] = Absent
          /\ RedirectMenus(c, "del", i)
    /\ UNCHANGED dbVars

MutRemoveMenuLeavesPairs(c) ==
    LET i == menuReq[c].id IN
    /\ pc[c] = "removeMenu"
    /\ menu' = [menu EXCEPT ![i] = Absent]
    /\ RedirectMenus(c, "del", i)
    /\ UNCHANGED <<menu_plat, plat, autoPlat, autoMenu>>

\* The flush of the removal: every join row of the menu is deleted, then the
\* menu; an optimistic locking failure if somebody else deleted it first.
RemoveMenu(c) ==
    LET i == menuReq[c].id IN
    /\ pc[c] = "removeMenu"
    /\ \/ /\ menu[i] # Absent
          /\ menu_plat' = menu_plat \ ({i} \X PlatIds)
          /\ menu' = [menu EXCEPT ![i] = Absent]
          /\ RedirectMenus(c, "del", i)
       \/ /\ menu[i] = Absent
          /\ EndMenu(c, "stale", 0)
          /\ UNCHANGED <<menu, menu_plat>>
    /\ UNCHANGED <<plat, autoPlat, autoMenu>>

\* GET /menus after a redirect.  The alert of a creation or modification
\* shows menu.nom, read through a lazy reference: with the menu gone the view
\* fails.
ListMenus(c) ==
    /\ pc[c] = "listMenus"
    /\ EndMenu(c, IF page[c].view = "del" \/ page[c].id \in Menus
                  THEN page[c].view ELSE "template", page[c].id)
    /\ UNCHANGED dbVars

\* The request dies; the transaction in progress, if any, is rolled back, but
\* not the AUTO_INCREMENT value that its INSERT may have used up.
FailMenu(c) ==
    LET r == menuReq[c] IN
    /\ MayFail
    /\ pc[c] \in MenuSteps
    /\ EndMenu(c, "failure", 0)
    /\ \/ UNCHANGED autoMenu
       \/ /\ pc[c] = "saveMenu"
          /\ r.platIds = {}
          /\ r.id = 0
          /\ autoMenu \in MenuIds
          /\ Fits(r.row)
          /\ autoMenu' = autoMenu + 1
    /\ UNCHANGED <<plat, menu, menu_plat, autoPlat>>

MenuUser(c) ==
    \/ \E i \in MenuIds \cup {0} : EditMenu(c, i) \/ ShowMenuDetail(c, i)
    \/ LeaveMenuForm(c)
    \/ \E row \in MenuForms, sel \in Selections : SubmitMenu(c, row, sel)
    \/ AskDeleteMenu(c)

MenuServer(c) ==
    \/ OfferPlats(c)
    \/ RenderMenuForm(c)
    \/ \E p \in PlatIds : FindPlat(c, p)
    \/ PersistMenu(c)
    \/ PersistMenuRefused(c)
    \/ MergeMenu(c)
    \/ FlushMenu(c)
    \/ FlushMenuStale(c)
    \/ FlushMenuTooLong(c)
    \/ FlushMenuRefused(c)
    \/ DeleteMenu(c)
    \/ RemoveMenu(c)
    \/ ListMenus(c)
    \/ FailMenu(c)
=============================================================================
