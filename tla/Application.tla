---------------------------- MODULE Application -----------------------------
(***************************************************************************)
(* The whole application: browsers using both controllers concurrently     *)
(* over one database.                                                      *)
(***************************************************************************)
EXTENDS PlatController, MenuController

vars == <<dbVars, webVars, platReq, menuReq>>

Init == SchemaInit /\ WebInit /\ PlatInit /\ MenuInit

UserStep(c) ==
    \/ PlatUser(c) /\ UNCHANGED menuReq
    \/ MenuUser(c) /\ UNCHANGED platReq

ServerStep(c) ==
    \/ PlatServer(c) /\ UNCHANGED menuReq
    \/ MenuServer(c) /\ UNCHANGED platReq

Next == \E c \in Clients : UserStep(c) \/ ServerStep(c)

Spec == Init /\ [][Next]_vars

\* The container gives every request a thread and the browser follows every
\* redirect, so a request in flight takes its next step; users owe nothing.
FairSpec == Spec /\ \A c \in Clients : WF_vars(ServerStep(c))

InitComposition(m) == {p \in PlatIds : <<m, p>> \in InitMenuPlat}

-----------------------------------------------------------------------------
TypeOK ==
    /\ SchemaTypeOK
    /\ WebTypeOK
    /\ platReq \in [Clients -> PlatReq]
    /\ menuReq \in [Clients -> MenuReq]

\* Every dish stored after savePlat is, in all its columns together, a dish
\* that somebody typed into the form or that the database started with:
\* overlapping saves of one dish overwrite each other but never mix columns.
NoTornPlat == \A p \in Plats : plat[p] \in PlatForms \cup {InitPlat[p]}

\* "Le plat / le menu a bien ete supprime" is never shown for a row that
\* exists: not when two deletions race, and not later, since nothing that
\* runs after the deletion (a stale form saved again, a creation) brings a
\* row back under the deleted key.
DeletionAlertTruthful ==
    \A c \in Clients : pc[c] = "page" /\ page[c].view = "del" =>
        page[c].id \notin (IF page[c].table = "plat" THEN Plats ELSE Menus)

\* The rows a table may hold: those it started with and those users submit.
PlatRows == PlatForms \cup ({InitPlat[p] : p \in PlatIds} \ {Absent})
MenuRows == {row \in MenuForms : Fits(row)} \cup ({InitMenu[m] : m \in MenuIds} \ {Absent})

\* The catalogue behind the tables.
Abstract == INSTANCE Carte WITH
    plats <- plat,
    menus <- menu,
    composition <- [m \in MenuIds |-> Composition(m)],
    usedPlatIds <- KnownPlats,
    usedMenuIds <- KnownMenus

\* Every interleaving of the requests of PlatController and MenuController
\* implements the atomic catalogue: identifiers are never reused or revived,
\* menus are changed atomically, dishes in use stay.
ImplementsCarte == Abstract!Spec

\* Every request the server accepts is answered, with a page, a form or an
\* error, however the requests of others interleave with it: the loop over
\* platIds ends, and no step waits for what another request has yet to do.
\* (Waiting for a row lock is part of a step: InnoDB ends it with the lock or
\* with an error.)
RequestsAnswered ==
    \A c \in Clients : pc[c] \in ServerSteps ~> pc[c] \notin ServerSteps

\* The most steps the server takes from each step of a request to its answer,
\* but for the look-ups of saveMenu.
StepsLeft ==
    [savePlat |-> 3, flushPlat |-> 2, deletePlat |-> 3, removePlat |-> 2, listePlats |-> 1,
     editMenu |-> 2, menuView |-> 1,
     saveMenu |-> 3, flushMenu |-> 2, deleteMenu |-> 3, removeMenu |-> 2, listMenus |-> 1]

Remaining(c) ==
    CASE pc[c] = "saveMenu" -> StepsLeft.saveMenu + Cardinality(menuReq[c].platIds)
      [] pc[c] \in ServerSteps \ {"saveMenu"} -> StepsLeft[pc[c]]
      [] OTHER -> 0

\* Every step of a request, whether it succeeds, fails or redirects, brings it
\* closer to its answer, and no step of another request sends it back: nothing
\* is retried, and a dish that is gone does not make saveMenu look again.
RequestsAdvance ==
    [][\A c \in Clients : pc[c] \in ServerSteps =>
           \/ Remaining(c)' < Remaining(c)
           \/ UNCHANGED <<pc[c], page[c], platReq[c], menuReq[c]>>]_vars

\* A dish or a menu that was deleted never comes back: not through a form or a
\* save that was under way when it was deleted, and not as the key of a new
\* row, so that an old link leads to the row it was made for or to none.
DeletedForGood ==
    [][/\ \A p \in KnownPlats \ Plats : plat'[p] = Absent
       /\ \A m \in KnownMenus \ Menus : menu'[m] = Absent]_vars

\* A save of a menu stores every dish that was submitted to it, except those
\* deleted meanwhile, and no other: however long the look-ups, the merge and
\* the flush take, a dish is not lost because another one was deleted, and a
\* deleted dish does not come back.  Only an overlapping save of the same menu,
\* between merge and flush, can make it differ.
SavedAsSelected ==
    [][\A c \in Clients :
           LET r == menuReq[c] IN
           /\ pc[c] \in {"saveMenu", "flushMenu"}
           /\ pc'[c] = "listMenus"
           /\ r.id # 0 => r.snapPlats = Composition(r.id)
           => {p \in PlatIds : <<page'[c].id, p>> \in menu_plat'} = r.submitted \cap Plats]_vars

\* When one browser works alone, the dishes of a menu are exactly a selection
\* that was submitted to saveMenu, or what the database started with: the
\* look-ups, the merge and the difference of join rows lose and add nothing.
ComposedAsSelected ==
    \A m \in Menus : Composition(m) \in Selections \cup {InitComposition(m)}

-----------------------------------------------------------------------------
(***************************************************************************)
(* The inductive invariant: what the database and the request of each      *)
(* browser keep between any two steps.                                     *)
(***************************************************************************)
DbOK ==
    /\ SchemaTypeOK
    /\ Integrity
    /\ KeysBelowCounter
    /\ NoTornPlat

\* A request on a dish names a key handed out once, never one to come, and a
\* save carries what the form accepted.
PlatReqOK(c) ==
    /\ platReq[c] \in PlatReq
    /\ platReq[c].id \in KnownPlats \cup {0}
    /\ pc[c] \in {"savePlat", "flushPlat"} => platReq[c].row \in PlatForms
    /\ pc[c] \in {"flushPlat", "deletePlat", "removePlat"} => platReq[c].id # 0

\* The look-ups of a save lose none of the dishes submitted that still exist,
\* and find no other.
SelectionOK(r) ==
    /\ r.platIds \cup r.selectedPlats \subseteq r.submitted
    /\ \A p \in r.submitted \cap Plats : p \in r.selectedPlats \cup r.platIds

\* Likewise for a menu.  The dishes it offers and those submitted to it have
\* existed, and all are looked up by the time of the flush.
MenuReqOK(c) ==
    /\ menuReq[c] \in MenuReq
    /\ menuReq[c].id \in KnownMenus \cup {0}
    /\ menuReq[c].platIds \cup menuReq[c].submitted \subseteq KnownPlats
    /\ pc[c] \in {"saveMenu", "flushMenu"} => SelectionOK(menuReq[c])
    /\ pc[c] = "flushMenu" => menuReq[c].platIds = {}
    /\ pc[c] \in {"saveMenu", "flushMenu"} => menuReq[c].row \in MenuForms
    /\ pc[c] \in {"flushMenu", "deleteMenu", "removeMenu"} => menuReq[c].id # 0

\* A page of details or a deletion alert is about a key handed out once; the
\* row of a deletion alert is gone, whether the alert is displayed or still
\* being redirected to.
PageOK(c) ==
    /\ pc[c] \in {"page"} \cup FormSteps \cup ServerSteps
    /\ page[c] \in PageRecord
    /\ pc[c] = "listePlats" => page[c].table = "plat" /\ page[c].view \in Alerts
    /\ pc[c] = "listMenus" => page[c].table = "menu" /\ page[c].view \in Alerts
    /\ page[c].view \in {"detail", "del"} =>
           page[c].id \in (IF page[c].table = "plat" THEN KnownPlats ELSE KnownMenus)
    /\ page[c].view = "del" =>
           page[c].id \notin (IF page[c].table = "plat" THEN Plats ELSE Menus)

ClientOK(c) == PlatReqOK(c) /\ MenuReqOK(c) /\ PageOK(c)

\* Between any two steps of any requests the tables satisfy their constraints
\* and every request in flight, however stale what it read, names keys that
\* no creation can hand out again.
IInv ==
    /\ TypeOK
    /\ DbOK
    /\ \A c \in Clients : ClientOK(c)

-----------------------------------------------------------------------------
(***************************************************************************)
(* Statements of the repository that the code does not keep.               *)
(***************************************************************************)
\* menuForm.html: "Au minimum, un plat doit etre selectionne."
MenuNeverEmpty == \A m \in Menus : Composition(m) # {}

\* README: "l'utilisateur peut selectionner les plats qu'il souhaite ajouter a
\* son menu".  Even if dishes may disappear from it, a menu has no dishes but
\* those of one selection.
CompositionNotMixed ==
    \A m \in Menus : \E s \in Selections \cup {InitComposition(m)} : Composition(m) \subseteq s

\* README: an alert tells the user that the menu or dish was created or
\* modified; a view that fails after the commit tells them the opposite.
SaveIsAnnounced == \A c \in Clients : page[c].view # "template"
=============================================================================
