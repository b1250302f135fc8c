--------------------------- MODULE RequestProofs ----------------------------
(***************************************************************************)
(* What the requests of a browser do: every step brings a request closer   *)
(* to its answer; a save whose menu nobody else has changed stores its     *)
(* selection; and with a single browser a menu is always made of exactly   *)
(* the dishes of a selection submitted to saveMenu.                        *)
(***************************************************************************)
EXTENDS ApplicationProofs, FiniteSetTheorems

-----------------------------------------------------------------------------
(***************************************************************************)
(* Requests advance.  The only loop of a request is the one of saveMenu    *)
(* over the dishes submitted, which are finitely many and get fewer.       *)
(***************************************************************************)
FiniteLookups ==
    \A c \in Clients : pc[c] = "saveMenu" => IsFiniteSet(menuReq[c].platIds)

\* A step of one browser leaves the requests of the others alone.
LEMMA Untouched ==
    ASSUME IInv, NEW c \in Clients, NEW d \in Clients, d # c, UserStep(c) \/ ServerStep(c)
    PROVE  UNCHANGED <<pc[d], page[d], platReq[d], menuReq[d]>>
<1>0. /\ pc \in [Clients -> {"page"} \cup FormSteps \cup ServerSteps]
      /\ page \in [Clients -> PageRecord]
      /\ platReq \in [Clients -> PlatReq] /\ menuReq \in [Clients -> MenuReq]
  BY DEF IInv, TypeOK, WebTypeOK
<1>1. CASE PlatUser(c) /\ UNCHANGED menuReq
  BY <1>0, <1>1 DEF PlatUser, EditPlat, ShowPlatDetail, LeavePlatForm, SubmitPlat, AskDeletePlat,
      EndPlat, Answer, Goto, Show
<1>2. CASE PlatServer(c) /\ UNCHANGED menuReq
  BY <1>0, <1>2 DEF PlatServer, PersistPlat, PersistPlatExhausted, MergePlat, FlushPlat, DeletePlat,
      RemovePlat, ListePlats, FailPlat, EndPlat, RedirectPlats, Answer, Goto, Show
<1>3. CASE MenuUser(c) /\ UNCHANGED platReq
  BY <1>0, <1>3 DEF MenuUser, EditMenu, ShowMenuDetail, LeaveMenuForm, SubmitMenu, AskDeleteMenu,
      EndMenu, Answer, Goto, Show
<1>4. CASE MenuServer(c) /\ UNCHANGED platReq
  <2>1. CASE OfferPlats(c) \/ RenderMenuForm(c) \/ (\E p \in PlatIds : FindPlat(c, p)) \/ MergeMenu(c)
    BY <1>0, <1>4, <2>1 DEF OfferPlats, RenderMenuForm, FindPlat, MergeMenu, EndMenu, Answer, Goto, Show,
        webVars
  <2>2. CASE PersistMenu(c) \/ PersistMenuRefused(c) \/ FlushMenu(c) \/ FlushMenuStale(c)
             \/ FlushMenuTooLong(c) \/ FlushMenuRefused(c)
    BY <1>0, <1>4, <2>2 DEF PersistMenu, PersistMenuRefused, FlushMenu, FlushMenuStale,
        FlushMenuTooLong, FlushMenuRefused, EndMenu, RedirectMenus, Answer, Goto, Show
  <2>3. CASE DeleteMenu(c) \/ RemoveMenu(c) \/ ListMenus(c) \/ FailMenu(c)
    BY <1>0, <1>4, <2>3 DEF DeleteMenu, RemoveMenu, ListMenus, FailMenu, EndMenu, RedirectMenus,
        Answer, Goto, Show
  <2> QED
    BY <1>4, <2>1, <2>2, <2>3 DEF MenuServer
<1> QED
  BY <1>1, <1>2, <1>3, <1>4 DEF UserStep, ServerStep

\* The requests on dishes take no step twice.
LEMMA PlatAdvances ==
    ASSUME IInv, NEW c \in Clients, PlatServer(c)
    PROVE  Remaining(c)' < Remaining(c)
<1>0. pc \in [Clients -> {"page"} \cup FormSteps \cup ServerSteps]
  BY DEF IInv, TypeOK, WebTypeOK
<1>1. \/ pc[c] = "savePlat" /\ pc'[c] \in {"flushPlat", "listePlats", "page"}
      \/ pc[c] = "flushPlat" /\ pc'[c] \in {"listePlats", "page"}
      \/ pc[c] = "deletePlat" /\ pc'[c] \in {"removePlat", "listePlats", "page"}
      \/ pc[c] = "removePlat" /\ pc'[c] \in {"listePlats", "page"}
      \/ pc[c] = "listePlats" /\ pc'[c] = "page"
  BY <1>0 DEF PlatServer, PersistPlat, PersistPlatExhausted, MergePlat, FlushPlat, DeletePlat,
      RemovePlat, ListePlats, FailPlat, PlatSteps, EndPlat, RedirectPlats, Answer, Goto
<1> QED
  BY <1>1 DEF Remaining, StepsLeft, ServerSteps, PlatSteps, MenuSteps

\* Nor do those on menus, but for one look-up per dish submitted.
LEMMA MenuAdvances ==
    ASSUME IInv, FiniteLookups, NEW c \in Clients, MenuServer(c)
    PROVE  /\ Remaining(c)' < Remaining(c)
           /\ pc'[c] = "saveMenu" => IsFiniteSet(menuReq'[c].platIds)
<1>0. /\ pc \in [Clients -> {"page"} \cup FormSteps \cup ServerSteps]
      /\ menuReq \in [Clients -> MenuReq] /\ menuReq[c] \in MenuReq
  BY DEF IInv, TypeOK, WebTypeOK
<1>1. ASSUME NEW p \in PlatIds, FindPlat(c, p)
      PROVE  Remaining(c)' < Remaining(c) /\ IsFiniteSet(menuReq'[c].platIds)
  <2> DEFINE S == menuReq[c].platIds
  <2>1. pc[c] = "saveMenu" /\ pc'[c] = "saveMenu" /\ p \in S /\ menuReq'[c].platIds = S \ {p}
    BY <1>0, <1>1 DEF FindPlat, webVars, MenuReq
  <2>2. IsFiniteSet(S)
    BY <2>1 DEF FiniteLookups
  <2>3. IsFiniteSet(S \ {p}) /\ Cardinality(S \ {p}) = Cardinality(S) - 1 /\ Cardinality(S) \in Nat
    BY <2>1, <2>2, FS_RemoveElement, FS_CardinalityType
  <2>4. Remaining(c) = 3 + Cardinality(S) /\ Remaining(c)' = 3 + Cardinality(S \ {p})
    BY <2>1 DEF Remaining, StepsLeft
  <2> QED
    BY <2>1, <2>3, <2>4
<1>2. CASE \A p \in PlatIds : ~FindPlat(c, p)
  <2>1. \/ pc[c] = "editMenu" /\ pc'[c] \in {"menuView", "page"}
        \/ pc[c] = "menuView" /\ pc'[c] \in {"menuForm", "page"}
        \/ pc[c] = "saveMenu" /\ pc'[c] \in {"flushMenu", "listMenus", "page"}
        \/ pc[c] = "flushMenu" /\ pc'[c] \in {"listMenus", "page"}
        \/ pc[c] = "deleteMenu" /\ pc'[c] \in {"removeMenu", "listMenus", "page"}
        \/ pc[c] = "removeMenu" /\ pc'[c] \in {"listMenus", "page"}
        \/ pc[c] = "listMenus" /\ pc'[c] = "page"
    BY <1>0, <1>2 DEF MenuServer, OfferPlats, RenderMenuForm, PersistMenu, PersistMenuRefused,
        MergeMenu, FlushMenu, FlushMenuStale, FlushMenuTooLong, FlushMenuRefused, DeleteMenu,
        RemoveMenu, ListMenus, FailMenu, MenuSteps, EndMenu, RedirectMenus, Answer, Goto
  <2>2. CASE pc[c] = "saveMenu"
    <3>1. Remaining(c) = 3 + Cardinality(menuReq[c].platIds) /\ Cardinality(menuReq[c].platIds) \in Nat
      BY <2>2, FS_CardinalityType DEF Remaining, StepsLeft, FiniteLookups
    <3>2. Remaining(c)' \in {0, 1, 2} /\ pc'[c] # "saveMenu"
      BY <2>1, <2>2 DEF Remaining, StepsLeft, ServerSteps, PlatSteps, MenuSteps
    <3> QED
      BY <3>1, <3>2
  <2>3. CASE pc[c] # "saveMenu"
    BY <2>1, <2>3 DEF Remaining, StepsLeft, ServerSteps, PlatSteps, MenuSteps
  <2> QED
    BY <2>2, <2>3
<1> QED
  BY <1>1, <1>2

\* Only SubmitMenu starts look-ups, of a selection; users move no request that
\* the server is working on.
LEMMA UserAdvances ==
    ASSUME IInv, NEW c \in Clients, UserStep(c)
    PROVE  /\ pc[c] \notin ServerSteps
           /\ pc'[c] = "saveMenu" => IsFiniteSet(menuReq'[c].platIds)
<1>0. /\ pc \in [Clients -> {"page"} \cup FormSteps \cup ServerSteps]
      /\ menuReq \in [Clients -> MenuReq] /\ menuReq[c] \in MenuReq
  BY DEF IInv, TypeOK, WebTypeOK
<1>1. pc[c] \in {"page", "platForm", "menuForm"}
  BY DEF UserStep, PlatUser, EditPlat, ShowPlatDetail, LeavePlatForm, SubmitPlat, AskDeletePlat,
      MenuUser, EditMenu, ShowMenuDetail, LeaveMenuForm, SubmitMenu, AskDeleteMenu
<1>2. ASSUME NEW row \in MenuForms, NEW sel \in Selections, SubmitMenu(c, row, sel)
      PROVE  IsFiniteSet(menuReq'[c].platIds)
  <2>1. menuReq'[c].platIds = sel
    BY <1>0, <1>2 DEF SubmitMenu, MenuReq
  <2> QED
    BY <2>1, SelectionsAssumption
<1>3. CASE \A row \in MenuForms, sel \in Selections : ~SubmitMenu(c, row, sel)
  <2>1. pc'[c] # "saveMenu"
    BY <1>0, <1>3 DEF UserStep, PlatUser, EditPlat, ShowPlatDetail, LeavePlatForm, SubmitPlat,
        AskDeletePlat, MenuUser, EditMenu, ShowMenuDetail, LeaveMenuForm, AskDeleteMenu,
        EndPlat, EndMenu, Answer, Goto
  <2> QED
    BY <1>1, <2>1 DEF ServerSteps, PlatSteps, MenuSteps
<1> QED
  BY <1>1, <1>2, <1>3 DEF ServerSteps, PlatSteps, MenuSteps

\* The step of a browser makes its own request advance and no other one move.
LEMMA OneAdvances ==
    ASSUME IInv, FiniteLookups, NEW c \in Clients, UserStep(c) \/ ServerStep(c), NEW d \in Clients
    PROVE  /\ pc[d] \in ServerSteps =>
                  \/ Remaining(d)' < Remaining(d)
                  \/ UNCHANGED <<pc[d], page[d], platReq[d], menuReq[d]>>
           /\ pc'[d] = "saveMenu" => IsFiniteSet(menuReq'[d].platIds)
<1>1. CASE d # c
  BY <1>1, Untouched DEF FiniteLookups
<1>2. CASE d = c /\ UserStep(c)
  BY <1>2, UserAdvances
<1>3. CASE d = c /\ PlatServer(c) /\ UNCHANGED menuReq
  <2>1. pc'[c] # "saveMenu"
    BY <1>3 DEF PlatServer, PersistPlat, PersistPlatExhausted, MergePlat, FlushPlat, DeletePlat,
        RemovePlat, ListePlats, FailPlat, EndPlat, RedirectPlats, Answer, Goto,
        IInv, TypeOK, WebTypeOK
  <2> QED
    BY <1>3, <2>1, PlatAdvances
<1>4. CASE d = c /\ MenuServer(c)
  BY <1>4, MenuAdvances
<1> QED
  BY <1>1, <1>2, <1>3, <1>4 DEF ServerStep

\* Every step of a request brings it closer to its answer, in every
\* interleaving of the requests of both controllers and however they fail.
THEOREM Advancement == Spec => RequestsAdvance
<1>1. Init => FiniteLookups
  BY DEF Init, WebInit, FiniteLookups
<1>2. IInv /\ FiniteLookups /\ [Next]_vars => FiniteLookups'
  <2>1. IInv /\ FiniteLookups /\ Next => FiniteLookups'
    BY OneAdvances DEF Next, FiniteLookups
  <2>2. FiniteLookups /\ UNCHANGED vars => FiniteLookups'
    BY DEF vars, webVars, FiniteLookups
  <2> QED
    BY <2>1, <2>2
<1>3. IInv /\ FiniteLookups /\ [Next]_vars =>
          [\A c \in Clients : pc[c] \in ServerSteps =>
               \/ Remaining(c)' < Remaining(c)
               \/ UNCHANGED <<pc[c], page[c], platReq[c], menuReq[c]>>]_vars
  BY OneAdvances DEF Next
<1> QED
  BY <1>1, <1>2, <1>3, Invariance, PTL DEF Spec, RequestsAdvance

-----------------------------------------------------------------------------
(***************************************************************************)
(* What a save stores.                                                     *)
(***************************************************************************)
\* The difference with the dishes loaded, applied to the dishes stored: the
\* rows of menu_plat that FlushMenu leaves are those of the selection, if the
\* dishes loaded are the ones still stored.
LEMMA FlushStores ==
    ASSUME IInv, NEW c \in Clients, FlushMenu(c), NEW r, r = menuReq[c],
           r.snapPlats = Composition(r.id)
    PROVE  {p \in PlatIds : <<r.id, p>> \in menu_plat'} = r.selectedPlats
<1>1. r.selectedPlats \in SUBSET PlatIds
  BY DEF IInv, TypeOK, MenuReq
<1>2. menu_plat' = (menu_plat \ ({r.id} \X Removed(r))) \cup ({r.id} \X Added(r))
  BY DEF FlushMenu
<1>3. \A p \in PlatIds : p \in r.snapPlats <=> <<r.id, p>> \in menu_plat
  BY DEF Composition
<1>4. \A p \in PlatIds : <<r.id, p>> \in menu_plat' <=> p \in r.selectedPlats
  BY <1>2, <1>3 DEF Removed, Added
<1> QED
  BY <1>1, <1>4

\* The dishes that a save has found and the database accepts are those
\* submitted that still exist.
LEMMA SelectionFound ==
    ASSUME NEW r, SelectionOK(r), r.platIds = {}, r.selectedPlats \subseteq Plats
    PROVE  r.selectedPlats = r.submitted \cap Plats
BY DEF SelectionOK

\* A modification stores the dishes submitted that still exist: those it adds
\* are accepted because they do, the others belong to the menu already.
LEMMA FlushSelected ==
    ASSUME IInv, NEW c \in Clients, FlushMenu(c), NEW r, r = menuReq[c],
           r.snapPlats = Composition(r.id)
    PROVE  {p \in PlatIds : <<page'[c].id, p>> \in menu_plat'} = r.submitted \cap Plats
<1>1. page'[c].id = r.id
  BY DEF FlushMenu, RedirectMenus, Show, IInv, TypeOK, WebTypeOK
<1>2. SelectionOK(r) /\ r.platIds = {} /\ r.selectedPlats \in SUBSET PlatIds
  BY DEF FlushMenu, IInv, ClientOK, MenuReqOK, MenuReq
<1>3. \A p \in Added(r) : plat[p] # Absent
  BY DEF FlushMenu, InsertsDone, Insertable
<1>4. Composition(r.id) \subseteq Plats
  BY DEF Composition, Plats, IInv, DbOK, Integrity, SchemaTypeOK
<1>5. r.selectedPlats \subseteq Plats
  BY <1>2, <1>3, <1>4 DEF Added, Plats
<1> QED
  BY <1>1, <1>2, <1>5, FlushStores, SelectionFound

\* A creation stores the dishes submitted that still exist: the key of the
\* new menu has no row of menu_plat yet.
LEMMA PersistSelected ==
    ASSUME IInv, NEW c \in Clients, PersistMenu(c), NEW r, r = menuReq[c], pc'[c] = "listMenus"
    PROVE  {p \in PlatIds : <<page'[c].id, p>> \in menu_plat'} = r.submitted \cap Plats
<1>1. /\ autoMenu \in MenuIds /\ r.selectedPlats \subseteq Plats
      /\ menu_plat' = menu_plat \cup ({autoMenu} \X r.selectedPlats)
      /\ page'[c].id = autoMenu
  BY DEF PersistMenu, RedirectMenus, EndMenu, Answer, Goto, Show, IInv, TypeOK, WebTypeOK
<1>2. SelectionOK(r) /\ r.platIds = {} /\ r.selectedPlats \in SUBSET PlatIds
  BY DEF PersistMenu, IInv, ClientOK, MenuReqOK, MenuReq
<1>3. menu[autoMenu] = Absent
  BY <1>1, KeysAreNat DEF IInv, DbOK, KeysBelowCounter, Menus, SchemaTypeOK
<1>4. \A p \in PlatIds : <<autoMenu, p>> \notin menu_plat
  BY <1>1, <1>3 DEF IInv, DbOK, Integrity
<1>5. \A p \in PlatIds : <<autoMenu, p>> \in menu_plat' <=> p \in r.selectedPlats
  BY <1>1, <1>4
<1>6. {p \in PlatIds : <<autoMenu, p>> \in menu_plat'} = r.selectedPlats
  BY <1>2, <1>5
<1> QED
  BY <1>1, <1>2, <1>6, SelectionFound

\* A save stores every dish submitted to it that still exists and no other,
\* whatever the other browsers do meanwhile, unless an overlapping save of the
\* same menu changed its dishes between merge and flush.
THEOREM SelectionStored == Spec => SavedAsSelected
<1> DEFINE Stored(c) ==
        LET r == menuReq[c] IN
        /\ pc[c] \in {"saveMenu", "flushMenu"}
        /\ pc'[c] = "listMenus"
        /\ r.id # 0 => r.snapPlats = Composition(r.id)
        => {p \in PlatIds : <<page'[c].id, p>> \in menu_plat'} = r.submitted \cap Plats
<1>1. ASSUME IInv, [Next]_vars PROVE [\A c \in Clients : Stored(c)]_vars
  <2> SUFFICES ASSUME Next, NEW c \in Clients,
                      pc[c] \in {"saveMenu", "flushMenu"}, pc'[c] = "listMenus",
                      menuReq[c].id # 0 => menuReq[c].snapPlats = Composition(menuReq[c].id)
               PROVE  {p \in PlatIds : <<page'[c].id, p>> \in menu_plat'}
                        = menuReq[c].submitted \cap Plats
    BY <1>1
  <2>1. PICK d \in Clients : UserStep(d) \/ ServerStep(d)
    BY DEF Next
  <2>2. d = c
    BY <1>1, <2>1, Untouched
  <2>3. PersistMenu(c) \/ FlushMenu(c)
    <3>0. pc \in [Clients -> {"page"} \cup FormSteps \cup ServerSteps]
      BY <1>1 DEF IInv, TypeOK, WebTypeOK
    <3>1. ~PlatUser(c) /\ ~MenuUser(c)
      BY DEF PlatUser, MenuUser, EditPlat, ShowPlatDetail, LeavePlatForm, SubmitPlat, AskDeletePlat,
          EditMenu, ShowMenuDetail, LeaveMenuForm, SubmitMenu, AskDeleteMenu
    <3>2. ~PlatServer(c)
      BY DEF PlatServer, PersistPlat, PersistPlatExhausted, MergePlat, FlushPlat, DeletePlat,
          RemovePlat, ListePlats, FailPlat, PlatSteps
    <3>3. /\ ~OfferPlats(c) /\ ~RenderMenuForm(c) /\ ~DeleteMenu(c) /\ ~RemoveMenu(c)
          /\ ~ListMenus(c)
      BY DEF OfferPlats, RenderMenuForm, DeleteMenu, RemoveMenu, ListMenus
    <3>4. ASSUME NEW v, NEW i, EndMenu(c, v, i) PROVE FALSE
      BY <3>0, <3>4 DEF EndMenu, Answer, Goto
    <3>5. /\ ~PersistMenuRefused(c) /\ ~FlushMenuStale(c) /\ ~FlushMenuTooLong(c)
          /\ ~FlushMenuRefused(c) /\ ~FailMenu(c)
      BY <3>4 DEF PersistMenuRefused, FlushMenuStale, FlushMenuTooLong, FlushMenuRefused, FailMenu
    <3>6. ~MergeMenu(c)
      BY <3>0, <3>4 DEF MergeMenu, Goto
    <3>7. ASSUME NEW p \in PlatIds PROVE ~FindPlat(c, p)
      BY <3>0 DEF FindPlat, webVars
    <3> QED
      BY <2>1, <2>2, <3>1, <3>2, <3>3, <3>5, <3>6, <3>7 DEF UserStep, ServerStep, MenuServer
  <2>4. CASE PersistMenu(c)
    BY <1>1, <2>4, PersistSelected
  <2>5. CASE FlushMenu(c)
    <3>1. menuReq[c].id # 0
      BY <1>1, <2>5 DEF FlushMenu, IInv, ClientOK, MenuReqOK
    <3> QED
      BY <1>1, <2>5, <3>1, FlushSelected
  <2> QED
    BY <2>3, <2>4, <2>5
<1> QED
  BY <1>1, Invariance, PTL DEF Spec, SavedAsSelected

-----------------------------------------------------------------------------
(***************************************************************************)
(* A single browser.  The look-ups find every dish because nobody else     *)
(* deletes one, and the difference that a flush writes is with the dishes  *)
(* the menu still has.                                                     *)
(***************************************************************************)
\* One browser at most.
Alone == \A a, b \in Clients : a = b

\* What a form offers exists, what a save has found and what it still looks
\* for make up a selection, and what merge loaded is still stored.
SoloReq(c) ==
    LET r == menuReq[c] IN
    /\ pc[c] \notin {"saveMenu", "flushMenu"} => r.selectedPlats = {}
    /\ pc[c] \in {"menuView", "menuForm", "saveMenu"} => r.platIds \subseteq Plats
    /\ pc[c] = "saveMenu" => r.platIds \cup r.selectedPlats \in Selections
    /\ pc[c] = "flushMenu" => r.selectedPlats \in Selections /\ r.snapPlats = Composition(r.id)

SoloInv == ComposedAsSelected /\ \A c \in Clients : SoloReq(c)

-----------------------------------------------------------------------------
LEMMA InitSolo == Init => SoloInv
<1> SUFFICES ASSUME Init PROVE SoloInv
  OBVIOUS
<1>1. ComposedAsSelected
  BY DEF Init, SchemaInit, ComposedAsSelected, Composition, InitComposition, Menus
<1>2. ASSUME NEW c \in Clients PROVE SoloReq(c)
  <2>1. pc[c] = "page" /\ menuReq[c] = NoMenuReq
    BY DEF Init, WebInit, MenuInit
  <2> QED
    BY <2>1 DEF SoloReq, NoMenuReq
<1> QED
  BY <1>1, <1>2 DEF SoloInv

\* Menus that keep their dishes are still made of a selection.
LEMMA SameComposed ==
    ASSUME ComposedAsSelected, UNCHANGED <<menu, menu_plat>>
    PROVE  ComposedAsSelected'
BY DEF ComposedAsSelected, Composition, Menus

\* A request that ends or redirects leaves nothing to say about its dishes.
LEMMA EndedSolo ==
    ASSUME IInv, NEW c \in Clients, menuReq' = [menuReq EXCEPT ![c] = NoMenuReq],
           NEW step \in {"page", "listMenus"}, Goto(c, step)
    PROVE  SoloReq(c)'
<1>1. pc'[c] = step /\ menuReq'[c] = NoMenuReq
  BY DEF IInv, TypeOK, WebTypeOK, Goto
<1> QED
  BY <1>1 DEF SoloReq, NoMenuReq

\* A step on dishes: whatever it does to them, no form of a menu is open.
LEMMA PlatSolo ==
    ASSUME IInv, SoloInv, NEW c \in Clients, PlatUser(c) \/ PlatServer(c), UNCHANGED menuReq
    PROVE  ComposedAsSelected' /\ SoloReq(c)'
<1>0. pc \in [Clients -> {"page"} \cup FormSteps \cup ServerSteps]
  BY DEF IInv, TypeOK, WebTypeOK
<1>1. /\ UNCHANGED <<menu, menu_plat>>
      /\ pc[c] \notin {"saveMenu", "flushMenu"}
      /\ pc'[c] \in {"page", "platForm", "savePlat", "flushPlat", "deletePlat", "removePlat", "listePlats"}
  <2>1. CASE PlatUser(c)
    BY <1>0, <2>1 DEF PlatUser, EditPlat, ShowPlatDetail, LeavePlatForm, SubmitPlat, AskDeletePlat,
        EndPlat, Answer, Goto, dbVars
  <2>2. CASE PersistPlat(c) \/ PersistPlatExhausted(c) \/ MergePlat(c)
    BY <1>0, <2>2 DEF PersistPlat, PersistPlatExhausted, MergePlat,
        EndPlat, RedirectPlats, Answer, Goto, dbVars
  <2>3. CASE FlushPlat(c)
    BY <1>0, <2>3 DEF FlushPlat, EndPlat, RedirectPlats, Answer, Goto
  <2>4. CASE DeletePlat(c) \/ RemovePlat(c)
    BY <1>0, <2>4 DEF DeletePlat, RemovePlat, EndPlat, RedirectPlats, Answer, Goto, dbVars
  <2>5. CASE ListePlats(c) \/ FailPlat(c)
    BY <1>0, <2>5 DEF ListePlats, FailPlat, PlatSteps, EndPlat, Answer, Goto, dbVars
  <2> QED
    BY <2>1, <2>2, <2>3, <2>4, <2>5 DEF PlatServer
<1>2. menuReq'[c].selectedPlats = {}
  BY <1>1 DEF SoloInv, SoloReq
<1>3. SoloReq(c)'
  BY <1>1, <1>2 DEF SoloReq
<1> QED
  BY <1>1, <1>3, SameComposed DEF SoloInv

-----------------------------------------------------------------------------
\* A step of the user on menus: the selection submitted is one offered.
LEMMA MenuUserSolo ==
    ASSUME IInv, SoloInv, NEW c \in Clients, MenuUser(c)
    PROVE  ComposedAsSelected' /\ SoloReq(c)'
<1> DEFINE r == menuReq[c]
<1>0. /\ pc \in [Clients -> {"page"} \cup FormSteps \cup ServerSteps]
      /\ menuReq \in [Clients -> MenuReq]
      /\ SoloReq(c)
  BY DEF IInv, TypeOK, WebTypeOK, SoloInv
<1>1. r \in MenuReq
  BY <1>0
<1>2. UNCHANGED dbVars
  BY DEF MenuUser, EditMenu, ShowMenuDetail, LeaveMenuForm, SubmitMenu, AskDeleteMenu
<1>3. ComposedAsSelected'
  BY <1>2, SameComposed DEF SoloInv, dbVars
<1>4. UNCHANGED Plats
  BY <1>2 DEF dbVars, Plats
<1>5. ASSUME NEW v, NEW i, EndMenu(c, v, i) PROVE SoloReq(c)'
  BY <1>5, EndedSolo DEF EndMenu, Answer
<1>6. ASSUME NEW i, EditMenu(c, i) PROVE SoloReq(c)'
  <2>1. CASE EndMenu(c, "liste", 0)
    BY <2>1, <1>5
  <2>2. CASE Goto(c, "editMenu") /\ menuReq' = [menuReq EXCEPT ![c].id = i]
    <3>1. pc'[c] = "editMenu" /\ pc[c] = "page"
      BY <1>0, <1>6, <2>2 DEF Goto, EditMenu
    <3>2. menuReq'[c].selectedPlats = r.selectedPlats
      BY <1>0, <1>1, <2>2 DEF MenuReq
    <3> QED
      BY <1>0, <3>1, <3>2 DEF SoloReq
  <2> QED
    BY <1>6, <2>1, <2>2 DEF EditMenu
<1>7. ASSUME NEW row \in MenuForms, NEW sel \in Selections, SubmitMenu(c, row, sel)
      PROVE  SoloReq(c)'
  <2>1. pc'[c] = "saveMenu" /\ pc[c] = "menuForm" /\ sel \subseteq r.platIds
    BY <1>0, <1>7 DEF Goto, SubmitMenu
  <2>2. menuReq'[c].selectedPlats = {} /\ menuReq'[c].platIds = sel
    BY <1>0, <1>1, <1>7 DEF MenuReq, SubmitMenu
  <2>3. sel \subseteq Plats
    BY <1>0, <2>1 DEF SoloReq
  <2>4. sel \cup {} = sel
    OBVIOUS
  <2> QED
    BY <1>4, <2>1, <2>2, <2>3, <2>4 DEF SoloReq
<1>8. ASSUME AskDeleteMenu(c) PROVE SoloReq(c)'
  <2>1. pc'[c] = "deleteMenu" /\ pc[c] \in {"page", "menuForm"}
    BY <1>0, <1>8 DEF Goto, AskDeleteMenu
  <2>2. menuReq'[c].selectedPlats = r.selectedPlats
    BY <1>0, <1>1, <1>8 DEF MenuReq, AskDeleteMenu
  <2> QED
    BY <1>0, <2>1, <2>2 DEF SoloReq
<1> QED
  BY <1>3, <1>5, <1>6, <1>7, <1>8 DEF MenuUser, ShowMenuDetail, LeaveMenuForm

-----------------------------------------------------------------------------
\* The steps that prepare a form or a save: they write nothing.
LEMMA PrepareSolo ==
    ASSUME IInv, SoloInv, NEW c \in Clients,
           OfferPlats(c) \/ RenderMenuForm(c) \/ (\E p \in PlatIds : FindPlat(c, p)) \/ MergeMenu(c)
    PROVE  ComposedAsSelected' /\ SoloReq(c)'
<1> DEFINE r == menuReq[c]
<1>0. /\ pc \in [Clients -> {"page"} \cup FormSteps \cup ServerSteps]
      /\ menuReq \in [Clients -> MenuReq]
      /\ SoloReq(c)
  BY DEF IInv, TypeOK, WebTypeOK, SoloInv
<1>1. r \in MenuReq
  BY <1>0
<1>2. UNCHANGED dbVars
  BY DEF OfferPlats, RenderMenuForm, FindPlat, MergeMenu
<1>3. ComposedAsSelected'
  BY <1>2, SameComposed DEF SoloInv, dbVars
<1>4. UNCHANGED Plats /\ \A m : Composition(m)' = Composition(m)
  BY <1>2 DEF dbVars, Plats, Composition
<1>5. ASSUME OfferPlats(c) PROVE SoloReq(c)'
  <2>1. pc'[c] = "menuView" /\ pc[c] = "editMenu"
    BY <1>0, <1>5 DEF Goto, OfferPlats
  <2>2. menuReq'[c].selectedPlats = r.selectedPlats /\ menuReq'[c].platIds = Plats
    BY <1>0, <1>1, <1>5 DEF MenuReq, OfferPlats
  <2> QED
    BY <1>0, <1>4, <2>1, <2>2 DEF SoloReq
<1>6. ASSUME RenderMenuForm(c) PROVE SoloReq(c)'
  <2>1. pc'[c] = "menuForm" /\ pc[c] = "menuView"
    BY <1>0, <1>6 DEF Goto, RenderMenuForm
  <2>2. /\ menuReq'[c].selectedPlats = r.selectedPlats
        /\ menuReq'[c].platIds = r.platIds \cup Composition(r.id)
    BY <1>0, <1>1, <1>6 DEF MenuReq, RenderMenuForm
  <2>3. Composition(r.id) \subseteq Plats
    BY DEF IInv, DbOK, Integrity, SchemaTypeOK, Composition, Plats
  <2> QED
    BY <1>0, <1>4, <2>1, <2>2, <2>3 DEF SoloReq
<1>7. ASSUME NEW p \in PlatIds, FindPlat(c, p) PROVE SoloReq(c)'
  <2>1. pc'[c] = "saveMenu" /\ pc[c] = "saveMenu" /\ p \in r.platIds
    BY <1>0, <1>7 DEF FindPlat, webVars
  <2>2. /\ menuReq'[c].selectedPlats = r.selectedPlats \cup ({p} \cap Plats)
        /\ menuReq'[c].platIds = r.platIds \ {p}
    BY <1>0, <1>1, <1>7 DEF MenuReq, FindPlat
  <2>3. r.platIds \subseteq Plats /\ r.platIds \cup r.selectedPlats \in Selections
    BY <1>0, <2>1 DEF SoloReq
  <2>4. menuReq'[c].platIds \cup menuReq'[c].selectedPlats = r.platIds \cup r.selectedPlats
    BY <2>1, <2>2, <2>3
  <2> QED
    BY <1>4, <2>1, <2>2, <2>3, <2>4 DEF SoloReq
<1>8. ASSUME MergeMenu(c) PROVE SoloReq(c)'
  <2>1. CASE EndMenu(c, "stale", 0)
    BY <2>1, EndedSolo DEF EndMenu, Answer
  <2>2. CASE /\ Goto(c, "flushMenu")
             /\ menuReq' = [menuReq EXCEPT ![c].snap = menu[r.id], ![c].snapPlats = Composition(r.id)]
    <3>1. pc'[c] = "flushMenu" /\ pc[c] = "saveMenu" /\ r.platIds = {}
      BY <1>0, <1>8, <2>2 DEF Goto, MergeMenu
    <3>2. /\ menuReq'[c].selectedPlats = r.selectedPlats
          /\ menuReq'[c].snapPlats = Composition(r.id)
          /\ menuReq'[c].id = r.id
      BY <1>0, <1>1, <2>2 DEF MenuReq
    <3>3. r.platIds \cup r.selectedPlats = r.selectedPlats
      BY <3>1
    <3>4. r.selectedPlats \in Selections
      BY <1>0, <3>1, <3>3 DEF SoloReq
    <3> QED
      BY <1>4, <3>1, <3>2, <3>4 DEF SoloReq
  <2> QED
    BY <1>8, <2>1, <2>2 DEF MergeMenu
<1> QED
  BY <1>3, <1>5, <1>6, <1>7, <1>8

-----------------------------------------------------------------------------
\* A creation stores the selection: no pair bears a key not yet handed out.
LEMMA PersistSolo ==
    ASSUME IInv, SoloInv, NEW c \in Clients, PersistMenu(c)
    PROVE  ComposedAsSelected'
<1> DEFINE r == menuReq[c]
<1>1. CASE UNCHANGED <<menu, menu_plat>>
  BY <1>1, SameComposed DEF SoloInv
<1>2. CASE /\ menu' = [menu EXCEPT ![autoMenu] = r.row]
           /\ menu_plat' = menu_plat \cup ({autoMenu} \X r.selectedPlats)
  <2>1. /\ r.platIds = {} /\ pc[c] = "saveMenu" /\ autoMenu \in MenuIds
        /\ r.selectedPlats \in SUBSET PlatIds
    BY DEF PersistMenu, IInv, TypeOK, MenuReq
  <2>2. r.platIds \cup r.selectedPlats = r.selectedPlats
    BY <2>1
  <2>3. r.selectedPlats \in Selections
    BY <2>1, <2>2 DEF SoloInv, SoloReq
  <2>4. menu[autoMenu] = Absent
    BY <2>1, KeysAreNat DEF IInv, DbOK, KeysBelowCounter, Menus, SchemaTypeOK
  <2>5. \A p \in PlatIds : <<autoMenu, p>> \notin menu_plat
    BY <2>1, <2>4 DEF IInv, DbOK, Integrity
  <2>6. ASSUME NEW m, m = autoMenu PROVE Composition(m)' = r.selectedPlats
    <3>1. \A p \in PlatIds : <<m, p>> \in menu_plat' <=> p \in r.selectedPlats
      BY <1>2, <2>5, <2>6
    <3> QED
      BY <2>1, <3>1 DEF Composition
  <2>7. ASSUME NEW m \in Menus', m # autoMenu PROVE m \in Menus /\ Composition(m)' = Composition(m)
    BY <1>2, <2>7, <2>1 DEF Composition, Menus, IInv, TypeOK, SchemaTypeOK
  <2> QED
    BY <2>3, <2>6, <2>7 DEF ComposedAsSelected, SoloInv
<1> QED
  BY <1>1, <1>2 DEF PersistMenu

\* A modification stores the selection: the difference with the dishes that
\* merge loaded is the difference with those still stored.
LEMMA FlushSolo ==
    ASSUME IInv, SoloInv, NEW c \in Clients, FlushMenu(c)
    PROVE  ComposedAsSelected'
<1> DEFINE r == menuReq[c]
<1>1. /\ r.selectedPlats \in Selections
      /\ r.snapPlats = Composition(r.id)
  BY DEF FlushMenu, SoloInv, SoloReq
<1>3. /\ menu' = IF Dirty(r) THEN [menu EXCEPT ![r.id] = r.row] ELSE menu
      /\ menu_plat' = (menu_plat \ ({r.id} \X Removed(r))) \cup ({r.id} \X Added(r))
      /\ UpdateDone(r)
  BY DEF FlushMenu
<1>4. Menus' \subseteq Menus
  BY <1>3 DEF Menus, UpdateDone, IInv, TypeOK, SchemaTypeOK
<1>5. ASSUME NEW m, m = r.id PROVE Composition(m)' = r.selectedPlats
  BY <1>1, <1>5, FlushStores DEF Composition
<1>6. ASSUME NEW m, m # r.id PROVE Composition(m)' = Composition(m)
  BY <1>3, <1>6 DEF Composition
<1> QED
  BY <1>1, <1>4, <1>5, <1>6 DEF ComposedAsSelected, SoloInv

\* A deletion leaves the other menus as they are.
LEMMA RemoveSolo ==
    ASSUME IInv, SoloInv, NEW c \in Clients, RemoveMenu(c)
    PROVE  ComposedAsSelected'
<1> DEFINE i == menuReq[c].id
<1>1. CASE UNCHANGED <<menu, menu_plat>>
  BY <1>1, SameComposed DEF SoloInv
<1>2. CASE menu_plat' = menu_plat \ ({i} \X PlatIds) /\ menu' = [menu EXCEPT ![i] = Absent]
  <2>1. ASSUME NEW m \in Menus' PROVE m \in Menus /\ Composition(m)' = Composition(m)
    BY <1>2, <2>1 DEF Composition, Menus, IInv, TypeOK, SchemaTypeOK
  <2> QED
    BY <2>1 DEF ComposedAsSelected, SoloInv
<1> QED
  BY <1>1, <1>2 DEF RemoveMenu

-----------------------------------------------------------------------------
LEMMA MenuServerSolo ==
    ASSUME IInv, SoloInv, NEW c \in Clients, MenuServer(c)
    PROVE  ComposedAsSelected' /\ SoloReq(c)'
<1>1. ASSUME NEW v, NEW i, EndMenu(c, v, i) \/ RedirectMenus(c, v, i) PROVE SoloReq(c)'
  BY <1>1, EndedSolo DEF EndMenu, RedirectMenus, Answer
<1>2. ASSUME UNCHANGED dbVars PROVE ComposedAsSelected'
  BY <1>2, SameComposed DEF SoloInv, dbVars
<1>3. CASE OfferPlats(c) \/ RenderMenuForm(c) \/ (\E p \in PlatIds : FindPlat(c, p)) \/ MergeMenu(c)
  BY <1>3, PrepareSolo
<1>4. CASE PersistMenu(c)
  BY <1>1, <1>4, PersistSolo DEF PersistMenu
<1>5. CASE FlushMenu(c)
  BY <1>1, <1>5, FlushSolo DEF FlushMenu
<1>6. CASE RemoveMenu(c)
  BY <1>1, <1>6, RemoveSolo DEF RemoveMenu
<1>7. CASE PersistMenuRefused(c) \/ FlushMenuStale(c) \/ FlushMenuTooLong(c) \/ FlushMenuRefused(c)
  BY <1>1, <1>2, <1>7 DEF PersistMenuRefused, FlushMenuStale, FlushMenuTooLong, FlushMenuRefused
<1>8. CASE ListMenus(c) \/ FailMenu(c)
  BY <1>1, <1>8, SameComposed DEF ListMenus, FailMenu, SoloInv, dbVars
<1>9. CASE DeleteMenu(c)
  <2>1. ComposedAsSelected'
    BY <1>2, <1>9 DEF DeleteMenu
  <2>2. CASE Goto(c, "removeMenu") /\ UNCHANGED menuReq
    <3>1. pc'[c] = "removeMenu" /\ pc[c] = "deleteMenu"
      BY <1>9, <2>2 DEF Goto, DeleteMenu, IInv, TypeOK, WebTypeOK
    <3>2. SoloReq(c)
      BY DEF SoloInv
    <3> QED
      BY <2>1, <2>2, <3>1, <3>2 DEF SoloReq
  <2> QED
    BY <1>1, <1>9, <2>1, <2>2 DEF DeleteMenu
<1> QED
  BY <1>3, <1>4, <1>5, <1>6, <1>7, <1>8, <1>9 DEF MenuServer

\* With one browser, every menu has exactly the dishes of one selection
\* submitted to saveMenu, or those the database started with.
THEOREM SoloComposition == Alone => (Spec => []ComposedAsSelected)
<1> SUFFICES ASSUME Alone PROVE Spec => []ComposedAsSelected
  OBVIOUS
<1>1. IInv /\ SoloInv /\ [Next]_vars => SoloInv'
  <2> SUFFICES ASSUME IInv, SoloInv, [Next]_vars PROVE SoloInv'
    OBVIOUS
  <2>1. CASE Next
    <3>1. PICK c \in Clients : UserStep(c) \/ ServerStep(c)
      BY <2>1 DEF Next
    <3>2. ComposedAsSelected' /\ SoloReq(c)'
      BY <3>1, PlatSolo, MenuUserSolo, MenuServerSolo DEF UserStep, ServerStep
    <3>3. \A d \in Clients : d = c
      BY DEF Alone
    <3> QED
      BY <3>2, <3>3 DEF SoloInv
  <2>2. CASE UNCHANGED vars
    BY <2>2, SameComposed
    DEF vars, dbVars, webVars, SoloInv, SoloReq, Plats, Composition
  <2> QED
    BY <2>1, <2>2
<1>2. SoloInv => ComposedAsSelected
  BY DEF SoloInv
<1> QED
  BY <1>1, <1>2, InitSolo, Invariance, PTL DEF Spec
=============================================================================
