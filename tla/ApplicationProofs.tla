-------------------------- MODULE ApplicationProofs --------------------------
(***************************************************************************)
(* Proof that IInv is an invariant of Application for every set of         *)
(* browsers, of keys, of forms and every initial content of the database.  *)
(*                                                                         *)
(* A step is a step of one browser c.  It is shown to change only what     *)
(* belongs to c (Acts), to leave the tables well-formed (DbOK'), to move   *)
(* them forward (Evolves: keys stay handed out, deleted rows stay deleted) *)
(* and to leave the request of c in order (ClientOK(c)').  OneClientStep   *)
(* draws IInv' from these four facts once and for all.                     *)
(***************************************************************************)
EXTENDS Application, TLAPS

\* The step changes the request and the page of no browser but c.
Acts(c) ==
    /\ pc' = [pc EXCEPT ![c] = pc'[c]]
    /\ page' = [page EXCEPT ![c] = page'[c]]
    /\ platReq' = [platReq EXCEPT ![c] = platReq'[c]]
    /\ menuReq' = [menuReq EXCEPT ![c] = menuReq'[c]]

\* Keys once handed out stay so, and a row once deleted stays deleted.
Evolves ==
    /\ KnownPlats \subseteq KnownPlats'
    /\ KnownMenus \subseteq KnownMenus'
    /\ \A p \in KnownPlats : p \notin Plats => p \notin Plats'
    /\ \A m \in KnownMenus : m \notin Menus => m \notin Menus'

-----------------------------------------------------------------------------
\* Keys are positive integers, as AUTO_INCREMENT hands them out.
LEMMA KeysAreNat ==
    /\ \A p \in PlatIds : p \in Nat /\ p # 0
    /\ \A m \in MenuIds : m \in Nat /\ m # 0
BY KeysAssumption

\* The dump the server starts with, and browsers showing the home page,
\* satisfy the invariant.
LEMMA InitIInv == Init => IInv
<1> SUFFICES ASSUME Init PROVE IInv
  OBVIOUS
<1> USE DEF Init, SchemaInit, WebInit, PlatInit, MenuInit
<1>1. DbOK
  BY KeysAssumption, InitAssumption
  DEF DbOK, SchemaTypeOK, Integrity, KeysBelowCounter, NoTornPlat, Plats, Menus
<1>2. \A c \in Clients : platReq[c] \in PlatReq /\ menuReq[c] \in MenuReq
  BY DEF PlatReq, NoPlatReq, MenuReq, NoMenuReq
<1>3. \A c \in Clients : page[c] \in PageRecord
  BY DEF PageRecord, Home, Views, Tables
<1>4. \A c \in Clients : ClientOK(c)
  BY <1>2, <1>3
  DEF ClientOK, PlatReqOK, MenuReqOK, PageOK, NoPlatReq, NoMenuReq, Home
<1>5. TypeOK
  BY <1>1, <1>2, <1>3 DEF DbOK, TypeOK, WebTypeOK
<1> QED
  BY <1>1, <1>4, <1>5 DEF IInv

\* The request of a browser that takes no step stays in order while the
\* requests of others move the tables forward.
LEMMA OtherClient ==
    ASSUME NEW d \in Clients, ClientOK(d), Evolves,
           pc'[d] = pc[d], page'[d] = page[d],
           platReq'[d] = platReq[d], menuReq'[d] = menuReq[d]
    PROVE  ClientOK(d)'
<1>1. PlatReqOK(d)'
  BY DEF ClientOK, PlatReqOK, Evolves
<1>2. MenuReqOK(d)'
  <2>1. /\ menuReq[d].platIds \cup menuReq[d].submitted \subseteq KnownPlats
        /\ pc[d] \in {"saveMenu", "flushMenu"} => SelectionOK(menuReq[d])
    BY DEF ClientOK, MenuReqOK
  <2>2. SelectionOK(menuReq[d]) => SelectionOK(menuReq[d])'
    BY <2>1 DEF SelectionOK, Evolves, Plats
  <2> QED
    BY <2>1, <2>2 DEF ClientOK, MenuReqOK, Evolves
<1>3. PageOK(d)'
  <2>1. CASE page[d].table = "plat"
    BY <2>1 DEF ClientOK, PageOK, Evolves
  <2>2. CASE page[d].table # "plat"
    BY <2>2 DEF ClientOK, PageOK, Evolves
  <2> QED
    BY <2>1, <2>2
<1> QED
  BY <1>1, <1>2, <1>3 DEF ClientOK

\* What is left to show of each action to conclude that it preserves IInv.
LEMMA OneClientStep ==
    ASSUME IInv, NEW c \in Clients, Acts(c), DbOK', Evolves, ClientOK(c)'
    PROVE  IInv'
<1>1. ASSUME NEW d \in Clients PROVE ClientOK(d)'
  <2>1. CASE d = c
    BY <2>1
  <2>2. CASE d # c
    <3>1. /\ pc'[d] = pc[d] /\ page'[d] = page[d]
          /\ platReq'[d] = platReq[d] /\ menuReq'[d] = menuReq[d]
      BY <2>2 DEF Acts, IInv, TypeOK, WebTypeOK
    <3> QED
      BY <3>1, OtherClient DEF IInv
  <2> QED
    BY <2>1, <2>2
<1>2. WebTypeOK'
  <2>1. pc' \in [Clients -> {"page"} \cup FormSteps \cup ServerSteps]
    BY DEF Acts, IInv, TypeOK, WebTypeOK, ClientOK, PageOK
  <2>2. page' \in [Clients -> PageRecord]
    BY DEF Acts, IInv, TypeOK, WebTypeOK, ClientOK, PageOK
  <2> QED
    BY <2>1, <2>2 DEF WebTypeOK
<1>3. platReq' \in [Clients -> PlatReq]
  BY DEF Acts, IInv, TypeOK, ClientOK, PlatReqOK
<1>4. menuReq' \in [Clients -> MenuReq]
  BY DEF Acts, IInv, TypeOK, ClientOK, MenuReqOK
<1>5. TypeOK'
  BY <1>2, <1>3, <1>4 DEF TypeOK, DbOK
<1> QED
  BY <1>1, <1>5 DEF IInv

\* A step that does not touch the tables keeps them well-formed.
LEMMA SameTables ==
    ASSUME IInv, UNCHANGED dbVars
    PROVE  /\ DbOK'
           /\ Evolves
           /\ Plats' = Plats /\ Menus' = Menus
           /\ KnownPlats' = KnownPlats /\ KnownMenus' = KnownMenus
<1>1. /\ Plats' = Plats /\ Menus' = Menus
      /\ KnownPlats' = KnownPlats /\ KnownMenus' = KnownMenus
  BY DEF dbVars, Plats, Menus, KnownPlats, KnownMenus
<1>2. DbOK'
  BY <1>1 DEF dbVars, IInv, DbOK, SchemaTypeOK, Integrity, KeysBelowCounter, NoTornPlat
<1> QED
  BY <1>1, <1>2 DEF Evolves

-----------------------------------------------------------------------------
(***************************************************************************)
(* How the requests on a dish end: with an answer, or with a redirection.   *)
(***************************************************************************)
\* An answer that is a page about an existing key, or a deletion alert about
\* a key that is gone, leaves the browser in order.
LEMMA EndPlatOK ==
    ASSUME IInv, Evolves, NEW c \in Clients, NEW v \in Views, NEW i \in Nat,
           v \in {"detail", "del"} => i \in KnownPlats',
           v = "del" => i \notin Plats',
           EndPlat(c, v, i), UNCHANGED menuReq
    PROVE  Acts(c) /\ ClientOK(c)'
<1>1. Acts(c)
  BY DEF EndPlat, Answer, Goto, Show, Acts, IInv, TypeOK, WebTypeOK
<1>2. /\ pc'[c] = "page" /\ page'[c] = [view |-> v, table |-> "plat", id |-> i]
      /\ platReq'[c] = NoPlatReq /\ menuReq'[c] = menuReq[c]
  BY DEF EndPlat, Answer, Goto, Show, IInv, TypeOK, WebTypeOK
<1>3. PlatReqOK(c)'
  BY <1>2 DEF PlatReqOK, NoPlatReq, PlatReq
<1>4. MenuReqOK(c)'
  BY <1>2 DEF IInv, ClientOK, MenuReqOK, Evolves
<1>5. PageOK(c)'
  BY <1>2 DEF PageOK, PageRecord, Tables
<1> QED
  BY <1>1, <1>3, <1>4, <1>5 DEF ClientOK

\* So does a redirection with an alert, under the same condition.
LEMMA RedirectPlatsOK ==
    ASSUME IInv, Evolves, NEW c \in Clients, NEW v \in Alerts, NEW i \in Nat,
           v = "del" => i \in KnownPlats' /\ i \notin Plats',
           RedirectPlats(c, v, i), UNCHANGED menuReq
    PROVE  Acts(c) /\ ClientOK(c)'
<1>1. Acts(c)
  BY DEF RedirectPlats, Goto, Show, Acts, IInv, TypeOK, WebTypeOK
<1>2. /\ pc'[c] = "listePlats" /\ page'[c] = [view |-> v, table |-> "plat", id |-> i]
      /\ platReq'[c] = NoPlatReq /\ menuReq'[c] = menuReq[c]
  BY DEF RedirectPlats, Goto, Show, IInv, TypeOK, WebTypeOK
<1>3. PlatReqOK(c)'
  BY <1>2 DEF PlatReqOK, NoPlatReq, PlatReq
<1>4. MenuReqOK(c)'
  BY <1>2 DEF IInv, ClientOK, MenuReqOK, Evolves
<1>5. PageOK(c)'
  BY <1>2 DEF PageOK, PageRecord, Tables, Views, Alerts, ServerSteps, PlatSteps
<1> QED
  BY <1>1, <1>3, <1>4, <1>5 DEF ClientOK

-----------------------------------------------------------------------------
(***************************************************************************)
(* How the requests on a menu end: with an answer, or with a redirection.   *)
(***************************************************************************)
\* An answer that is a page about an existing key, or a deletion alert about
\* a key that is gone, leaves the browser in order.
LEMMA EndMenuOK ==
    ASSUME IInv, Evolves, NEW c \in Clients, NEW v \in Views, NEW i \in Nat,
           v \in {"detail", "del"} => i \in KnownMenus',
           v = "del" => i \notin Menus',
           EndMenu(c, v, i), UNCHANGED platReq
    PROVE  Acts(c) /\ ClientOK(c)'
<1>1. Acts(c)
  BY DEF EndMenu, Answer, Goto, Show, Acts, IInv, TypeOK, WebTypeOK
<1>2. /\ pc'[c] = "page" /\ page'[c] = [view |-> v, table |-> "menu", id |-> i]
      /\ menuReq'[c] = NoMenuReq /\ platReq'[c] = platReq[c]
  BY DEF EndMenu, Answer, Goto, Show, IInv, TypeOK, WebTypeOK
<1>3. MenuReqOK(c)'
  BY <1>2 DEF MenuReqOK, NoMenuReq, MenuReq
<1>4. PlatReqOK(c)'
  BY <1>2 DEF IInv, ClientOK, PlatReqOK, Evolves
<1>5. PageOK(c)'
  BY <1>2 DEF PageOK, PageRecord, Tables
<1> QED
  BY <1>1, <1>3, <1>4, <1>5 DEF ClientOK

\* So does a redirection with an alert, under the same condition.
LEMMA RedirectMenusOK ==
    ASSUME IInv, Evolves, NEW c \in Clients, NEW v \in Alerts, NEW i \in Nat,
           v = "del" => i \in KnownMenus' /\ i \notin Menus',
           RedirectMenus(c, v, i), UNCHANGED platReq
    PROVE  Acts(c) /\ ClientOK(c)'
<1>1. Acts(c)
  BY DEF RedirectMenus, Goto, Show, Acts, IInv, TypeOK, WebTypeOK
<1>2. /\ pc'[c] = "listMenus" /\ page'[c] = [view |-> v, table |-> "menu", id |-> i]
      /\ menuReq'[c] = NoMenuReq /\ platReq'[c] = platReq[c]
  BY DEF RedirectMenus, Goto, Show, IInv, TypeOK, WebTypeOK
<1>3. MenuReqOK(c)'
  BY <1>2 DEF MenuReqOK, NoMenuReq, MenuReq
<1>4. PlatReqOK(c)'
  BY <1>2 DEF IInv, ClientOK, PlatReqOK, Evolves
<1>5. PageOK(c)'
  BY <1>2 DEF PageOK, PageRecord, Tables, Views, Alerts, ServerSteps, MenuSteps
<1> QED
  BY <1>1, <1>3, <1>4, <1>5 DEF ClientOK

-----------------------------------------------------------------------------
(***************************************************************************)
(* The actions of PlatController.                                          *)
(***************************************************************************)
\* Nothing a user does on the pages about dishes breaks the invariant.
LEMMA PlatUserStep ==
    ASSUME IInv, NEW c \in Clients, PlatUser(c), UNCHANGED menuReq
    PROVE  IInv'
<1> USE DEF IInv, TypeOK, WebTypeOK
<1>1. UNCHANGED dbVars
  BY DEF PlatUser, EditPlat, ShowPlatDetail, LeavePlatForm, SubmitPlat, AskDeletePlat
<1>2. ClientOK(c) /\ platReq[c] \in PlatReq /\ page[c] \in PageRecord
  BY DEF ClientOK, PlatReqOK, PageOK
<1>3. KnownPlats \subseteq PlatIds /\ KnownPlats \subseteq Nat /\ Plats \subseteq KnownPlats
  BY KeysAssumption DEF KnownPlats, Plats, DbOK, KeysBelowCounter
<1>4. ASSUME NEW i \in PlatIds \cup {0}, EditPlat(c, i) PROVE Acts(c) /\ ClientOK(c)'
  <2>1. CASE EndPlat(c, "liste", 0)
    BY <2>1, <1>1, SameTables, EndPlatOK DEF Views
  <2>2. CASE /\ i = 0 \/ i \in Plats
             /\ Goto(c, "platForm")
             /\ Show(c, "form", "plat", i)
             /\ platReq' = [platReq EXCEPT ![c].id = i]
    <3>1. /\ pc'[c] = "platForm" /\ page'[c] = [view |-> "form", table |-> "plat", id |-> i]
          /\ platReq'[c] = [platReq[c] EXCEPT !.id = i] /\ menuReq'[c] = menuReq[c]
      BY <2>2 DEF Goto, Show
    <3>2. Acts(c)
      BY <2>2 DEF Acts, Goto, Show
    <3>3. PlatReqOK(c)'
      BY <3>1, <2>2, <1>1, <1>2, <1>3, SameTables DEF PlatReqOK, PlatReq
    <3>4. MenuReqOK(c)'
      BY <3>1, <1>1, <1>2, SameTables DEF ClientOK, MenuReqOK
    <3>5. PageOK(c)'
      BY <3>1, <2>2, <1>3 DEF PageOK, PageRecord, Views, Tables, FormSteps
    <3> QED
      BY <3>2, <3>3, <3>4, <3>5 DEF ClientOK
  <2> QED
    BY <1>4, <2>1, <2>2 DEF EditPlat
<1>5. ASSUME NEW i \in PlatIds \cup {0}, ShowPlatDetail(c, i) PROVE Acts(c) /\ ClientOK(c)'
  <2> DEFINE v == IF i \in Plats THEN "detail" ELSE "liste"
  <2>1. EndPlat(c, v, i) /\ i \in KnownPlats /\ i \in Nat
    BY <1>5, <1>3 DEF ShowPlatDetail
  <2>2. v \in Views /\ v # "del"
    BY DEF Views
  <2> HIDE DEF v
  <2> QED
    BY <2>1, <2>2, <1>1, SameTables, EndPlatOK
<1>6. ASSUME LeavePlatForm(c) PROVE Acts(c) /\ ClientOK(c)'
  BY <1>6, <1>1, SameTables, EndPlatOK DEF LeavePlatForm, Views
<1>7. ASSUME NEW row \in PlatForms, SubmitPlat(c, row) PROVE Acts(c) /\ ClientOK(c)'
  <2>1. /\ pc'[c] = "savePlat" /\ page'[c] = page[c] /\ pc[c] = "platForm"
        /\ platReq'[c] = [platReq[c] EXCEPT !.row = row] /\ menuReq'[c] = menuReq[c]
    BY <1>7 DEF SubmitPlat, Goto
  <2>2. Acts(c)
    BY <1>7 DEF Acts, SubmitPlat, Goto
  <2>3. PlatReqOK(c)'
    BY <2>1, <1>1, <1>2, SameTables, PlatFormsAssumption DEF ClientOK, PlatReqOK, PlatReq
  <2>4. MenuReqOK(c)'
    BY <2>1, <1>1, <1>2, SameTables DEF ClientOK, MenuReqOK
  <2>5. PageOK(c)'
    BY <2>1, <1>1, <1>2, SameTables DEF ClientOK, PageOK, ServerSteps, PlatSteps
  <2> QED
    BY <2>2, <2>3, <2>4, <2>5 DEF ClientOK
<1>8. ASSUME AskDeletePlat(c) PROVE Acts(c) /\ ClientOK(c)'
  <2>1. /\ pc'[c] = "deletePlat" /\ page'[c] = page[c] /\ menuReq'[c] = menuReq[c]
        /\ UNCHANGED page
    BY <1>8 DEF AskDeletePlat, Goto
  <2>2. PICK i \in KnownPlats : platReq' = [platReq EXCEPT ![c] = [@ EXCEPT !.id = i]]
    <3>1. CASE platReq[c].id # 0 /\ UNCHANGED platReq
      <4>1. platReq[c] = [platReq[c] EXCEPT !.id = platReq[c].id]
        BY <1>2 DEF PlatReq
      <4>2. platReq' = [platReq EXCEPT ![c] = [@ EXCEPT !.id = platReq[c].id]]
        BY <4>1, <3>1
      <4> QED
        BY <4>2, <3>1, <1>2 DEF ClientOK, PlatReqOK
    <3>2. CASE /\ page[c].view = "detail" /\ page[c].table = "plat"
               /\ platReq' = [platReq EXCEPT ![c].id = page[c].id]
      BY <3>2, <1>2 DEF ClientOK, PageOK
    <3> QED
      BY <1>8, <3>1, <3>2 DEF AskDeletePlat
  <2>3. platReq'[c] = [platReq[c] EXCEPT !.id = i]
    BY <2>2
  <2>4. Acts(c)
    BY <1>8, <2>1, <2>2 DEF Acts, AskDeletePlat, Goto
  <2>5. PlatReqOK(c)'
    BY <2>1, <2>3, <1>1, <1>2, <1>3, KeysAssumption, SameTables DEF PlatReqOK, PlatReq
  <2>6. MenuReqOK(c)'
    BY <2>1, <1>1, <1>2, SameTables DEF ClientOK, MenuReqOK
  <2>7. PageOK(c)'
    BY <2>1, <1>1, <1>2, SameTables DEF ClientOK, PageOK, ServerSteps, PlatSteps
  <2> QED
    BY <2>4, <2>5, <2>6, <2>7 DEF ClientOK
<1>9. Acts(c) /\ ClientOK(c)'
  BY <1>4, <1>5, <1>6, <1>7, <1>8 DEF PlatUser
<1> QED
  BY <1>1, <1>9, SameTables, OneClientStep

\* Writing a submitted dish, over an existing one or under the next key of
\* AUTO_INCREMENT, keeps the tables well-formed and revives no deleted dish.
LEMMA PlatWritten ==
    ASSUME IInv, NEW i \in PlatIds, NEW row \in PlatForms,
           plat' = [plat EXCEPT ![i] = row],
           \/ i \in Plats /\ autoPlat' = autoPlat
           \/ i = autoPlat /\ autoPlat' = autoPlat + 1,
           UNCHANGED <<menu, menu_plat, autoMenu>>
    PROVE  DbOK' /\ Evolves
<1> USE DEF IInv, DbOK
<1>1. row \in PlatRow /\ row # Absent /\ i \in Nat /\ autoPlat \in Nat
  BY PlatFormsAssumption, AbsentAssumption, KeysAssumption DEF SchemaTypeOK
<1>2. i < autoPlat' /\ autoPlat <= autoPlat' /\ autoPlat' \in Nat
  BY <1>1 DEF KeysBelowCounter
<1>3. SchemaTypeOK'
  BY <1>1, <1>2 DEF SchemaTypeOK
<1>4. Plats' = Plats \cup {i} /\ Menus' = Menus
  BY <1>1 DEF Plats, Menus, SchemaTypeOK
<1>5. Integrity'
  BY <1>1 DEF Integrity, SchemaTypeOK
<1>6. KeysBelowCounter'
  <2>1. \A p \in Plats : p < autoPlat'
    <3> SUFFICES ASSUME NEW p \in Plats PROVE p < autoPlat'
      OBVIOUS
    <3>1. p \in Nat /\ p < autoPlat
      BY KeysAreNat DEF KeysBelowCounter, Plats
    <3> QED
      BY <3>1, <1>1, <1>2
  <2> QED
    BY <2>1, <1>2, <1>4 DEF KeysBelowCounter
<1>7. NoTornPlat'
  BY <1>4 DEF NoTornPlat, SchemaTypeOK, Plats
<1>8. Evolves
  <2>1. KnownPlats \subseteq KnownPlats'
    <3> SUFFICES ASSUME NEW p \in KnownPlats PROVE p \in PlatIds /\ p < autoPlat'
      BY DEF KnownPlats
    <3>1. p \in PlatIds /\ p \in Nat /\ p < autoPlat
      BY KeysAreNat DEF KnownPlats
    <3> QED
      BY <3>1, <1>1, <1>2
  <2>2. \A p \in KnownPlats : p \notin Plats => p \notin Plats'
    BY <1>1, <1>4 DEF KnownPlats
  <2> QED
    BY <2>1, <2>2, <1>4 DEF Evolves, KnownMenus
<1> QED
  BY <1>3, <1>5, <1>6, <1>7, <1>8

\* Deleting a dish that no menu references keeps the tables well-formed.
LEMMA PlatDeleted ==
    ASSUME IInv, NEW i \in PlatIds, ~Referenced(i),
           plat' = [plat EXCEPT ![i] = Absent],
           UNCHANGED <<menu, menu_plat, autoPlat, autoMenu>>
    PROVE  DbOK' /\ Evolves /\ i \notin Plats'
<1> USE DEF IInv, DbOK
<1>1. Plats' = Plats \ {i} /\ Menus' = Menus
  BY DEF Plats, Menus, SchemaTypeOK
<1>2. SchemaTypeOK'
  BY DEF SchemaTypeOK
<1>3. Integrity'
  BY DEF Integrity, SchemaTypeOK, Referenced
<1>4. KeysBelowCounter'
  BY <1>1 DEF KeysBelowCounter
<1>5. NoTornPlat'
  BY <1>1 DEF NoTornPlat, SchemaTypeOK, Plats
<1>6. Evolves
  BY <1>1 DEF Evolves, KnownPlats, KnownMenus
<1> QED
  BY <1>1, <1>2, <1>3, <1>4, <1>5, <1>6

\* A creation that dies after its INSERT uses up a key and nothing else.
LEMMA SkippedPlatKey ==
    ASSUME IInv, autoPlat' = autoPlat + 1,
           UNCHANGED <<plat, menu, menu_plat, autoMenu>>
    PROVE  DbOK' /\ Evolves
<1> USE DEF IInv, DbOK
<1>1. autoPlat \in Nat /\ Plats' = Plats /\ Menus' = Menus
  BY DEF SchemaTypeOK, Plats, Menus
<1>2. \A p \in PlatIds : p < autoPlat => p < autoPlat'
  BY <1>1, KeysAreNat
<1>3. SchemaTypeOK' /\ Integrity' /\ NoTornPlat'
  BY <1>1 DEF SchemaTypeOK, Integrity, NoTornPlat
<1>4. KeysBelowCounter'
  BY <1>1, <1>2 DEF KeysBelowCounter, Plats
<1>5. Evolves
  BY <1>1, <1>2 DEF Evolves, KnownPlats, KnownMenus
<1> QED
  BY <1>3, <1>4, <1>5

\* Nothing the server does for a request on a dish breaks the invariant.
LEMMA PlatServerStep ==
    ASSUME IInv, NEW c \in Clients, PlatServer(c), UNCHANGED menuReq
    PROVE  IInv'
<1> USE DEF IInv, TypeOK, WebTypeOK
<1> DEFINE r == platReq[c]
           i == platReq[c].id
<1>1. /\ ClientOK(c) /\ r \in PlatReq /\ page[c] \in PageRecord
      /\ i \in KnownPlats \cup {0} /\ i \in Nat /\ autoPlat \in Nat
  <2>1. ClientOK(c) /\ r \in PlatReq /\ page[c] \in PageRecord /\ i \in KnownPlats \cup {0}
    BY DEF ClientOK, PlatReqOK, PageOK
  <2>2. i \in Nat
    BY <2>1, KeysAreNat DEF KnownPlats
  <2>3. autoPlat \in Nat
    BY DEF SchemaTypeOK
  <2> QED
    BY <2>1, <2>2, <2>3
<1>2. KnownPlats \subseteq PlatIds
  BY DEF KnownPlats
<1>3. \A v \in {"liste", "new", "mod", "del", "template"} \cup Errors : v \in Views
  BY DEF Views, Errors, Alerts
<1>4. \A v \in {"new", "mod", "del"} : v \in Alerts
  BY DEF Alerts
<1>5. ASSUME NEW v \in Errors, EndPlat(c, v, 0), UNCHANGED dbVars PROVE IInv'
  BY <1>3, <1>5, SameTables, EndPlatOK, OneClientStep DEF Errors
<1>6. ASSUME PersistPlat(c) PROVE IInv'
  <2>1. /\ r.row \in PlatForms /\ autoPlat \in PlatIds
        /\ RedirectPlats(c, "new", autoPlat)
    BY <1>6, <1>1 DEF PersistPlat, ClientOK, PlatReqOK
  <2>2. DbOK' /\ Evolves
    BY <1>6, <2>1, PlatWritten DEF PersistPlat
  <2> QED
    BY <2>1, <2>2, <1>1, <1>4, RedirectPlatsOK, OneClientStep
<1>7. ASSUME PersistPlatExhausted(c) PROVE IInv'
  BY <1>7, <1>5 DEF PersistPlatExhausted, Errors
<1>8. ASSUME MergePlat(c) PROVE IInv'
  <2>1. UNCHANGED dbVars
    BY <1>8 DEF MergePlat
  <2>2. CASE EndPlat(c, "stale", 0)
    BY <2>1, <2>2, <1>5 DEF Errors
  <2>3. CASE /\ pc[c] = "savePlat" /\ i # 0 /\ plat[i] # Absent
             /\ Goto(c, "flushPlat")
             /\ platReq' = [platReq EXCEPT ![c].snap = plat[i]]
             /\ UNCHANGED page
    <3>1. /\ pc'[c] = "flushPlat" /\ page'[c] = page[c]
          /\ platReq'[c] = [r EXCEPT !.snap = plat[i]] /\ menuReq'[c] = menuReq[c]
      BY <2>3 DEF Goto
    <3>2. Acts(c)
      BY <2>3 DEF Acts, Goto
    <3>3. plat[i] \in PlatRow
      BY <2>3, <1>1, <1>2 DEF SchemaTypeOK
    <3>4. PlatReqOK(c)'
      BY <3>1, <3>3, <2>1, <2>3, <1>1, SameTables DEF ClientOK, PlatReqOK, PlatReq
    <3>5. MenuReqOK(c)'
      BY <3>1, <2>1, <1>1, SameTables DEF ClientOK, MenuReqOK
    <3>6. PageOK(c)'
      BY <3>1, <2>1, <1>1, SameTables DEF ClientOK, PageOK, ServerSteps, PlatSteps
    <3> QED
      BY <3>2, <3>4, <3>5, <3>6, <2>1, SameTables, OneClientStep DEF ClientOK
  <2> QED
    BY <1>8, <2>2, <2>3 DEF MergePlat
<1>9. ASSUME FlushPlat(c) PROVE IInv'
  <2>1. r.row \in PlatForms /\ i \in KnownPlats /\ i \in PlatIds
    BY <1>9, <1>1, <1>2 DEF FlushPlat, ClientOK, PlatReqOK
  <2>2. CASE RedirectPlats(c, "mod", i) /\ UNCHANGED dbVars
    BY <2>2, <1>1, <1>4, SameTables, RedirectPlatsOK, OneClientStep
  <2>3. CASE /\ UpdateFindsPlat(r)
             /\ plat' = [plat EXCEPT ![i] = UpdatedPlat(r)]
             /\ RedirectPlats(c, "mod", i)
             /\ UNCHANGED <<menu, menu_plat, autoPlat, autoMenu>>
    <3>1. i \in Plats /\ plat' = [plat EXCEPT ![i] = r.row]
      BY <2>1, <2>3 DEF Plats, UpdateFindsPlat, UpdatedPlat
    <3>2. DbOK' /\ Evolves
      BY <3>1, <2>1, <2>3, PlatWritten
    <3> QED
      BY <3>2, <2>3, <1>1, <1>4, RedirectPlatsOK, OneClientStep
  <2>4. CASE EndPlat(c, "stale", 0) /\ UNCHANGED dbVars
    BY <2>4, <1>5 DEF Errors
  <2> QED
    BY <1>9, <2>2, <2>3, <2>4 DEF FlushPlat, dbVars
<1>10. ASSUME DeletePlat(c) PROVE IInv'
  <2>1. UNCHANGED dbVars /\ i \in KnownPlats /\ i \in PlatIds
    BY <1>10, <1>1, <1>2 DEF DeletePlat, ClientOK, PlatReqOK
  <2>2. CASE plat[i] = Absent /\ RedirectPlats(c, "del", i)
    <3>1. i \in KnownPlats' /\ i \notin Plats'
      BY <2>1, <2>2, SameTables DEF Plats
    <3> QED
      BY <3>1, <2>1, <2>2, <1>1, <1>4, SameTables, RedirectPlatsOK, OneClientStep
  <2>3. CASE Goto(c, "removePlat") /\ UNCHANGED <<page, platReq>>
    <3>1. /\ pc'[c] = "removePlat" /\ page'[c] = page[c]
          /\ platReq'[c] = r /\ menuReq'[c] = menuReq[c]
      BY <2>3 DEF Goto
    <3>2. Acts(c)
      BY <2>3 DEF Acts, Goto
    <3>3. PlatReqOK(c)'
      BY <3>1, <2>1, <1>1, KeysAssumption, SameTables DEF ClientOK, PlatReqOK
    <3>4. MenuReqOK(c)'
      BY <3>1, <2>1, <1>1, SameTables DEF ClientOK, MenuReqOK
    <3>5. PageOK(c)'
      BY <3>1, <2>1, <1>1, SameTables DEF ClientOK, PageOK, ServerSteps, PlatSteps
    <3> QED
      BY <3>2, <3>3, <3>4, <3>5, <2>1, SameTables, OneClientStep DEF ClientOK
  <2> QED
    BY <1>10, <2>2, <2>3 DEF DeletePlat
<1>11. ASSUME RemovePlat(c) PROVE IInv'
  <2>1. i \in KnownPlats /\ i \in PlatIds
    BY <1>11, <1>1, <1>2 DEF RemovePlat, ClientOK, PlatReqOK
  <2>2. CASE /\ ~Referenced(i)
             /\ plat' = [plat EXCEPT ![i] = Absent]
             /\ RedirectPlats(c, "del", i)
             /\ UNCHANGED <<menu, menu_plat, autoPlat, autoMenu>>
    <3>1. DbOK' /\ Evolves /\ i \notin Plats'
      BY <2>1, <2>2, PlatDeleted
    <3>2. i \in KnownPlats'
      BY <3>1, <2>1 DEF Evolves
    <3> QED
      BY <3>1, <3>2, <2>2, <1>1, <1>4, RedirectPlatsOK, OneClientStep
  <2>3. CASE (EndPlat(c, "integrity", 0) \/ EndPlat(c, "stale", 0)) /\ UNCHANGED dbVars
    BY <2>3, <1>5 DEF Errors
  <2> QED
    BY <1>11, <2>2, <2>3 DEF RemovePlat, dbVars
<1>12. ASSUME ListePlats(c) PROVE IInv'
  <2> DEFINE v == IF page[c].view = "del" \/ page[c].id \in Plats
                  THEN page[c].view ELSE "template"
  <2>1. UNCHANGED dbVars /\ EndPlat(c, v, page[c].id)
    BY <1>12 DEF ListePlats
  <2>2. /\ page[c].view \in Alerts /\ page[c].id \in Nat
        /\ page[c].view = "del" => page[c].id \in KnownPlats /\ page[c].id \notin Plats
    BY <1>12, <1>1 DEF ListePlats, ClientOK, PageOK, PageRecord
  <2>3. /\ v \in Views /\ v # "detail"
        /\ v = "del" => page[c].id \in KnownPlats /\ page[c].id \notin Plats
    BY <2>2, <1>3 DEF Alerts
  <2> HIDE DEF v
  <2> QED
    BY <2>1, <2>2, <2>3, SameTables, EndPlatOK, OneClientStep
<1>13. ASSUME FailPlat(c) PROVE IInv'
  <2>1. EndPlat(c, "failure", 0) /\ "failure" \in Errors
    BY <1>13 DEF FailPlat, Errors
  <2>2. CASE UNCHANGED dbVars
    BY <1>5, <2>1, <2>2
  <2>3. CASE autoPlat' = autoPlat + 1 /\ UNCHANGED <<plat, menu, menu_plat, autoMenu>>
    BY <2>1, <2>3, <1>3, SkippedPlatKey, EndPlatOK, OneClientStep DEF Errors
  <2> QED
    BY <1>13, <2>2, <2>3 DEF FailPlat, dbVars
<1> QED
  BY <1>6, <1>7, <1>8, <1>9, <1>10, <1>11, <1>12, <1>13 DEF PlatServer

-----------------------------------------------------------------------------
(***************************************************************************)
(* The actions of MenuController.                                          *)
(***************************************************************************)
\* A request on a menu that reaches its next step without touching the tables
\* or the page leaves everything but itself in order.
LEMMA MenuProceeds ==
    ASSUME IInv, NEW c \in Clients, UNCHANGED <<dbVars, page, platReq>>,
           NEW step \in {"editMenu", "menuView", "menuForm", "saveMenu", "flushMenu",
                         "deleteMenu", "removeMenu"},
           pc' = [pc EXCEPT ![c] = step],
           NEW r, menuReq' = [menuReq EXCEPT ![c] = r],
           r \in MenuReq,
           r.id \in KnownMenus \cup {0},
           r.platIds \cup r.submitted \subseteq KnownPlats,
           step \in {"saveMenu", "flushMenu"} => SelectionOK(r),
           step = "flushMenu" => r.platIds = {},
           step \in {"saveMenu", "flushMenu"} => r.row \in MenuForms,
           step \in {"flushMenu", "deleteMenu", "removeMenu"} => r.id # 0
    PROVE  IInv'
<1> USE DEF IInv, TypeOK, WebTypeOK
<1>1. UNCHANGED dbVars
  OBVIOUS
<1>2. /\ pc'[c] = step /\ page'[c] = page[c]
      /\ platReq'[c] = platReq[c] /\ menuReq'[c] = r
  OBVIOUS
<1>3. Acts(c)
  BY <1>2 DEF Acts
<1>4. PlatReqOK(c)'
  BY <1>1, <1>2, SameTables DEF ClientOK, PlatReqOK
<1>5. MenuReqOK(c)'
  <2>1. SelectionOK(r) => SelectionOK(menuReq[c])'
    BY <1>1, <1>2, SameTables DEF SelectionOK
  <2> QED
    BY <1>1, <1>2, <2>1, SameTables DEF MenuReqOK
<1>6. PageOK(c)'
  BY <1>1, <1>2, SameTables DEF ClientOK, PageOK, FormSteps, ServerSteps, MenuSteps
<1> QED
  BY <1>1, <1>3, <1>4, <1>5, <1>6, SameTables, OneClientStep DEF ClientOK

\* Nothing a user does on the pages about menus breaks the invariant.
LEMMA MenuUserStep ==
    ASSUME IInv, NEW c \in Clients, MenuUser(c), UNCHANGED platReq
    PROVE  IInv'
<1> USE DEF IInv, TypeOK, WebTypeOK
<1> DEFINE r == menuReq[c]
<1>1. UNCHANGED dbVars
  BY DEF MenuUser, EditMenu, ShowMenuDetail, LeaveMenuForm, SubmitMenu, AskDeleteMenu
<1>2. /\ ClientOK(c) /\ r \in MenuReq /\ page[c] \in PageRecord
      /\ r.id \in KnownMenus \cup {0}
      /\ r.platIds \cup r.submitted \subseteq KnownPlats
  BY DEF ClientOK, MenuReqOK, PageOK
<1>3. KnownMenus \subseteq MenuIds /\ KnownMenus \subseteq Nat /\ Menus \subseteq KnownMenus
  BY KeysAreNat DEF KnownMenus, Menus, DbOK, KeysBelowCounter
<1>4. ASSUME NEW i \in MenuIds \cup {0}, EditMenu(c, i) PROVE IInv'
  <2>1. CASE EndMenu(c, "liste", 0)
    BY <2>1, <1>1, SameTables, EndMenuOK, OneClientStep DEF Views
  <2>2. CASE /\ i = 0 \/ i \in Menus
             /\ Goto(c, "editMenu")
             /\ Show(c, "form", "menu", i)
             /\ menuReq' = [menuReq EXCEPT ![c].id = i]
    <3>1. /\ pc'[c] = "editMenu" /\ page'[c] = [view |-> "form", table |-> "menu", id |-> i]
          /\ menuReq'[c] = [r EXCEPT !.id = i] /\ platReq'[c] = platReq[c]
      BY <2>2 DEF Goto, Show
    <3>2. Acts(c)
      BY <2>2 DEF Acts, Goto, Show
    <3>3. MenuReqOK(c)'
      BY <3>1, <2>2, <1>1, <1>2, <1>3, SameTables DEF MenuReqOK, MenuReq
    <3>4. PlatReqOK(c)'
      BY <3>1, <1>1, <1>2, SameTables DEF ClientOK, PlatReqOK
    <3>5. PageOK(c)'
      BY <3>1, <2>2, <1>3 DEF PageOK, PageRecord, Views, Tables, ServerSteps, MenuSteps
    <3> QED
      BY <3>2, <3>3, <3>4, <3>5, <1>1, SameTables, OneClientStep DEF ClientOK
  <2> QED
    BY <1>4, <2>1, <2>2 DEF EditMenu
<1>5. ASSUME NEW i \in MenuIds \cup {0}, ShowMenuDetail(c, i) PROVE IInv'
  <2> DEFINE v == IF i \in Menus THEN "detail" ELSE "liste"
  <2>1. EndMenu(c, v, i) /\ i \in KnownMenus /\ i \in Nat
    BY <1>5, <1>3 DEF ShowMenuDetail
  <2>2. v \in Views /\ v # "del"
    BY DEF Views
  <2> HIDE DEF v
  <2> QED
    BY <2>1, <2>2, <1>1, SameTables, EndMenuOK, OneClientStep
<1>6. ASSUME LeaveMenuForm(c) PROVE IInv'
  BY <1>6, <1>1, SameTables, EndMenuOK, OneClientStep DEF LeaveMenuForm, Views
<1>7. ASSUME NEW row \in MenuForms, NEW sel \in Selections, SubmitMenu(c, row, sel)
      PROVE  IInv'
  <2> DEFINE s == [r EXCEPT !.row = row, !.platIds = sel, !.submitted = sel,
                            !.selectedPlats = {}]
  <2>1. /\ s \in MenuReq /\ s.id = r.id /\ s.row = row
        /\ s.platIds = sel /\ s.submitted = sel /\ s.selectedPlats = {}
    <3>1. row \in MenuRow /\ sel \in SUBSET PlatIds
      BY MenuFormsAssumption, SelectionsAssumption
    <3> QED
      BY <3>1, <1>2 DEF MenuReq
  <2>2. menuReq' = [menuReq EXCEPT ![c] = s] /\ pc' = [pc EXCEPT ![c] = "saveMenu"]
    BY <1>7 DEF SubmitMenu, Goto
  <2>3. UNCHANGED <<dbVars, page, platReq>>
    BY <1>7 DEF SubmitMenu
  <2> HIDE DEF s
  <2>4. s.platIds \cup s.submitted \subseteq KnownPlats /\ SelectionOK(s)
    BY <1>2, <1>7, <2>1 DEF SubmitMenu, SelectionOK
  <2> QED
    BY <2>1, <2>2, <2>3, <2>4, <1>2, MenuProceeds
<1>8. ASSUME AskDeleteMenu(c) PROVE IInv'
  <2>1. pc' = [pc EXCEPT ![c] = "deleteMenu"] /\ UNCHANGED <<dbVars, page, platReq>>
    BY <1>8 DEF AskDeleteMenu, Goto
  <2>2. CASE r.id # 0 /\ menuReq' = [menuReq EXCEPT ![c].platIds = {}]
    <3> DEFINE s == [r EXCEPT !.platIds = {}]
    <3>1. s \in MenuReq /\ s.id = r.id /\ s.platIds \cup s.submitted \subseteq KnownPlats
      BY <1>2 DEF MenuReq
    <3>2. menuReq' = [menuReq EXCEPT ![c] = s]
      BY <2>2
    <3> HIDE DEF s
    <3> QED
      BY <3>1, <3>2, <2>1, <2>2, <1>2, MenuProceeds
  <2>3. CASE /\ page[c].view = "detail" /\ page[c].table = "menu"
             /\ menuReq' = [menuReq EXCEPT ![c].id = page[c].id]
    <3> DEFINE s == [r EXCEPT !.id = page[c].id]
    <3>1. page[c].id \in KnownMenus
      BY <2>3, <1>2 DEF ClientOK, PageOK
    <3>2. /\ s \in MenuReq /\ s.id \in KnownMenus /\ s.id # 0
          /\ s.platIds \cup s.submitted \subseteq KnownPlats
      BY <3>1, <1>2, <1>3, KeysAreNat DEF MenuReq
    <3>3. menuReq' = [menuReq EXCEPT ![c] = s]
      BY <2>3
    <3> HIDE DEF s
    <3> QED
      BY <3>2, <3>3, <2>1, MenuProceeds
  <2> QED
    BY <1>8, <2>2, <2>3 DEF AskDeleteMenu
<1> QED
  BY <1>4, <1>5, <1>6, <1>7, <1>8 DEF MenuUser

\* Replacing the row of a menu and its rows of menu_plat, for an existing menu
\* or under the next key of AUTO_INCREMENT, keeps the tables well-formed
\* provided every pair added names an existing dish.  With added empty and no
\* row written this is also the save that changes nothing.
LEMMA MenuWritten ==
    ASSUME IInv, NEW i \in MenuIds, NEW row \in MenuRow \cup {Absent},
           NEW kept \in SUBSET menu_plat, NEW added \in SUBSET Plats,
           menu' = [menu EXCEPT ![i] = row],
           menu_plat' = kept \cup ({i} \X added),
           row = Absent => added = {} /\ \A p \in PlatIds : <<i, p>> \notin kept,
           \/ i \in Menus /\ autoMenu' = autoMenu
           \/ i = autoMenu /\ autoMenu' = autoMenu + 1,
           UNCHANGED <<plat, autoPlat>>
    PROVE  DbOK' /\ Evolves
<1> USE DEF IInv, DbOK
<1>1. i \in Nat /\ autoMenu \in Nat /\ Plats \subseteq PlatIds
  BY KeysAreNat DEF SchemaTypeOK, Plats
<1>2. i < autoMenu' /\ autoMenu <= autoMenu' /\ autoMenu' \in Nat
  BY <1>1 DEF KeysBelowCounter
<1>3. SchemaTypeOK'
  <2>1. menu_plat' \in SUBSET (MenuIds \X PlatIds)
    BY <1>1 DEF SchemaTypeOK
  <2> QED
    BY <2>1, <1>2 DEF SchemaTypeOK
<1>4. Menus' \subseteq Menus \cup {i} /\ Plats' = Plats
  BY DEF Plats, Menus, SchemaTypeOK
<1>5. Integrity'
  <2> SUFFICES ASSUME NEW m \in MenuIds, NEW p \in PlatIds, <<m, p>> \in menu_plat'
               PROVE  menu'[m] # Absent /\ plat'[p] # Absent
    BY DEF Integrity
  <2>1. <<m, p>> \in kept \/ (m = i /\ p \in added)
    OBVIOUS
  <2>2. plat[p] # Absent
    BY <2>1 DEF Integrity, Plats
  <2>3. CASE m = i
    BY <2>1, <2>2, <2>3 DEF SchemaTypeOK
  <2>4. CASE m # i
    BY <2>1, <2>2, <2>4 DEF SchemaTypeOK, Integrity
  <2> QED
    BY <2>3, <2>4
<1>6. KeysBelowCounter'
  <2>1. \A m \in Menus : m < autoMenu'
    <3> SUFFICES ASSUME NEW m \in Menus PROVE m < autoMenu'
      OBVIOUS
    <3>1. m \in Nat /\ m < autoMenu
      BY KeysAreNat DEF KeysBelowCounter, Menus
    <3> QED
      BY <3>1, <1>1, <1>2
  <2> QED
    BY <2>1, <1>2, <1>4 DEF KeysBelowCounter
<1>7. NoTornPlat'
  BY <1>4 DEF NoTornPlat
<1>8. Evolves
  <2>1. KnownMenus \subseteq KnownMenus'
    <3> SUFFICES ASSUME NEW m \in KnownMenus PROVE m \in MenuIds /\ m < autoMenu'
      BY DEF KnownMenus
    <3>1. m \in MenuIds /\ m \in Nat /\ m < autoMenu
      BY KeysAreNat DEF KnownMenus
    <3> QED
      BY <3>1, <1>1, <1>2
  <2>2. \A m \in KnownMenus : m \notin Menus => m \notin Menus'
    BY <1>1, <1>4 DEF KnownMenus
  <2> QED
    BY <2>1, <2>2, <1>4 DEF Evolves, KnownPlats
<1> QED
  BY <1>3, <1>5, <1>6, <1>7, <1>8

\* A creation that fails after its INSERT uses up a key and nothing else.
LEMMA SkippedMenuKey ==
    ASSUME IInv, autoMenu' = autoMenu + 1,
           UNCHANGED <<plat, menu, menu_plat, autoPlat>>
    PROVE  DbOK' /\ Evolves
<1> USE DEF IInv, DbOK
<1>1. autoMenu \in Nat /\ Plats' = Plats /\ Menus' = Menus
  BY DEF SchemaTypeOK, Plats, Menus
<1>2. \A m \in MenuIds : m < autoMenu => m < autoMenu'
  BY <1>1, KeysAreNat
<1>3. SchemaTypeOK' /\ Integrity' /\ NoTornPlat'
  BY <1>1 DEF SchemaTypeOK, Integrity, NoTornPlat
<1>4. KeysBelowCounter'
  BY <1>1, <1>2 DEF KeysBelowCounter, Menus
<1>5. Evolves
  BY <1>1, <1>2 DEF Evolves, KnownPlats, KnownMenus
<1> QED
  BY <1>3, <1>4, <1>5

\* Nothing the server does for a request on a menu breaks the invariant.
LEMMA MenuServerStep ==
    ASSUME IInv, NEW c \in Clients, MenuServer(c), UNCHANGED platReq
    PROVE  IInv'
<1> USE DEF IInv, TypeOK, WebTypeOK
<1> DEFINE r == menuReq[c]
           i == menuReq[c].id
<1>1. /\ ClientOK(c) /\ r \in MenuReq /\ page[c] \in PageRecord
      /\ i \in KnownMenus \cup {0}
  BY DEF ClientOK, MenuReqOK, PageOK
<1>b. r.platIds \cup r.submitted \subseteq KnownPlats
  BY <1>1 DEF ClientOK, MenuReqOK
<1>2. /\ i \in Nat /\ autoMenu \in Nat
      /\ KnownMenus \subseteq MenuIds /\ Plats \subseteq PlatIds
  BY <1>1, KeysAreNat DEF KnownMenus, Plats, SchemaTypeOK
<1>a. Plats \subseteq KnownPlats
  BY DEF DbOK, KeysBelowCounter, Plats, KnownPlats
<1>3. \A v \in {"liste", "new", "mod", "del", "template"} \cup Errors : v \in Views
  BY DEF Views, Errors, Alerts
<1>4. \A v \in {"new", "mod", "del"} : v \in Alerts
  BY DEF Alerts
<1>5. ASSUME NEW v \in Errors, EndMenu(c, v, 0), UNCHANGED dbVars PROVE IInv'
  BY <1>3, <1>5, SameTables, EndMenuOK, OneClientStep DEF Errors
<1>6. ASSUME OfferPlats(c) PROVE IInv'
  <2> DEFINE s == [r EXCEPT !.platIds = Plats]
  <2>1. s \in MenuReq /\ s.id = i /\ s.platIds \cup s.submitted \subseteq KnownPlats
    BY <1>1, <1>2, <1>a, <1>b DEF MenuReq
  <2>2. /\ menuReq' = [menuReq EXCEPT ![c] = s] /\ pc' = [pc EXCEPT ![c] = "menuView"]
        /\ UNCHANGED <<dbVars, page, platReq>>
    BY <1>6 DEF OfferPlats, Goto
  <2> HIDE DEF s
  <2> QED
    BY <2>1, <2>2, <1>1, MenuProceeds
<1>7. ASSUME RenderMenuForm(c) PROVE IInv'
  <2> DEFINE s == [r EXCEPT !.platIds = @ \cup Composition(i)]
  <2>0. Composition(i) \subseteq Plats
    BY DEF Composition, Plats, DbOK, Integrity, SchemaTypeOK
  <2>1. s \in MenuReq /\ s.id = i /\ s.platIds \cup s.submitted \subseteq KnownPlats
    BY <1>1, <1>2, <1>a, <1>b, <2>0 DEF MenuReq
  <2>2. /\ menuReq' = [menuReq EXCEPT ![c] = s] /\ pc' = [pc EXCEPT ![c] = "menuForm"]
        /\ UNCHANGED <<dbVars, page, platReq>>
    BY <1>7 DEF RenderMenuForm, Goto
  <2> HIDE DEF s
  <2> QED
    BY <2>1, <2>2, <1>1, MenuProceeds
<1>8. ASSUME NEW p \in PlatIds, FindPlat(c, p) PROVE IInv'
  <2> DEFINE s == [r EXCEPT !.platIds = @ \ {p}, !.selectedPlats = @ \cup ({p} \cap Plats)]
  <2>1. /\ s \in MenuReq /\ s.id = i /\ s.row = r.row /\ s.submitted = r.submitted
        /\ s.platIds = r.platIds \ {p}
        /\ s.selectedPlats = r.selectedPlats \cup ({p} \cap Plats)
    BY <1>1, <1>2 DEF MenuReq
  <2>2. pc[c] = "saveMenu" /\ r.row \in MenuForms /\ SelectionOK(r) /\ p \in r.platIds
    BY <1>8, <1>1 DEF FindPlat, ClientOK, MenuReqOK
  <2>3. /\ menuReq' = [menuReq EXCEPT ![c] = s] /\ pc' = [pc EXCEPT ![c] = "saveMenu"]
        /\ UNCHANGED <<dbVars, page, platReq>>
    BY <1>8, <2>2 DEF FindPlat, webVars
  <2> HIDE DEF s
  <2>4. s.platIds \cup s.submitted \subseteq KnownPlats /\ SelectionOK(s)
    BY <1>b, <2>1, <2>2 DEF SelectionOK
  <2> QED
    BY <2>1, <2>2, <2>3, <2>4, <1>1, MenuProceeds
<1>9. ASSUME PersistMenu(c) PROVE IInv'
  <2>1. r.row \in MenuRow /\ autoMenu \in MenuIds
    BY <1>9, <1>1, MenuFormsAssumption DEF PersistMenu, ClientOK, MenuReqOK
  <2>2. CASE /\ r.selectedPlats \subseteq Plats
             /\ menu' = [menu EXCEPT ![autoMenu] = r.row]
             /\ menu_plat' = menu_plat \cup ({autoMenu} \X r.selectedPlats)
             /\ RedirectMenus(c, "new", autoMenu)
    <3>1. r.row # Absent
      BY <2>1, AbsentAssumption
    <3>2. autoMenu' = autoMenu + 1 /\ UNCHANGED <<plat, autoPlat>>
      BY <1>9 DEF PersistMenu
    <3>3. DbOK' /\ Evolves
      BY <3>1, <3>2, <2>1, <2>2, MenuWritten
    <3> QED
      BY <3>3, <2>2, <1>2, <1>4, RedirectMenusOK, OneClientStep
  <2>3. CASE EndMenu(c, "integrity", 0) /\ UNCHANGED <<menu, menu_plat>>
    <3>1. autoMenu' = autoMenu + 1 /\ UNCHANGED <<plat, autoPlat>>
      BY <1>9 DEF PersistMenu
    <3>2. DbOK' /\ Evolves
      BY <3>1, <2>3, <1>2, SkippedMenuKey
    <3> QED
      BY <3>2, <2>3, <1>3, EndMenuOK, OneClientStep DEF Errors
  <2> QED
    BY <1>9, <2>2, <2>3 DEF PersistMenu
<1>10. ASSUME PersistMenuRefused(c) PROVE IInv'
  <2>1. UNCHANGED dbVars /\ (EndMenu(c, "integrity", 0) \/ EndMenu(c, "tooLong", 0))
    BY <1>10 DEF PersistMenuRefused
  <2> QED
    BY <2>1, <1>5 DEF Errors
<1>11. ASSUME MergeMenu(c) PROVE IInv'
  <2>1. UNCHANGED dbVars
    BY <1>11 DEF MergeMenu
  <2>2. CASE EndMenu(c, "stale", 0)
    BY <2>1, <2>2, <1>5 DEF Errors
  <2>3. CASE /\ pc[c] = "saveMenu" /\ i # 0 /\ menu[i] # Absent
             /\ Goto(c, "flushMenu")
             /\ menuReq' = [menuReq EXCEPT ![c].snap = menu[i], ![c].snapPlats = Composition(i)]
             /\ UNCHANGED page
    <3> DEFINE s == [r EXCEPT !.snap = menu[i], !.snapPlats = Composition(i)]
    <3>1. menu[i] \in MenuRow \cup {Absent} /\ Composition(i) \in SUBSET PlatIds
      BY <2>3, <1>1, <1>2 DEF SchemaTypeOK, Composition
    <3>2. /\ s \in MenuReq /\ s.id = i /\ s.row = r.row /\ s.submitted = r.submitted
          /\ s.platIds = r.platIds /\ s.selectedPlats = r.selectedPlats
      BY <3>1, <1>1 DEF MenuReq
    <3>3. r.row \in MenuForms /\ r.platIds = {} /\ SelectionOK(r)
      BY <1>11, <2>3, <1>1 DEF MergeMenu, ClientOK, MenuReqOK
    <3>4. /\ menuReq' = [menuReq EXCEPT ![c] = s] /\ pc' = [pc EXCEPT ![c] = "flushMenu"]
          /\ UNCHANGED <<dbVars, page, platReq>>
      BY <2>1, <2>3 DEF Goto
    <3> HIDE DEF s
    <3>5. s.platIds \cup s.submitted \subseteq KnownPlats /\ s.platIds = {} /\ SelectionOK(s)
      BY <1>b, <3>2, <3>3 DEF SelectionOK
    <3>6. s.id \in KnownMenus \cup {0} /\ s.id # 0
      BY <1>1, <2>3, <3>2
    <3> QED
      BY <3>2, <3>3, <3>4, <3>5, <3>6, MenuProceeds
  <2> QED
    BY <1>11, <2>2, <2>3 DEF MergeMenu
<1>12. ASSUME FlushMenu(c) PROVE IInv'
  <2>1. /\ r.row \in MenuRow /\ r.row # Absent /\ i \in KnownMenus /\ i \in MenuIds
    BY <1>12, <1>1, <1>2, MenuFormsAssumption, AbsentAssumption
    DEF FlushMenu, ClientOK, MenuReqOK
  <2> DEFINE kept == menu_plat \ ({i} \X Removed(r))
  <2>2. /\ UpdateDone(r) /\ InsertsDone(r) /\ RedirectMenus(c, "mod", i)
        /\ menu' = IF Dirty(r) THEN [menu EXCEPT ![i] = r.row] ELSE menu
        /\ menu_plat' = kept \cup ({i} \X Added(r))
        /\ UNCHANGED <<plat, autoPlat, autoMenu>>
    BY <1>12 DEF FlushMenu
  <2>3. Added(r) \subseteq PlatIds /\ Removed(r) \subseteq PlatIds
    BY <1>1 DEF Added, Removed, MenuReq
  <2>4. Added(r) \subseteq Plats
    BY <2>2, <2>3 DEF InsertsDone, Insertable, Plats
  <2>5. DbOK' /\ Evolves
    <3>1. CASE menu[i] # Absent
      <4>1. i \in Menus
        BY <3>1, <2>1 DEF Menus
      <4> DEFINE row == IF Dirty(r) THEN r.row ELSE menu[i]
      <4>2. menu' = [menu EXCEPT ![i] = row] /\ row \in MenuRow /\ row # Absent
        BY <3>1, <2>1, <2>2 DEF SchemaTypeOK
      <4> HIDE DEF row
      <4> QED
        BY <4>1, <4>2, <2>1, <2>2, <2>4, MenuWritten
    <3>2. CASE menu[i] = Absent
      <4>1. ~Dirty(r) /\ Added(r) = {}
        BY <3>2, <2>2 DEF UpdateDone, InsertsDone, Insertable
      <4>2. menu_plat' = menu_plat
        <5>1. \A p \in PlatIds : <<i, p>> \notin menu_plat
          BY <3>2, <2>1 DEF DbOK, Integrity
        <5> QED
          BY <5>1, <4>1, <2>2, <2>3
      <4>3. UNCHANGED dbVars
        BY <4>1, <4>2, <2>2 DEF dbVars
      <4> QED
        BY <4>3, SameTables
    <3> QED
      BY <3>1, <3>2
  <2> QED
    BY <2>2, <2>5, <1>2, <1>4, RedirectMenusOK, OneClientStep
<1>13. ASSUME FlushMenuStale(c) \/ FlushMenuTooLong(c) \/ FlushMenuRefused(c) PROVE IInv'
  BY <1>13, <1>5 DEF FlushMenuStale, FlushMenuTooLong, FlushMenuRefused, Errors
<1>14. ASSUME DeleteMenu(c) PROVE IInv'
  <2>1. UNCHANGED dbVars /\ i \in KnownMenus /\ i \in MenuIds /\ i # 0
    BY <1>14, <1>1, <1>2 DEF DeleteMenu, ClientOK, MenuReqOK
  <2>2. CASE menu[i] = Absent /\ RedirectMenus(c, "del", i)
    <3>1. i \in KnownMenus' /\ i \notin Menus'
      BY <2>1, <2>2, SameTables DEF Menus
    <3> QED
      BY <3>1, <2>1, <2>2, <1>2, <1>4, SameTables, RedirectMenusOK, OneClientStep
  <2>3. CASE Goto(c, "removeMenu") /\ UNCHANGED <<page, menuReq>>
    <3>1. /\ menuReq' = [menuReq EXCEPT ![c] = r] /\ pc' = [pc EXCEPT ![c] = "removeMenu"]
          /\ UNCHANGED <<dbVars, page, platReq>>
      BY <2>1, <2>3 DEF Goto
    <3> HIDE DEF r
    <3> QED
      BY <3>1, <2>1, <1>1, <1>b, MenuProceeds DEF r
  <2> QED
    BY <1>14, <2>2, <2>3 DEF DeleteMenu
<1>15. ASSUME RemoveMenu(c) PROVE IInv'
  <2>1. i \in KnownMenus /\ i \in MenuIds
    BY <1>15, <1>1, <1>2 DEF RemoveMenu, ClientOK, MenuReqOK
  <2>2. CASE /\ menu[i] # Absent
             /\ menu_plat' = menu_plat \ ({i} \X PlatIds)
             /\ menu' = [menu EXCEPT ![i] = Absent]
             /\ RedirectMenus(c, "del", i)
             /\ UNCHANGED <<plat, autoPlat, autoMenu>>
    <3> DEFINE kept == menu_plat \ ({i} \X PlatIds)
    <3>1. kept \in SUBSET menu_plat /\ \A p \in PlatIds : <<i, p>> \notin kept
      OBVIOUS
    <3>2. menu_plat' = kept \cup ({i} \X {})
      BY <2>2
    <3>3. i \in Menus /\ i \notin Menus'
      BY <2>1, <2>2 DEF Menus, SchemaTypeOK
    <3> HIDE DEF kept
    <3>4. DbOK' /\ Evolves
      <4> DEFINE row == Absent
                 added == {}
      <4>1. /\ row \in MenuRow \cup {Absent} /\ added \in SUBSET Plats
            /\ menu' = [menu EXCEPT ![i] = row]
            /\ menu_plat' = kept \cup ({i} \X added)
            /\ added = {}
        BY <3>2, <2>2
      <4>2. autoMenu' = autoMenu /\ UNCHANGED <<plat, autoPlat>>
        BY <2>2
      <4> HIDE DEF row, added
      <4> QED
        BY <4>1, <4>2, <3>1, <3>3, <2>1, MenuWritten
    <3>5. i \in KnownMenus'
      BY <3>4, <2>1 DEF Evolves
    <3> QED
      BY <3>3, <3>4, <3>5, <2>2, <1>2, <1>4, RedirectMenusOK, OneClientStep
  <2>3. CASE EndMenu(c, "stale", 0) /\ UNCHANGED dbVars
    BY <2>3, <1>5 DEF Errors
  <2> QED
    BY <1>15, <2>2, <2>3 DEF RemoveMenu, dbVars
<1>16. ASSUME ListMenus(c) PROVE IInv'
  <2> DEFINE v == IF page[c].view = "del" \/ page[c].id \in Menus
                  THEN page[c].view ELSE "template"
  <2>1. UNCHANGED dbVars /\ EndMenu(c, v, page[c].id)
    BY <1>16 DEF ListMenus
  <2>2. /\ page[c].view \in Alerts /\ page[c].id \in Nat
        /\ page[c].view = "del" => page[c].id \in KnownMenus /\ page[c].id \notin Menus
    BY <1>16, <1>1 DEF ListMenus, ClientOK, PageOK, PageRecord
  <2>3. /\ v \in Views /\ v # "detail"
        /\ v = "del" => page[c].id \in KnownMenus /\ page[c].id \notin Menus
    BY <2>2, <1>3 DEF Alerts
  <2> HIDE DEF v
  <2> QED
    BY <2>1, <2>2, <2>3, SameTables, EndMenuOK, OneClientStep
<1>17. ASSUME FailMenu(c) PROVE IInv'
  <2>1. EndMenu(c, "failure", 0) /\ "failure" \in Errors
    BY <1>17 DEF FailMenu, Errors
  <2>2. CASE UNCHANGED dbVars
    BY <1>5, <2>1, <2>2
  <2>3. CASE autoMenu' = autoMenu + 1 /\ UNCHANGED <<plat, menu, menu_plat, autoPlat>>
    BY <2>1, <2>3, <1>3, SkippedMenuKey, EndMenuOK, OneClientStep DEF Errors
  <2> QED
    BY <1>17, <2>2, <2>3 DEF FailMenu, dbVars
<1> QED
  BY <1>6, <1>7, <1>8, <1>9, <1>10, <1>11, <1>12, <1>13, <1>14, <1>15, <1>16, <1>17
  DEF MenuServer

-----------------------------------------------------------------------------
\* The inductive invariant holds in every state of every interleaving of the
\* requests of both controllers.
THEOREM Invariance == Spec => []IInv
<1>1. IInv /\ [Next]_vars => IInv'
  <2> SUFFICES ASSUME IInv, [Next]_vars PROVE IInv'
    OBVIOUS
  <2>1. CASE Next
    BY <2>1, PlatUserStep, MenuUserStep, PlatServerStep, MenuServerStep
    DEF Next, UserStep, ServerStep
  <2>2. CASE UNCHANGED vars
    <3>1. UNCHANGED <<dbVars, pc, page, platReq, menuReq>>
      BY <2>2 DEF vars, webVars
    <3>2. \A c \in Clients : ClientOK(c)'
      BY <3>1, SameTables, OtherClient DEF IInv
    <3>3. DbOK'
      BY <3>1, SameTables
    <3> QED
      BY <3>1, <3>2, <3>3 DEF IInv, TypeOK, WebTypeOK, DbOK
  <2> QED
    BY <2>1, <2>2
<1> QED
  BY <1>1, InitIInv, PTL DEF Spec

\* Every variable keeps its type: in particular no request ever names a row
\* under a key that its table cannot hold.
THEOREM TypeCorrect == Spec => []TypeOK
BY Invariance, PTL DEF IInv

\* menu_plat never pairs a menu or a dish that does not exist, although
\* saveMenu looks the dishes up long before it inserts the pairs and dishes
\* are deleted meanwhile.
THEOREM ReferentialIntegrity == Spec => []Integrity
<1>1. IInv => Integrity
  BY DEF IInv, DbOK
<1> QED
  BY <1>1, Invariance, PTL

\* No interleaving of saves mixes the columns of two submitted dishes.
THEOREM PlatsNeverTorn == Spec => []NoTornPlat
<1>1. IInv => NoTornPlat
  BY DEF IInv, DbOK
<1> QED
  BY <1>1, Invariance, PTL

\* A deletion alert is only ever on display while its row is gone.
THEOREM DeletionAlertsTruthful == Spec => []DeletionAlertTruthful
<1>1. IInv => DeletionAlertTruthful
  BY DEF IInv, ClientOK, PageOK, DeletionAlertTruthful
<1> QED
  BY <1>1, Invariance, PTL
=============================================================================
