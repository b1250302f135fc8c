------------------------------- MODULE Schema -------------------------------
(***************************************************************************)
(* The tables of the database prjspring2025 that the application changes:  *)
(* plat, menu and the join table menu_plat, with the constraints of the    *)
(* SQL schema and the AUTO_INCREMENT counters behind the IDENTITY keys of  *)
(* the entities.  Table categorie is only ever read by the application.    *)
(*                                                                         *)
(* A table is a function from every key it may ever hold to the row stored *)
(* under that key, or to Absent.                                           *)
(***************************************************************************)
EXTENDS Integers

CONSTANTS
    PlatIds,      \* keys AUTO_INCREMENT may hand out for plat
    MenuIds,      \* keys AUTO_INCREMENT may hand out for menu
    Noms,         \* names; also stands for the columns no property tells apart
    Absent,       \* "no row under this key"
    InitPlat,     \* content of plat when the server starts
    InitMenu,     \* content of menu when the server starts
    InitMenuPlat, \* content of menu_plat when the server starts
    InitAutoPlat, \* AUTO_INCREMENT of plat when the server starts
    InitAutoMenu  \* AUTO_INCREMENT of menu when the server starts

VARIABLES
    plat,         \* table plat
    menu,         \* table menu
    menu_plat,    \* table menu_plat: pairs <<menu_id, plat_id>>
    autoPlat,     \* next AUTO_INCREMENT value of plat
    autoMenu      \* next AUTO_INCREMENT value of menu

dbVars == <<plat, menu, menu_plat, autoPlat, autoMenu>>

-----------------------------------------------------------------------------
(***************************************************************************)
(* Rows.  A plat row keeps two independent columns, so that a row mixed    *)
(* from two writes can be told from a row somebody wrote.  The description *)
(* of a menu is represented by its length and the price by its cents.      *)
(***************************************************************************)
PlatRow == [nom : Noms, nbCalories : Int]
MenuRow == [nom : Noms, description : Nat, prix : Int]

\* nb_calories int(11) NOT NULL CHECK (nb_calories >= 0)
PlatChecks(row) == row.nbCalories >= 0

\* description varchar(255), under the server's strict SQL mode
DescriptionColumn == 255

Fits(row) == row.description <= DescriptionColumn

\* prix double NOT NULL CHECK (prix >= 0)
MenuChecks(row) == Fits(row) /\ row.prix >= 0

Plats == {p \in PlatIds : plat[p] # Absent}
Menus == {m \in MenuIds : menu[m] # Absent}

\* The dishes that menu_plat gives to menu m.
Composition(m) == {p \in PlatIds : <<m, p>> \in menu_plat}

\* Some row of menu_plat references dish p, so the foreign key
\* FK5wijsn1ol92rwunymd51dlfwn refuses its deletion.
MutNeverReferenced(p) == FALSE

Referenced(p) == \E m \in MenuIds : <<m, p>> \in menu_plat

\* menu_plat accepts the pair <<m, p>>: both foreign keys resolve and the
\* primary key is not taken.
MutInsertsAnyPair(m, p) == menu[m] # Absent

Insertable(m, p) ==
    /\ menu[m] # Absent
    /\ plat[p] # Absent
    /\ <<m, p>> \notin menu_plat

\* Keys that have been handed out: the only ones a page can have linked to.
KnownPlats == {p \in PlatIds : p < autoPlat}
KnownMenus == {m \in MenuIds : m < autoMenu}

-----------------------------------------------------------------------------
(***************************************************************************)
(* What the schema guarantees of any content, in particular of the dump    *)
(* the server starts with.                                                 *)
(***************************************************************************)
RowsChecked ==
    /\ \A p \in Plats : PlatChecks(plat[p])
    /\ \A m \in Menus : MenuChecks(menu[m])

\* menu_plat only pairs menus and dishes that exist.
Integrity == \A m \in MenuIds, p \in PlatIds :
    <<m, p>> \in menu_plat => menu[m] # Absent /\ plat[p] # Absent

KeysBelowCounter ==
    /\ \A p \in Plats : p < autoPlat
    /\ \A m \in Menus : m < autoMenu

SchemaTypeOK ==
    /\ plat \in [PlatIds -> PlatRow \cup {Absent}]
    /\ menu \in [MenuIds -> MenuRow \cup {Absent}]
    /\ menu_plat \in SUBSET (MenuIds \X PlatIds)
    /\ autoPlat \in Nat
    /\ autoMenu \in Nat

SchemaInit ==
    /\ plat = InitPlat
    /\ menu = InitMenu
    /\ menu_plat = InitMenuPlat
    /\ autoPlat = InitAutoPlat
    /\ autoMenu = InitAutoMenu

-----------------------------------------------------------------------------
ASSUME KeysAssumption ==
    /\ PlatIds \subseteq Nat \ {0}
    /\ MenuIds \subseteq Nat \ {0}

ASSUME AbsentAssumption == Absent \notin PlatRow /\ Absent \notin MenuRow

\* The dump loaded into the server satisfies the schema it declares.
ASSUME InitAssumption ==
    /\ InitPlat \in [PlatIds -> PlatRow \cup {Absent}]
    /\ InitMenu \in [MenuIds -> MenuRow \cup {Absent}]
    /\ InitMenuPlat \in SUBSET (MenuIds \X PlatIds)
    /\ InitAutoPlat \in Nat
    /\ InitAutoMenu \in Nat
    /\ \A p \in PlatIds : InitPlat[p] # Absent =>
           p < InitAutoPlat /\ PlatChecks(InitPlat[p])
    /\ \A m \in MenuIds : InitMenu[m] # Absent =>
           m < InitAutoMenu /\ MenuChecks(InitMenu[m])
    /\ \A m \in MenuIds, p \in PlatIds : <<m, p>> \in InitMenuPlat =>
           InitMenu[m] # Absent /\ InitPlat[p] # Absent
=============================================================================
