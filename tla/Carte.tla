------------------------------- MODULE Carte --------------------------------
(***************************************************************************)
(* What the application promises of its catalogue, whatever browsers do    *)
(* and however their requests overlap: each dish and each menu is created  *)
(* once, under an identifier never used before, is replaced as a whole,    *)
(* and once removed never comes back; a menu consists of dishes that       *)
(* exist, and changes its row and its dishes in one atomic step; a dish    *)
(* that a menu uses is not removed.                                        *)
(***************************************************************************)
CONSTANTS PlatIds, MenuIds, PlatRows, MenuRows, Absent

VARIABLES
    plats,        \* the dish under each identifier, or Absent
    menus,        \* the menu under each identifier, or Absent
    composition,  \* the dishes of each menu
    usedPlatIds,  \* identifiers already given to a dish
    usedMenuIds   \* identifiers already given to a menu

vars == <<plats, menus, composition, usedPlatIds, usedMenuIds>>

Existing(table) == {i \in DOMAIN table : table[i] # Absent}

Init ==
    /\ plats \in [PlatIds -> PlatRows \cup {Absent}]
    /\ menus \in [MenuIds -> MenuRows \cup {Absent}]
    /\ composition \in [MenuIds -> SUBSET Existing(plats)]
    /\ \A m \in MenuIds : menus[m] = Absent => composition[m] = {}
    /\ usedPlatIds \in SUBSET PlatIds
    /\ usedMenuIds \in SUBSET MenuIds
    /\ Existing(plats) \subseteq usedPlatIds
    /\ Existing(menus) \subseteq usedMenuIds

CreatePlat(p, row) ==
    /\ p \notin usedPlatIds
    /\ plats' = [plats EXCEPT ![p] = row]
    /\ usedPlatIds' = usedPlatIds \cup {p}
    /\ UNCHANGED <<menus, composition, usedMenuIds>>

\* A creation that fails may use up an identifier.
SkipPlatId(p) ==
    /\ usedPlatIds' = usedPlatIds \cup {p}
    /\ UNCHANGED <<plats, menus, composition, usedMenuIds>>

ModifyPlat(p, row) ==
    /\ plats[p] # Absent
    /\ plats' = [plats EXCEPT ![p] = row]
    /\ UNCHANGED <<menus, composition, usedPlatIds, usedMenuIds>>

RemovePlat(p) ==
    /\ plats[p] # Absent
    /\ \A m \in MenuIds : p \notin composition[m]
    /\ plats' = [plats EXCEPT ![p] = Absent]
    /\ UNCHANGED <<menus, composition, usedPlatIds, usedMenuIds>>

CreateMenu(m, row, dishes) ==
    /\ m \notin usedMenuIds
    /\ menus' = [menus EXCEPT ![m] = row]
    /\ composition' = [composition EXCEPT ![m] = dishes]
    /\ usedMenuIds' = usedMenuIds \cup {m}
    /\ UNCHANGED <<plats, usedPlatIds>>

SkipMenuId(m) ==
    /\ usedMenuIds' = usedMenuIds \cup {m}
    /\ UNCHANGED <<plats, menus, composition, usedPlatIds>>

ModifyMenu(m, row, dishes) ==
    /\ menus[m] # Absent
    /\ menus' = [menus EXCEPT ![m] = row]
    /\ composition' = [composition EXCEPT ![m] = dishes]
    /\ UNCHANGED <<plats, usedPlatIds, usedMenuIds>>

RemoveMenu(m) ==
    /\ menus[m] # Absent
    /\ menus' = [menus EXCEPT ![m] = Absent]
    /\ composition' = [composition EXCEPT ![m] = {}]
    /\ UNCHANGED <<plats, usedPlatIds, usedMenuIds>>

Next ==
    \/ \E p \in PlatIds :
          \/ \E row \in PlatRows : CreatePlat(p, row) \/ ModifyPlat(p, row)
          \/ SkipPlatId(p)
          \/ RemovePlat(p)
    \/ \E m \in MenuIds :
          \/ \E row \in MenuRows, dishes \in SUBSET Existing(plats) :
                CreateMenu(m, row, dishes) \/ ModifyMenu(m, row, dishes)
          \/ SkipMenuId(m)
          \/ RemoveMenu(m)

Spec == Init /\ [][Next]_vars
=============================================================================
