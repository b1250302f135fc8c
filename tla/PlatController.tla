--------------------------- MODULE PlatController ---------------------------
(***************************************************************************)
(* The requests PlatController serves.  Nothing in the controller opens a  *)
(* transaction, so every repository call is a transaction of its own: the  *)
(* save of an edited dish is one step that loads the row (SavePlat) and    *)
(* one that writes what differs from it and commits (FlushPlat); other     *)
(* requests may run between the two.                                       *)
(***************************************************************************)
EXTENDS Web

CONSTANT PlatForms    \* the dishes users type into platForm.html

\* The required and min="0" attributes of the form leave only rows that the
\* CHECK constraints of plat accept.
ASSUME PlatFormsAssumption ==
    PlatForms \subseteq PlatRow /\ \A row \in PlatForms : PlatChecks(row)

VARIABLE platReq      \* the request of each browser on a dish: its id (0 for
                      \* a new dish), the row submitted, the row merge loaded

NoPlatReq == [id |-> 0, row |-> Absent, snap |-> Absent]

PlatReq == [id : PlatIds \cup {0}, row : PlatRow \cup {Absent}, snap : PlatRow \cup {Absent}]

PlatInit == platReq = [c \in Clients |-> NoPlatReq]

\* The request on a dish of browser c ends with view v.
EndPlat(c, v, i) ==
    /\ Answer(c, v, "plat", i)
    /\ platReq' = [platReq EXCEPT ![c] = NoPlatReq]

\* The response redirects to /plats with these action and id parameters.
RedirectPlats(c, v, i) ==
    /\ Goto(c, "listePlats")
    /\ Show(c, v, "plat", i)
    /\ platReq' = [platReq EXCEPT ![c] = NoPlatReq]

-----------------------------------------------------------------------------
\* GET /platEdit: the form of a new dish, or of a dish that still exists.
EditPlat(c, i) ==
    /\ pc[c] = "page"
    /\ \/ /\ i = 0 \/ i \in Plats
          /\ Goto(c, "platForm")
          /\ Show(c, "form", "plat", i)
          /\ platReq' = [platReq EXCEPT ![c].id = i]
       \/ /\ i \in KnownPlats \ Plats
          /\ EndPlat(c, "liste", 0)
    /\ UNCHANGED dbVars

\* GET /platDetail/{id}.
ShowPlatDetail(c, i) ==
    /\ pc[c] = "page"
    /\ i \in KnownPlats
    /\ EndPlat(c, IF i \in Plats THEN "detail" ELSE "liste", i)
    /\ UNCHANGED dbVars

\* The user leaves the form without submitting it ("Annuler").
LeavePlatForm(c) ==
    /\ pc[c] = "platForm"
    /\ EndPlat(c, "liste", 0)
    /\ UNCHANGED dbVars

\* The user submits the form.
SubmitPlat(c, row) ==
    /\ pc[c] = "platForm"
    /\ Goto(c, "savePlat")
    /\ platReq' = [platReq EXCEPT ![c].row = row]
    /\ UNCHANGED <<dbVars, page>>

MutPersistPlatReusesKey(c) ==
    /\ pc[c] = "savePlat"
    /\ platReq[c].id = 0
    /\ \E p \in KnownPlats \ Plats :
          /\ plat' = [plat EXCEPT ![p] = platReq[c].row]
          /\ RedirectPlats(c, "new", p)
    /\ UNCHANGED <<menu, menu_plat, autoPlat, autoMenu>>

\* savePlat on an entity without id: persist inserts the row under the next
\* AUTO_INCREMENT value.
PersistPlat(c) ==
    /\ pc[c] = "savePlat"
    /\ platReq[c].id = 0
    /\ autoPlat \in PlatIds
    /\ plat' = [plat EXCEPT ![autoPlat] = platReq[c].row]
    /\ autoPlat' = autoPlat + 1
    /\ RedirectPlats(c, "new", autoPlat)
    /\ UNCHANGED <<menu, menu_plat, autoMenu>>

\* The bound on the keys of plat: AUTO_INCREMENT is exhausted and the insert
\* is refused.
PersistPlatExhausted(c) ==
    /\ pc[c] = "savePlat"
    /\ platReq[c].id = 0
    /\ autoPlat \notin PlatIds
    /\ EndPlat(c, "integrity", 0)
    /\ UNCHANGED dbVars

\* savePlat on an entity with an id: merge loads the row, and refuses to
\* merge into a row that no longer exists.
MergePlat(c) ==
    LET i == platReq[c].id IN
    /\ pc[c] = "savePlat"
    /\ i # 0
    /\ \/ /\ plat[i] # Absent
          /\ Goto(c, "flushPlat")
          /\ platReq' = [platReq EXCEPT ![c].snap = plat[i]]
          /\ UNCHANGED page
       \/ /\ plat[i] = Absent
          /\ EndPlat(c, "stale", 0)
    /\ UNCHANGED dbVars

\* The row an UPDATE of dish r.id leaves: every column is written, not only
\* those that differ from the row loaded (Plat has no @DynamicUpdate).
MutUpdatesDirtyColumns(r) ==
    [nom |-> IF r.row.nom # r.snap.nom THEN r.row.nom ELSE plat[r.id].nom,
     nbCalories |-> IF r.row.nbCalories # r.snap.nbCalories
                    THEN r.row.nbCalories ELSE plat[r.id].nbCalories]

UpdatedPlat(r) == r.row

\* Whether the UPDATE finds its row.
UpdateFindsPlat(r) == plat[r.id] # Absent

\* The flush of the merge.  An entity equal to the row loaded is not written;
\* an UPDATE that finds no row is an optimistic locking failure.
FlushPlat(c) ==
    LET r == platReq[c] IN
    /\ pc[c] = "flushPlat"
    /\ \/ /\ r.row = r.snap
          /\ RedirectPlats(c, "mod", r.id)
          /\ UNCHANGED plat
       \/ /\ r.row # r.snap
          /\ UpdateFindsPlat(r)
          /\ plat' = [plat EXCEPT ![r.id] = UpdatedPlat(r)]
          /\ RedirectPlats(c, "mod", r.id)
       \/ /\ r.row # r.snap
          /\ ~UpdateFindsPlat(r)
          /\ EndPlat(c, "stale", 0)
          /\ UNCHANGED plat
    /\ UNCHANGED <<menu, menu_plat, autoPlat, autoMenu>>

\* The user follows "Supprimer" on the form or on the page of a dish.
AskDeletePlat(c) ==
    /\ \/ /\ pc[c] = "platForm"
          /\ platReq[c].id # 0
          /\ UNCHANGED platReq
       \/ /\ pc[c] = "page"
          /\ page[c].view = "detail"
          /\ page[c].table = "plat"
          /\ platReq' = [platReq EXCEPT ![c].id = page[c].id]
    /\ Goto(c, "deletePlat")
    /\ UNCHANGED <<dbVars, page>>

MutDeletePlatForgets(c) ==
    /\ pc[c] = "deletePlat"
    /\ RedirectPlats(c, "del", platReq[c].id)
    /\ UNCHANGED dbVars

\* deletePlat: deleteById looks the dish up, and does nothing if it is gone.
DeletePlat(c) ==
    LET i == platReq[c].id IN
    /\ pc[c] = "deletePlat"
    /\ \/ /\ plat[i] # Absent
          /\ Goto(c, "removePlat")
          /\ UNCHANGED <<page, platReq>>
       \/ /\ plat[i] = Absent
          /\ RedirectPlats(c, "del", i)
    /\ UNCHANGED dbVars

\* The flush of the removal: refused while a menu references the dish, an
\* optimistic locking failure if somebody else deleted it first.
RemovePlat(c) ==
    LET i == platReq[c].id IN
    /\ pc[c] = "removePlat"
    /\ \/ /\ plat[i] # Absent
          /\ ~Referenced(i)
          /\ plat' = [plat EXCEPT ![i] = Absent]
          /\ RedirectPlats(c, "del", i)
       \/ /\ plat[i] # Absent
          /\ Referenced(i)
          /\ EndPlat(c, "integrity", 0)
          /\ UNCHANGED plat
       \/ /\ plat[i] = Absent
          /\ EndPlat(c, "stale", 0)
          /\ UNCHANGED plat
    /\ UNCHANGED <<menu, menu_plat, autoPlat, autoMenu>>

\* GET /plats after a redirect.  The alert of a creation or modification
\* shows plat.nom; with the dish gone the model has no "plat" and the view
\* fails.  A deletion is redirected without id.
ListePlats(c) ==
    /\ pc[c] = "listePlats"
    /\ EndPlat(c, IF page[c].view = "del" \/ page[c].id \in Plats
                  THEN page[c].view ELSE "template", page[c].id)
    /\ UNCHANGED dbVars

\* The request dies: process crash, lost connection, lock timeout.  The
\* transaction in progress, if any, is rolled back, but not the AUTO_INCREMENT
\* value that its INSERT may have used up.
FailPlat(c) ==
    /\ MayFail
    /\ pc[c] \in PlatSteps
    /\ EndPlat(c, "failure", 0)
    /\ \/ UNCHANGED autoPlat
       \/ /\ pc[c] = "savePlat"
          /\ platReq[c].id = 0
          /\ autoPlat \in PlatIds
          /\ autoPlat' = autoPlat + 1
    /\ UNCHANGED <<plat, menu, menu_plat, autoMenu>>

PlatUser(c) ==
    \/ \E i \in PlatIds \cup {0} : EditPlat(c, i) \/ ShowPlatDetail(c, i)
    \/ LeavePlatForm(c)
    \/ \E row \in PlatForms : SubmitPlat(c, row)
    \/ AskDeletePlat(c)

PlatServer(c) ==
    \/ PersistPlat(c)
    \/ PersistPlatExhausted(c)
    \/ MergePlat(c)
    \/ FlushPlat(c)
    \/ DeletePlat(c)
    \/ RemovePlat(c)
    \/ ListePlats(c)
    \/ FailPlat(c)
=============================================================================
