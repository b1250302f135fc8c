------------------------------ MODULE MenuForm ------------------------------
(***************************************************************************)
(* The form of one menu in one browser: menuForm.html with its script, and *)
(* the two reads of editMenu that fill it.  Other browsers change the      *)
(* dishes and the menu meanwhile, also between the two reads.              *)
(*                                                                         *)
(* The items of a list are represented by the identifiers of their dishes. *)
(***************************************************************************)
EXTENDS Integers, FiniteSets, Functions

CONSTANTS
    Dishes,       \* identifiers dishes may have
    Calories,     \* nbCalories of each dish
    Lipides,      \* nbLipides of each dish
    Filters       \* for each filter on the dishes, those it retains

ASSUME FormAssumption == Filters \subseteq SUBSET Dishes

VARIABLES
    etat,           \* what the browser shows, and whether it waits for /edit
    plats,          \* the dishes in the database
    composition,    \* the dishes of the menu in the database
    nouveau,        \* the menu has not been saved yet
    model,          \* the dishes editMenu read, to be offered by the view
    choix,          \* history: the dishes selected when a filter was submitted
    available,      \* #availablePlatsList
    selected,       \* #selectedPlatsList
    retirables,     \* the dishes whose button calls retirerPlat, not ajouterPlat
    totals,         \* the three totals displayed
    hidden          \* #hiddenPlatInputs, what a submission sends as platIds

dbVars == <<plats, composition, nouveau>>
readVars == <<model, choix>>
listVars == <<available, selected, retirables>>
formVars == <<listVars, totals, hidden>>
vars == <<etat, dbVars, readVars, formVars>>

\* Before the form, waiting for it, showing it, waiting for it with the dishes
\* filtered (the form stays on the screen meanwhile).
Etats == {"ailleurs", "ouverture", "formulaire", "filtrage"}

\* Totals of a set of dishes.
Totals(s) == [plats |-> Cardinality(s),
              calories |-> SumFunctionOnSet(Calories, s),
              lipides |-> SumFunctionOnSet(Lipides, s)]

MutUpdateTotalsOnly(sel) == totals' = Totals(sel) /\ UNCHANGED hidden

\* updateTotals, which ends with updateHiddenInputs: both read the list of
\* selected dishes as the click has just left it.
UpdateTotals(sel) == totals' = Totals(sel) /\ hidden' = sel

-----------------------------------------------------------------------------
\* The database changes under the form: other browsers create and delete
\* dishes and save the menu; away from the form, also the save that this
\* browser submitted, with any outcome, and the choice of another menu.
Elsewhere(ps, comp, new) ==
    /\ comp \subseteq ps
    /\ new => comp = {}
    /\ etat # "ailleurs" => new = nouveau
    /\ plats' = ps
    /\ composition' = comp
    /\ nouveau' = new
    /\ UNCHANGED <<etat, readVars, formVars>>

\* GET /edit: "Nouveau Menu" or "Editer".  editMenu reads the dishes.
Open ==
    /\ etat = "ailleurs"
    /\ etat' = "ouverture"
    /\ model' = plats
    /\ UNCHANGED <<choix, dbVars, formVars>>

\* "Filtrer les plats": the other form of the page requests /edit anew, with
\* the criteria and nothing of what was selected.
Filter(f) ==
    /\ etat = "formulaire"
    /\ etat' = "filtrage"
    /\ model' = plats \cap f
    /\ choix' = selected
    /\ UNCHANGED <<dbVars, formVars>>

\* The view loads menu.plats, lists them, offers the other dishes read, and
\* the script computes the totals on DOMContentLoaded.
Render ==
    /\ etat \in {"ouverture", "filtrage"}
    /\ etat' = "formulaire"
    /\ available' = model \ composition
    /\ selected' = composition
    /\ retirables' = composition
    /\ UpdateTotals(selected')
    /\ choix' = {}
    /\ UNCHANGED <<dbVars, model>>

\* The handler of the button of dish p: the item is taken out of the list it
\* is in and appended to the list of selected dishes.
ajouterPlat(p) ==
    /\ p \in (available \cup selected) \ retirables
    /\ retirables' = retirables \cup {p}
    /\ available' = available \ {p}
    /\ selected' = selected \cup {p}
    /\ UpdateTotals(selected')

MutRetirerPlatKeepsButton(p) ==
    /\ p \in (available \cup selected) \cap retirables
    /\ available' = available \cup {p}
    /\ selected' = selected \ {p}
    /\ UpdateTotals(selected')
    /\ UNCHANGED retirables

retirerPlat(p) ==
    /\ p \in (available \cup selected) \cap retirables
    /\ retirables' = retirables \ {p}
    /\ available' = available \cup {p}
    /\ selected' = selected \ {p}
    /\ UpdateTotals(selected')

\* A click on the button of dish p; the page stays usable while it waits for
\* the filtered one.
Click(p) ==
    /\ etat \in {"formulaire", "filtrage"}
    /\ ajouterPlat(p) \/ retirerPlat(p)
    /\ UNCHANGED <<etat, dbVars, readVars>>

validateMenuSelection == selected # {}

\* "Enregistrer": the browser sends the hidden inputs to saveMenu and leaves
\* the page.  What saveMenu then does takes several steps, which overlap with
\* those of others: MenuController models them.
Submit ==
    /\ etat \in {"formulaire", "filtrage"}
    /\ validateMenuSelection
    /\ etat' = "ailleurs"
    /\ UNCHANGED <<dbVars, readVars, formVars>>

\* "Annuler", a link of the navigation bar, or the list instead of the form
\* when the menu has been deleted.
Leave ==
    /\ etat # "ailleurs"
    /\ etat' = "ailleurs"
    /\ UNCHANGED <<dbVars, readVars, formVars>>

Init ==
    /\ etat = "ailleurs"
    /\ plats \in SUBSET Dishes
    /\ nouveau \in BOOLEAN
    /\ composition \in SUBSET plats
    /\ nouveau => composition = {}
    /\ model = {}
    /\ choix = {}
    /\ available = {}
    /\ selected = {}
    /\ retirables = {}
    /\ totals = Totals({})
    /\ hidden = {}

Next ==
    \/ \E ps \in SUBSET Dishes : \E comp \in SUBSET ps, new \in BOOLEAN :
          Elsewhere(ps, comp, new)
    \/ Open
    \/ \E f \in Filters : Filter(f)
    \/ Render
    \/ \E p \in Dishes : Click(p)
    \/ Submit
    \/ Leave

Spec == Init /\ [][Next]_vars

-----------------------------------------------------------------------------
\* While the form is on the screen, after any clicks, reloads and changes made
\* elsewhere: a dish is in one list only, its button moves it to the other
\* one, and the totals and the hidden inputs are those of the selected dishes.
FormCoherent ==
    etat \in {"formulaire", "filtrage"} =>
        /\ available \cap selected = {}
        /\ retirables = selected
        /\ hidden = selected
        /\ totals = Totals(selected)

\* Whatever is clicked, and whatever happens to the dishes elsewhere, the form
\* lists the dishes it was rendered with until it is rendered again, and what
\* it submits is exactly what it shows as selected, at least one dish: what
\* MenuController takes for granted of a submission.
SubmitsAsOffered ==
    [][/\ etat \in {"formulaire", "filtrage"} /\ ~Render =>
              (available \cup selected)' = available \cup selected
       /\ Submit => hidden = selected /\ hidden # {}]_vars

\* editMenu: the form comes "avec possibilite de filtrer les plats disponibles".
\* Filtering is about the dishes on offer: a dish that was selected when the
\* filter was submitted, and is not deleted, is still selected afterwards.
FilterKeepsSelection ==
    [][etat = "filtrage" /\ etat' = "formulaire" => choix \cap plats \subseteq selected']_vars
=============================================================================
