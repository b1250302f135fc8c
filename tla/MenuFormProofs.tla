--------------------------- MODULE MenuFormProofs ---------------------------
(***************************************************************************)
(* Proofs about MenuForm, for any dishes, filters and nutritional values.  *)
(* FormCoherent is inductive by itself: Render establishes it and every    *)
(* handler ends with updateTotals.                                         *)
(***************************************************************************)
EXTENDS MenuForm, TLAPS

\* A click on a button of a coherent form leaves a coherent form.
LEMMA ClickCoherent ==
    ASSUME FormCoherent, NEW p \in Dishes, Click(p)
    PROVE  FormCoherent'
<1>1. /\ available \cap selected = {}
      /\ retirables = selected
  BY DEF Click, FormCoherent
<1>2. CASE ajouterPlat(p)
  BY <1>1, <1>2 DEF ajouterPlat, UpdateTotals, Click, FormCoherent, Totals
<1>3. CASE retirerPlat(p)
  BY <1>1, <1>3 DEF retirerPlat, UpdateTotals, Click, FormCoherent, Totals
<1>. QED  BY <1>2, <1>3 DEF Click

\* Every step keeps the form coherent.
LEMMA StepCoherent ==
    ASSUME FormCoherent, [Next]_vars
    PROVE  FormCoherent'
<1>1. ASSUME NEW ps, NEW comp, NEW new, Elsewhere(ps, comp, new)
      PROVE  FormCoherent'
  BY <1>1 DEF Elsewhere, formVars, listVars, FormCoherent, Totals
<1>2. CASE Open
  BY <1>2 DEF Open, FormCoherent
<1>3. ASSUME NEW f \in Filters, Filter(f)
      PROVE  FormCoherent'
  BY <1>3 DEF Filter, formVars, listVars, FormCoherent, Totals
<1>4. CASE Render
  BY <1>4 DEF Render, UpdateTotals, FormCoherent, Totals
<1>5. ASSUME NEW p \in Dishes, Click(p)
      PROVE  FormCoherent'
  BY <1>5, ClickCoherent
<1>6. CASE Submit
  BY <1>6 DEF Submit, FormCoherent
<1>7. CASE Leave
  BY <1>7 DEF Leave, FormCoherent
<1>8. CASE UNCHANGED vars
  BY <1>8 DEF vars, formVars, listVars, FormCoherent, Totals
<1>. QED  BY <1>1, <1>2, <1>3, <1>4, <1>5, <1>6, <1>7, <1>8 DEF Next

\* The lists, the buttons, the totals and the hidden inputs of menuForm.html
\* agree whenever the form is on the screen.
THEOREM Coherence == Spec => []FormCoherent
<1>1. Init => FormCoherent
  BY DEF Init, FormCoherent
<1>2. FormCoherent /\ [Next]_vars => FormCoherent'
  BY StepCoherent
<1>. QED  BY <1>1, <1>2, PTL DEF Spec

\* The form lists the same dishes until it is rendered again, and sends to
\* saveMenu exactly those it shows as selected.
THEOREM SubmissionAsOffered == Spec => SubmitsAsOffered
<1> DEFINE Kept ==
        /\ etat \in {"formulaire", "filtrage"} /\ ~Render =>
               (available \cup selected)' = available \cup selected
        /\ Submit => hidden = selected /\ hidden # {}
<1>1. ASSUME FormCoherent, [Next]_vars PROVE [Kept]_vars
  <2> SUFFICES ASSUME Next PROVE Kept
    BY <1>1
  <2>1. Submit => hidden = selected /\ hidden # {}
    BY <1>1 DEF Submit, validateMenuSelection, FormCoherent
  <2>2. ASSUME etat \in {"formulaire", "filtrage"}, NEW p \in Dishes, Click(p)
        PROVE  (available \cup selected)' = available \cup selected
    <3>1. p \in available \cup selected
      BY <2>2 DEF Click, ajouterPlat, retirerPlat
    <3>2. CASE ajouterPlat(p)
      BY <3>1, <3>2 DEF ajouterPlat
    <3>3. CASE retirerPlat(p)
      BY <3>1, <3>3 DEF retirerPlat
    <3> QED
      BY <2>2, <3>2, <3>3 DEF Click
  <2>3. ~Render /\ (\A p \in Dishes : ~Click(p)) => UNCHANGED <<available, selected>>
    BY DEF Next, Elsewhere, Open, Filter, Submit, Leave, formVars, listVars
  <2> QED
    BY <2>1, <2>2, <2>3
<1> QED
  BY <1>1, Coherence, PTL DEF Spec, SubmitsAsOffered
=============================================================================
