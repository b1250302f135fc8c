-------------------------------- MODULE Web ---------------------------------
(***************************************************************************)
(* What the two controllers share: a set of browsers, each with at most    *)
(* one request in flight, served concurrently by the container's threads.  *)
(*                                                                         *)
(* pc[c] is the step the request of browser c has reached; "page" means    *)
(* that no request is in flight and browser c shows page[c].  While a      *)
(* redirect is being followed page[c] holds its action and id parameters.  *)
(***************************************************************************)
EXTENDS Schema

CONSTANTS
    Clients,      \* the browsers
    MayFail       \* whether a request may die (crash, lost connection, deadlock victim)

ASSUME MayFailAssumption == MayFail \in BOOLEAN

VARIABLES
    pc,           \* step reached by the request of each browser
    page          \* page shown (or being redirected to) in each browser

webVars == <<pc, page>>

\* Steps in which a form is open and the user, not the server, moves next.
FormSteps == {"platForm", "menuForm"}

\* Steps in which the server owes the browser an answer.
PlatSteps == {"savePlat", "flushPlat", "deletePlat", "removePlat", "listePlats"}
MenuSteps == {"editMenu", "menuView", "saveMenu", "flushMenu", "deleteMenu", "removeMenu", "listMenus"}
ServerSteps == PlatSteps \cup MenuSteps

\* The success alerts of plats.html and menus.html.
Alerts == {"new", "mod", "del"}

\* Error pages, by the exception behind the HTTP 500: an optimistic locking
\* failure, a constraint violation, a value too long for its column, a
\* failure while rendering the view, a failure of the server itself.
Errors == {"stale", "integrity", "tooLong", "template", "failure"}

Views == {"home", "liste", "form", "detail"} \cup Alerts \cup Errors

Tables == {"plat", "menu"}

PageRecord == [view : Views, table : Tables, id : Nat]

WebTypeOK ==
    /\ pc \in [Clients -> {"page"} \cup FormSteps \cup ServerSteps]
    /\ page \in [Clients -> PageRecord]

\* GET / renders the static view "home".
Home == [view |-> "home", table |-> "menu", id |-> 0]

WebInit ==
    /\ pc = [c \in Clients |-> "page"]
    /\ page = [c \in Clients |-> Home]

Goto(c, step) == pc' = [pc EXCEPT ![c] = step]

Show(c, v, t, i) == page' = [page EXCEPT ![c] = [view |-> v, table |-> t, id |-> i]]

\* The request ends and its answer is displayed.
Answer(c, v, t, i) == Goto(c, "page") /\ Show(c, v, t, i)
=============================================================================
