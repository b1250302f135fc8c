---------------------------- MODULE Consultation ----------------------------
(***************************************************************************)
(* The request of Rendering beside the application itself: somebody looks  *)
(* at the list of menus, or at the details of one, while the requests of   *)
(* PlatController and MenuController take their steps on the tables.       *)
(***************************************************************************)
EXTENDS Application

CONSTANTS Filtres, PageSize

VARIABLES etat, vue, sort, filtre, liste, entites, collections, affiche, vu

\* The page is rendered from the catalogue behind the tables.  The instance is
\* one of the theorems, too, so that they can be cited for this catalogue.
Lecteur == INSTANCE RenderingProofs WITH
    plats <- plat,
    menus <- menu,
    composition <- [m \in MenuIds |-> Composition(m)],
    usedPlatIds <- KnownPlats,
    usedMenuIds <- KnownMenus,
    Nutriments <- {"nbCalories"}

consultVars == <<vars, etat, vue, sort, filtre, liste, entites, collections, affiche, vu>>

ConsultInit == Init /\ Lecteur!ReaderInit

ConsultNext ==
    \/ UNCHANGED vars /\ Lecteur!Reader
    \/ Next /\ Lecteur!Observe

ConsultSpec == ConsultInit /\ [][ConsultNext]_consultVars

\* The page is rendered as Rendering describes it, which lets the catalogue
\* change as Carte promises: the steps of the controllers, seen from the
\* request that renders, are such changes or none.
ImplementsRendering == Lecteur!PageSpec
=============================================================================
