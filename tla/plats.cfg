SPECIFICATION Spec
CONSTANTS
    Absent = Absent
    PlatIds = {1, 2}
    MenuIds = {}
    Noms <- Names
    InitPlat <- OneDish
    InitMenu <- NoMenu
    InitMenuPlat <- NoPairs
    InitAutoPlat = 2
    InitAutoMenu = 1
    Clients = {c1, c2}
    MayFail = TRUE
    PlatForms <- DishForms
    MenuForms <- NoForms
    Selections <- NoForms
SYMMETRY ClientSymmetry
INVARIANTS NoTornPlat DeletionAlertTruthful
PROPERTIES ImplementsCarte DeletedForGood
