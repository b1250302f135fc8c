SPECIFICATION Spec
CONSTANTS
    Absent = Absent
    PlatIds = {1, 2}
    MenuIds = {1, 2}
    Noms <- Names
    InitPlat <- AllDishes
    InitMenu <- OneMenu
    InitMenuPlat <- MenuOfDish1
    InitAutoPlat = 3
    InitAutoMenu = 2
    Clients = {c1, c2}
    MayFail = FALSE
    PlatForms <- OneDishForm
    MenuForms <- OneMenuForm
    Selections <- AnySelection
SYMMETRY ClientSymmetry
INVARIANTS SaveIsAnnounced
