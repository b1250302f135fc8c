SPECIFICATION Spec
CONSTANTS
    Absent = Absent
    PlatIds = {1, 2, 3}
    MenuIds = {1, 2}
    Noms <- Names
    InitPlat <- AllDishes
    InitMenu <- OneMenu
    InitMenuPlat <- MenuOfDish1
    InitAutoPlat = 4
    InitAutoMenu = 2
    Clients = {c1, c2}
    MayFail = FALSE
    PlatForms <- NoForms
    MenuForms <- OneMenuForm
    Selections <- Overlapping
SYMMETRY ClientSymmetry
INVARIANTS CompositionNotMixed
