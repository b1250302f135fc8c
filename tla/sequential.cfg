SPECIFICATION Spec
CONSTANTS
    Absent = Absent
    PlatIds = {1, 2, 3}
    MenuIds = {1, 2}
    Noms <- Names
    InitPlat <- TwoDishes
    InitMenu <- OneMenu
    InitMenuPlat <- MenuOfDish1
    InitAutoPlat = 3
    InitAutoMenu = 2
    Clients = {c1}
    MayFail = TRUE
    PlatForms <- OneDishForm
    MenuForms <- MenuAndLong
    Selections <- Overlapping
INVARIANTS IInv ComposedAsSelected RowsChecked
