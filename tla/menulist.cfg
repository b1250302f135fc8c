SPECIFICATION Spec
CONSTANTS
    Null = Null
    MenuIds <- FiveMenus
    Nom <- Names
    Prix <- Prices
    Plats <- Dishes
    NbCalories <- Calories
    NomPlat <- DishNames
    IntBits = 4
    TieOrders <- BothWays
    ScanOrder <- AsStored
    FilterForms <- AnyFilter
    Sizes = {1, 2, 4}
    DefaultSize = 2
INVARIANTS SearchWalkComplete SortSpansPages OutsideOnlyByOverflow MenuLinksLeadToRows
