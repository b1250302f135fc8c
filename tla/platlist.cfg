SPECIFICATION Spec
CONSTANTS
    Null = Null
    PlatIds <- FiveDishes
    Nom <- Names
    Categorie <- Categories
    NomCategorie <- CategoryNames
    Nb <- Nutrition
    TieOrders <- BothWays
    ScanOrder <- AsStored
    FilterForms <- SomeFilters
    Sizes = {1, 2, 3}
    DefaultSize = 2
INVARIANTS CalorieWalkComplete DishSortSpansPages DishLinksLeadToRows
