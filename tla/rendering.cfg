SPECIFICATION BoundedSpec
CONSTANTS
    PlatIds = {p1, p2}
    MenuIds = {m1, m2}
    PlatRows <- TwoRows
    MenuRows = {menu}
    Absent = Absent
    Nutriments <- TwoNutriments
    Filtres <- TwoRanges
    PageSize = 2
    MaxSeen = 3
SYMMETRY IdSymmetry
INVARIANTS PageAgrees SortedAsShown NothingStale OutsideOnlyIfChanged
