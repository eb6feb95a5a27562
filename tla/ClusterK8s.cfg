SPECIFICATION Spec
CONSTANTS
    NGroups = 2
    Size = 1
    Collections = {k1, k2}
    Elsewhere = 1
    Workers = 4
    SemCap = 1
    KeepService = {TRUE, FALSE}
    Faults = TRUE
INVARIANTS TypeOK EndSound NothingLeft
PROPERTIES RunReturns CollectionEnds
CHECK_DEADLOCK FALSE
