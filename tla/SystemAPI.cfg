CONSTANTS
    p1 = p1
    p2 = p2
    p3 = p3
    Plugins = {p1, p2, p3}
    Valid = {p1, p2}
    Module <- MCModule
    Order <- MCOrder
    Sessions <- MCSessions
    Keys <- MCKeys
    Asked <- MCAsked
    Values = {1}
    Old <- MCOld
    MaxOps = 2
SPECIFICATION LiveSpec
CHECK_DEADLOCK FALSE
INVARIANTS
    NothingLeftServing
    ListsOwnKeys
PROPERTIES
    ServeEnds
