CONSTANTS
    p1 = p1
    p2 = p2
    Unset = Unset
    Bad = "bad"
    Plugins <- MCPlugins
    Package <- MCPackage
    Name <- MCName
    HasRules = {p1, p2}
    Parses = {p2}
    Calls = {k1}
    Clusters = {c1, c2}
    MaxChanges = 2
    MaxWatches = 2
SPECIFICATION ServerSpec
CHECK_DEADLOCK FALSE
INVARIANTS
    WorkingIsServed
    WatchInStep
PROPERTIES
    BothStop
    ViewCatchesUp
