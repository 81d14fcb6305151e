CONSTANTS
    r = r
    q = q
    f = f
    Receivers = {r, q}
    Fetchers = {f}
    Stream = r
    Size <- MCSize
    BufCap = 1
    MaxChanges = 2
SPECIFICATION StreamFairSpec
CHECK_DEADLOCK FALSE
INVARIANTS
    SubscriberCurrent
    ReportedComplete
    PanicOnlyAtShutdown
PROPERTIES
    FetchCatchesUp
    EveryUpdateHandled
