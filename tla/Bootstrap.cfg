CONSTANTS
    r1 = r1
    r2 = r2
    r3 = r3
    t1 = t1
    t2 = t2
    metrics = metrics
    logs = logs
    Requests = {r1, r2, r3}
    Tokens = {t1, t2}
    TokenOf <- MCTokenOf
    JoinTokens = {t2}
    CapOf <- MCCapOf
    Logs = logs
    MaxFaults = 1
    MaxDeletes = 1
SPECIFICATION Spec
INVARIANTS
    SettledKept
    CrdsAckedKept
    InstalledIsServed
    HalfBootstrapReported
PROPERTIES
    EditNeedsJoin
