CONSTANTS
    r1 = r1
    r2 = r2
    t1 = t1
    t2 = t2
    u1 = u1
    u2 = u2
    Requests = {r1, r2}
    Tokens = {t1, t2}
    Users = {u1, u2}
    IdToken = idtoken
    NoHeader = noheader
    None = None
    MaxChanges = 2
    MaxRetries = 2
SPECIFICATION FairSpec
CHECK_DEADLOCK FALSE
INVARIANTS
    OneTokenPerUser
PROPERTIES
    RequestsAnswered
