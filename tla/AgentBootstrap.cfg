CONSTANTS
    r1 = r1
    r2 = r2
    t1 = t1
    metrics = metrics
    Requests = {r1, r2}
    Tokens = {t1}
    TokenOf <- MCTokenOf
    JoinTokens = {t1}
    CapOf <- MCCapOf
    Logs = logs
    None = None
    MaxFaults = 1
    MaxDeletes = 1
    AgentToken = t1
    MaxCrashes = 1
SPECIFICATION AgentFairSpec
INVARIANTS
    RunningAgentAccepted
PROPERTIES
    BootstrapsOnce
    PersistedAgentRuns
