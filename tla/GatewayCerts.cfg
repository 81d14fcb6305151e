CONSTANTS
    Specs = {s1, s2, nosuchauth, badport}
    Unsupported = {nosuchauth}
    Unusable = {badport}
    None = None
    Initial = {s1, None}
    Deletable = {"gatewayCA", "service"}
    Failing = {"configMap", "cortexClientCAIssuer", "roleBinding"}
    MaxEdits = 1
    MaxTroubles = 1
SPECIFICATION FairCertsSpec
CHECK_DEADLOCK FALSE
INVARIANTS
    OneReading
PROPERTIES
    Converges
    PodsCanStart
