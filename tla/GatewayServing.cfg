CONSTANTS
    Order <- MCOrder
    Routes <- MCRoutes
    Cortex <- MCCortex
    Logging <- MCLogging
    Reserved <- MCReserved
    Bootstrap <- MCBootstrap
    RulesPath <- MCRulesPath
    Tenants = {t1, t2, t3}
    MaxGroups = 2
    Calls = {c1, c2}
    Collectors = {k1, k2}
    PerCollector = 2
    Cap = 2
SPECIFICATION ServingSpec
CHECK_DEADLOCK FALSE
INVARIANTS
    RoutesReachPlugins
    RulesAnswer
    AnswerIsPrefix
PROPERTIES
    StartupCompletes
