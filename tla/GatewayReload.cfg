CONSTANTS
    Updaters = {u1, u2, u3}
    File = file
    None = None
    MaxGens = 3
SPECIFICATION FairSpec
CHECK_DEADLOCK FALSE
INVARIANTS
    OneReloadPerGeneration
    ApiAddressFree
PROPERTIES
    ReloadFinishes
