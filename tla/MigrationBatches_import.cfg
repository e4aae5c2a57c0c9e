SPECIFICATION FairSpec
CONSTANTS
    Batch = {1, 2}
    Run = {1, 2}
    File = {1, 2}
    Copies <- Twins
    Alike <- Twins
    Confident = {1}
    MaxFaults = 1
CHECK_DEADLOCK FALSE
INVARIANTS
    TotalsAgree
    PurgeIsComplete
    OneLiveImport
PROPERTIES
    RollbackHolds
    BatchEnds
