SPECIFICATION FairSpec
CONSTANTS
    SeqMod = 32
    OpenEnded = 64
    MaxDirect = 1
    HistorySize = 15
    MaxCharge = 2
    StormLimit = 2
    StormOps = 3
    HasResync = TRUE
    CanClose = FALSE
    MaxBatch = 2
    MaxUpdates = 1
    MaxLosses = 2
    MaxFaults = 0
    MaxStray = 0
    Ranges = {"one", "open"}
    Epochs = {0}
    StrayFrom = {}
PROPERTIES
    Repaired
CHECK_DEADLOCK FALSE
