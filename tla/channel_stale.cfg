SPECIFICATION Spec
CONSTANTS
    SeqMod = 8
    OpenEnded = 32
    MaxDirect = 2
    HistorySize = 3
    MaxCharge = 2
    StormLimit = 3
    StormOps = 3
    HasResync = TRUE
    CanClose = FALSE
    MaxBatch = 2
    MaxUpdates = 2
    MaxLosses = 1
    MaxFaults = 0
    MaxStray = 0
    Ranges = {"one"}
    Epochs = {1}
    StrayFrom = {}
INVARIANTS
    NoStaleReplay
CHECK_DEADLOCK FALSE
