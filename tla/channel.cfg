SPECIFICATION Spec
CONSTANTS
    SeqMod = 8
    OpenEnded = 32
    MaxDirect = 2
    HistorySize = 3
    MaxCharge = 2
    StormLimit = 3
    StormOps = 3
    HasResync = TRUE
    CanClose = TRUE
    MaxBatch = 2
    MaxUpdates = 1
    MaxLosses = 1
    MaxFaults = 1
    MaxStray = 1
    Ranges = {"rest"}
    Epochs = {1}
    StrayFrom = {2}
INVARIANTS
    TypeOK
    HistoryIsSuffix
    ReplayExact
    AtMostOneSlip
    StaleDrawnOver
CHECK_DEADLOCK FALSE
