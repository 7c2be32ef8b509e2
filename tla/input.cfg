SPECIFICATION InputSpec
CONSTANTS
    Held = {"left"}
    Wheels <- MCWheels
    Deltas <- MCDeltas
    MaxSteps = 2
    MaxEvents = 3
    MaxLinks = 2
    Ordinary <- MCOrdinary
    Modifiers <- MCModifiers
    Interactive = {1, 2}
    MaxSessions = 2
    MaxReports = 3
    MaxDials = 2
INVARIANTS
    TypeOK
    WaitingIsNewest
    WheelExact
    KeysTypeOK
    KeysAgree
PROPERTIES
    PositionArrives
    ChordKept
    ReaderFreed
CHECK_DEADLOCK FALSE
