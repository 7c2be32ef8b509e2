SPECIFICATION ComponentsSpec
CONSTANTS
    MaxDatagram = 40
    WideImage = 4
    CursorBytes = 20
    ScreenSize <- MCScreenSize
    Images <- MCImages
    MaxFrames = 3
    Screens <- MCScreens
    FrameSizes <- MCFrameSizes
    Minors <- MCMinors
    MaxMessages = 3
    Initial <- MCInitial
    Minimum = 2
    Maximum = 5
    Steps = {1, 2}
    InputSize = 2
    Label <- MCLabel
    Modulus = 16
    MaxKeys = 3
    Serials <- MCSerials
    CardIDs <- MCCardIDs
    Fold <- MCFold
    Configs <- MCConfigs
    Resolutions <- MCResolutions
INVARIANTS
    FailureIsReal
    TargetIsCurrent
    HandshakeUnderstood
    NeverBothWait
    ScreenShowsImage
    ClickHitsWhatIsShown
    TerminalsAreServed
PROPERTIES
    StackStarts
    RunEnds
    TornDown
CHECK_DEADLOCK FALSE
