SPECIFICATION FairSpec
CONSTANTS
    Widths = {1, 2}
    Palette <- MCPalette
    MergeDistance = 0
    MaxPending = 1
    MaxRects = 3
    MaxResizes = 1
    MaxDamage = 1
    MaxFailures = 1
INVARIANTS
    TypeOK
    NoLostWakeup
    NoHoleInImage
    NothingForgotten
PROPERTIES
    ScreenCatchesUp
CHECK_DEADLOCK FALSE
