SPECIFICATION Spec
CONSTANTS
    Widths = {2}
    Palette <- MCCopied
    MergeDistance = 0
    MaxPending = 3
    MaxRects = 4
    MaxResizes = 0
    MaxDamage = 0
    MaxFailures = 0
INVARIANTS
    NewestShown
CHECK_DEADLOCK FALSE
