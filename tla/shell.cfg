SPECIFICATION FairSpec
CONSTANTS
    NumRows = 3
    NumCols = 2
    MaxInt = 15
    Printable <- MCPrintable
    Chunks <- MCChunks
    MaxWrites = 4
INVARIANTS
    TypeOK
    ScreenFollows
    SplitIndependent
    OutputShown
PROPERTIES
    CancelledReturns
CHECK_DEADLOCK FALSE
