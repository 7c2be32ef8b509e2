SPECIFICATION FairSpec
CONSTANTS
    card = card
    vnc = vnc
    viewonly = viewonly
    shell = shell
    c1 = c1
    c2 = c2
    NoSession = NoSession
    Conns = {c1}
    Sessions = {card, viewonly}
    Kind <- KindOfSession
    Interactive <- InteractiveSession
    MaxInserts = 1
    MaxClients = 2
    MaxFrames = 2
    CanStop = TRUE
INVARIANTS
    SelectionShown
    LateDrawsBounded
PROPERTIES
    SupersededEnds
CHECK_DEADLOCK FALSE
