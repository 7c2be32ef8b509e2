SPECIFICATION Spec
CONSTANTS
    card = card
    vnc = vnc
    viewonly = viewonly
    shell = shell
    c1 = c1
    c2 = c2
    NoSession = NoSession
    Conns = {c1}
    Sessions = {vnc, viewonly}
    Kind <- KindOfSession
    Interactive <- InteractiveSession
    MaxInserts = 2
    MaxClients = 2
    MaxFrames = 2
    CanStop = FALSE
INVARIANTS
    InteractiveGetsInput
CHECK_DEADLOCK FALSE
