SPECIFICATION Spec
CONSTANTS
    card = card
    vnc = vnc
    viewonly = viewonly
    shell = shell
    c1 = c1
    c2 = c2
    NoSession = NoSession
    Conns = {c1, c2}
    Sessions = {card, shell}
    Kind <- KindOfSession
    Interactive <- InteractiveSession
    MaxInserts = 1
    MaxClients = 2
    MaxFrames = 1
    CanStop = TRUE
INVARIANTS
    TypeOK
    ChannelsReleased
PROPERTIES
    OwnerSpec
CHECK_DEADLOCK FALSE
