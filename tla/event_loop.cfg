\* Both protocols, three clients for two connections.
SPECIFICATION FairSpec
CONSTANTS
    c1 = c1
    c2 = c2
    c3 = c3
    Clients = {c1, c2, c3}
    NoClient = NoClient
    MaxConnections = 2
    BufferSize = 8
    Window = 1
    Frames <- MCFrames
    Cuts <- MCCuts
    Leavers = {c1, c3}
INVARIANTS TablesAgree EventsFresh CommandsInOrder ClosedOnlyForCause
PROPERTIES CommandsAnswered
CHECK_DEADLOCK FALSE
