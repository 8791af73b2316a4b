\* A command read just before the drain looks. The server may stop.
SPECIFICATION Spec
CONSTANTS
    Conns = {c1, c2}
    Pipelining = NoConn
    Others = 1
    NoConn = NoConn
    CmdLen = 1
    MaxCmds <- MCMaxCmds
    Window = 1
PROPERTIES InFlightFinishes
CHECK_DEADLOCK FALSE
