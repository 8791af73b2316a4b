\* A client that pipelines beside an idle one, a window of one answer. The
\* server may stop.
SPECIFICATION FairSpec
CONSTANTS
    Conns = {c1, c2}
    Pipelining = c1
    Others = 0
    NoConn = NoConn
    CmdLen = 1
    MaxCmds <- MCMaxCmds
    Window = 1
INVARIANTS TypeOK DrainClosesAll AtMostOneUnanswered
PROPERTIES StartedBatchAnswered ShutdownReturns HandlersEnd
CHECK_DEADLOCK FALSE
