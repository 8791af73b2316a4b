\* Two workers of one slot, a queue of one. Every client connects once, so the pool may come to rest.
SPECIFICATION FairPoolSpec
CONSTANTS
    Conns = {c1, c2, c3, c4, c5}
    Workers = {w1, w2}
    ConnectionsPerWorker = 1
    QueueSize = 1
    NoConn = NoConn
INVARIANTS SlotsCountHandlers
PROPERTIES EveryoneServed StuckWorkersKeepTheirOwn
CHECK_DEADLOCK FALSE
