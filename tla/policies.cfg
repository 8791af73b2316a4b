\* Each policy against the uses it should remember. The bound on the uses ends a behaviour.
SPECIFICATION Spec
CONSTANTS
    Policies = {"lru", "lfu", "random"}
    SampleSize = 2
    Keys = {a, b, c, d}
    MaxUses = 7
INVARIANTS VictimWhileTracked LRUVictimIsOldest LFUVictimAmongRarest
CHECK_DEADLOCK FALSE
