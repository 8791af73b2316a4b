-------------------------- MODULE StoreProperties --------------------------
(* What a Store keeps true, what it promises its callers, and two comments    *)
(* of the code that it does not keep.                                         *)
EXTENDS Store

IsStore(s) ==
    /\ s \in [data : [Keys -> Record \union {Absent}], policy : {s.policy},
             usedMemory : Int, hits : Nat, misses : Nat,
             expiredKeys : Nat, evictedKeys : Nat]
    /\ IsPolicy(s.policy, Keys)

\* Every variable has its type: the store is a Store, every frame is one of
\* the points a call can be at.
TypeOK ==
    /\ IsStore(store)
    /\ now \in Nat /\ writer \in Procs \union {NoProc} /\ readers \in SUBSET Procs
    /\ frame \in [Procs -> Frames]
    /\ issued \in Nat /\ gets \in Nat

\* mu is held exclusively exactly in the loops of DEL, Sweep and evictLocked,
\* by one goroutine, and shared only between the two clock reads of TTL.
LockOK ==
    /\ \A p \in Procs : frame[p].at \in {"delete", "sweep", "evict"} <=> writer = p
    /\ readers = {p \in Procs : frame[p].at = "ttl"}
    /\ writer # NoProc => readers = {}

\* usedMemory is the size of what the map holds, at every step: no insert,
\* overwrite, expiry, deletion or eviction is charged twice or not at all.
MemoryExact == store.usedMemory = Cardinality(Footprint(store.data))

\* The policy tracks exactly the keys of the map, so a reader's notifyAccess
\* never brings back a key that a writer removed and evictLocked always finds
\* a victim while the map has keys.
PolicyTracksData == store.policy.name # "none" => Tracked(store.policy) = Present(store)

\* When nobody holds the lock the store is within its entry and memory limits.
WithinCapacity == writer = NoProc /\ store.policy.name # "none" => ~ overCapacity(store)

\* Under LRU the eviction a write triggers takes the written key last: it is
\* gone only when everything is.
LRUKeepsWrittenKey ==
    store.policy.name = "lru" =>
        \A p \in Procs :
            /\ frame[p].at = "evict" /\ frame[p].key \in Keys
            /\ store.data[frame[p].key] = Absent
            => Present(store) = {}

\* Each GET is counted once, as a hit or as a miss (stats.go:5), whatever
\* path it leaves by; one that still has to delete lazily is not yet counted.
GetsCounted ==
    store.hits + store.misses +
    Cardinality({p \in Clients : frame[p].at = "lazy" /\ frame[p].cmd = "GET"}) = gets

\* A live key leaves the map only because a DEL or EXPIRE names it, because SREM
\* took its last member, or as an eviction that evictedKeys counts: never as an
\* expiry.
NoSilentLoss ==
    [][\A k \in Keys : Live(k) /\ store.data[k] # Absent /\ store'.data[k] = Absent =>
          \/ /\ writer # NoProc /\ frame[writer].at = "delete"
             /\ frame[writer].rest # <<>> /\ Head(frame[writer].rest) = k
             /\ store'.expiredKeys = store.expiredKeys
          \/ /\ issued' # issued /\ store'.expiredKeys = store.expiredKeys
             /\ \E p \in Clients : reply'[p].cmd = "SREM" /\ reply'[p].key = k
          \/ store'.evictedKeys = store.evictedKeys + 1]_vars

\* A call in progress ends: nobody waits for the lock for ever, and the
\* eviction loop stops.
CallsComplete == \A p \in Clients : frame[p] # Idle ~> frame[p] = Idle

\* An expired record does not stay: the sweeper removes it even if no command
\* touches its key again (or a write replaces it).
ExpiredRemoved ==
    \A k \in Keys : (store.data[k] # Absent /\ ~ Live(k)) ~> (store.data[k] = Absent \/ Live(k))

\* The store implements the map its callers see: lazy deletion, sweeping and
\* locking are invisible, each call takes effect or reads at one instant.
View == [k \in Keys |-> IF Live(k) THEN store.data[k] ELSE Absent]
Pending == [p \in Procs |->
    IF frame[p].at \in {"set", "expire", "delete"} THEN frame[p] ELSE Idle]

Map == INSTANCE ExpiringMap WITH view <- View, pending <- Pending,
                                 Bounded <- MaxEntries > 0 \/ MaxMemory > 0

ImplementsMap == Map!ASpec

-----------------------------------------------------------------------------
(* What the comments say and the code does not do.                           *)

\* "WithMaxEntries evicts keys once the number of live keys exceeds n"
\* (eviction.go:29): a live key is evicted only when more than MaxEntries are.
EvictsAboveLiveLimit ==
    [][\A k \in Keys :
          /\ Live(k) /\ store'.data[k] = Absent
          /\ store'.evictedKeys # store.evictedKeys
          => Cardinality({x \in Keys : Live(x)}) > MaxEntries]_vars

\* "Stats returns a snapshot of the store's current statistics" (stats.go:18):
\* an empty store has no memory in use.
StatsIsSnapshot ==
    \A p \in Procs : reply[p].cmd = "STATS" /\ reply[p].keys = 0 => reply[p].usedMemory = 0
=============================================================================
