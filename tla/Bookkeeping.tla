----------------------------- MODULE Bookkeeping -----------------------------
(***************************************************************************)
(* The fields of a Store and the helpers through which every command keeps  *)
(* the map, the eviction policy, the memory in use and the counters in step *)
(* (stats.go, eviction.go). They are operators on the value of the store;   *)
(* Store and Containers are the machines that use them.                     *)
(***************************************************************************)
EXTENDS Records, Eviction

CONSTANTS
    MaxEntries,  \* WithMaxEntries, 0: no limit
    MaxMemory    \* WithMaxMemory, 0: no limit

ASSUME LimitsAssumption == MaxEntries \in Nat /\ MaxMemory \in Nat

New(name) == [data |-> [k \in Keys |-> Absent], policy |-> NewPolicy(name),
              usedMemory |-> 0, hits |-> 0, misses |-> 0,
              expiredKeys |-> 0, evictedKeys |-> 0]

Present(s) == {k \in Keys : s.data[k] # Absent}

Put(s, k, r)   == [s EXCEPT !.data[k] = r]
Unset(s, k)    == [s EXCEPT !.data[k] = Absent]

notifyInsert(s, k) == [s EXCEPT !.policy = OnInsert(@, k)]
notifyAccess(s, k) == [s EXCEPT !.policy = OnAccess(@, k)]
notifyRemove(s, k) == [s EXCEPT !.policy = OnRemove(@, k)]

accountMemory(s, bytes) == [s EXCEPT !.usedMemory = @ + bytes]

trackInsert(s, k, r) == notifyInsert(accountMemory(s, recordSize(k, r)), k)

\* Faulty forms of the next definition: the previous value stays charged; the
\* policy is not told.
trackOverwriteCharged(s, k, previous, next) ==
    notifyAccess(accountMemory(s, recordSize(k, next)), k)
trackOverwriteQuiet(s, k, previous, next) ==
    accountMemory(s, recordSize(k, next) - recordSize(k, previous))

trackOverwrite(s, k, previous, next) ==
    notifyAccess(accountMemory(s, recordSize(k, next) - recordSize(k, previous)), k)

\* Faulty: the policy is not told of the removal.
trackRemoveQuiet(s, k, r) == accountMemory(s, -recordSize(k, r))

trackRemove(s, k, r) == notifyRemove(accountMemory(s, -recordSize(k, r)), k)

DropExpired(s, k) == [Unset(s, k) EXCEPT !.expiredKeys = @ + 1]

removeExpired(s, k) == trackRemove(DropExpired(s, k), k, s.data[k])

Remove(s, k) == trackRemove(Unset(s, k), k, s.data[k])

CountEvicted(s) == [s EXCEPT !.evictedKeys = @ + 1]

\* Faulty: the value of the victim stays charged.
EvictKeyUncharged(s, v) == CountEvicted(notifyRemove(accountMemory(Unset(s, v), -KeyLen[v]), v))

\* A victim without a record is only forgotten.
EvictKey(s, v) == IF s.data[v] = Absent THEN notifyRemove(s, v)
                                        ELSE CountEvicted(Remove(s, v))

overCapacity(s) ==
    \/ MaxEntries > 0 /\ Cardinality(Present(s)) > MaxEntries
    \/ MaxMemory > 0 /\ s.usedMemory > MaxMemory
=============================================================================
