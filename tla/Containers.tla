----------------------------- MODULE Containers -----------------------------
(***************************************************************************)
(* The sorted set, count-min sketch and Bloom filter commands of            *)
(* internal/storage on the map they share with every other type. Each       *)
(* method holds the lock from its first line to its return, so each call is *)
(* one step, the eviction that ends a write included. A sorted set is its   *)
(* map of scores here; OrderedIndex has what keeps it in order.             *)
(*                                                                          *)
(* What other commands do to these keys comes from the same store: SET      *)
(* replaces a record by a string, DEL removes it, EXPIRE gives it a         *)
(* deadline. Time is left out: a record has no deadline (ttl 0) or one that *)
(* has passed (ttl 1), for to these commands a deadline ahead is none.      *)
(*                                                                          *)
(* The counts and booleans a call answers with are query and exists of the  *)
(* sketch or filter as the call leaves it; only errors are kept here.       *)
(***************************************************************************)
EXTENDS Bookkeeping, BloomFilter, ScoreOrder

CONSTANTS
    Policies,    \* the names WithEvictionPolicy may be given a policy by
    Dims,        \* widths and depths of CMS.INITBYDIM and CMS.INITBYPROB
    Increments,  \* argument lists of CMS.INCRBY: [item, value] pairs
    Sources,     \* argument lists of CMS.MERGE: [key, weight] pairs
    Sizes,       \* bits and hash functions a filter is reserved with
    DefaultSize, \* those of defaultBloomFilterErrorRate and Capacity
    ItemLists,   \* argument lists of BF.MADD
    ScoreLists,  \* argument lists of ZADD: scores by member
    Text,        \* the string SET writes
    MaxOps       \* bound: calls issued

\* The values of the three types, and their records.
SketchOf(d) == [width : {d.width}, depth : {d.depth}, count : Word,
                counters : [0 .. d.depth - 1 -> [0 .. d.width - 1 -> Word]]]
FilterSet   == [bits : SUBSET Nat, bitCount : Nat \ {0}, hashCount : 1 .. MaxRow + 1,
                words : Nat, count : Nat]

CMSRecordOf(d)  == [type : {"cms"}, sketch : SketchOf(d), ttl : Nat]
BloomRecords    == [type : {"bloom"}, filter : FilterSet, ttl : Nat]
ZSetRecordOf(S) == [type : {"zset"}, scores : [S -> Int], ttl : Nat]

ASSUME ContainersAssumption ==
    /\ Policies \subseteq PolicyNames
    /\ Dims \subseteq [width : Nat \ {0}, depth : 1 .. MaxRow + 1]
    /\ Increments \subseteq Seq([item : Items, value : Word \ {0}]) \ {<<>>}
    /\ Sources \subseteq Seq([key : Keys, weight : Word \ {0}]) \ {<<>>}
    /\ Sizes \union {DefaultSize} \subseteq [bits : Nat \ {0}, hashes : 1 .. MaxRow + 1]
    /\ ItemLists \subseteq Seq(Items) \ {<<>>}
    /\ \A given \in ScoreLists : /\ DOMAIN given \in (SUBSET Members) \ {{}}
                                  /\ given \in [DOMAIN given -> Int]
    /\ Text \in Strings /\ MaxOps \in Nat
    /\ \A d \in Dims : Absent \notin CMSRecordOf(d)
    /\ \A S \in SUBSET Members : Absent \notin ZSetRecordOf(S)
    /\ Absent \notin BloomRecords

\* The true counts can be added up.
ASSUME ItemsAssumption == IsFiniteSet(Items)

VARIABLES
    store,
    answer,   \* the command and the error of the last call, "" for none
    counted,  \* history: what was really added of each item to each sketch
    members,  \* history: the items put into each filter
    issued    \* calls issued so far, bounded by MaxOps

vars == <<store, answer, counted, members, issued>>

CMSRecord(sketch)   == [type |-> "cms", sketch |-> sketch, ttl |-> 0]
ZSetRecord(scores)  == [type |-> "zset", scores |-> scores, ttl |-> 0]
BloomRecord(filter) == [type |-> "bloom", filter |-> filter, ttl |-> 0]

Nothing == [i \in Items |-> 0]

Init == /\ \E name \in Policies : store = New(name)
        /\ answer = [cmd |-> "", error |-> ""] /\ issued = 0
        /\ counted = [k \in Keys |-> Nothing]
        /\ members = [k \in Keys |-> {}]

isExpired(r) == r.ttl # 0
Live(s, k) == s.data[k] # Absent /\ ~ isExpired(s.data[k])
Clear(s, k) == IF s.data[k] = Absent THEN s ELSE removeExpired(s, k)

\* A new record under a key that has no live one.
Insert(s, k, r) == trackInsert(Put(Clear(s, k), k, r), k, r)

\* The stores evictLocked may end with: one victim after the other. Faulty:
\* one victim, whatever it frees.
EvictedOnce(s) == IF overCapacity(s) /\ Victims(s.policy) # {}
                  THEN {EvictKey(s, v) : v \in Victims(s.policy)} ELSE {s}
Evicted(s) ==
    LET after[n \in 0 .. Cardinality(Keys)] ==
            IF n = 0 THEN {s}
            ELSE UNION {IF overCapacity(t) /\ Victims(t.policy) # {}
                        THEN {EvictKey(t, v) : v \in Victims(t.policy)}
                        ELSE {t} : t \in after[n - 1]}
    IN after[Cardinality(Keys)]

Call(c, error) == /\ issued < MaxOps /\ issued' = issued + 1
                  /\ answer' = [cmd |-> c, error |-> error]

\* What a lookup finds under k for a command of this type.
LookupError(k, type, missing) ==
    IF ~ Live(store, k) THEN missing
    ELSE IF store.data[k].type # type THEN "wrongtype" ELSE ""

CMSError(k) == LookupError(k, "cms", "notfound")
BFError(k)  == LookupError(k, "bloom", "")

SameHistory == UNCHANGED <<counted, members>>
Counts(k, c) == counted' = [counted EXCEPT ![k] = c] /\ UNCHANGED members
Holds(k, S) == members' = [members EXCEPT ![k] = S] /\ UNCHANGED counted

-----------------------------------------------------------------------------
(* Count-min sketch                                                          *)

CMSInit(k) ==
    \/ /\ Live(store, k)
       /\ Call("CMS.INIT", "exists") /\ UNCHANGED store /\ SameHistory
    \/ \E d \in Dims :
          /\ ~ Live(store, k)
          /\ Call("CMS.INIT", "")
          /\ store' \in Evicted(Insert(store, k,
                            CMSRecord(NewCountMinSketch(d.width, d.depth))))
          /\ Counts(k, Nothing)

\* The increments in order until one overflows: n of them take effect.
Applied(sketch, increments) ==
    LET after[n \in 0 .. Len(increments)] ==
            IF n = 0 THEN sketch
            ELSE Incr(after[n - 1], increments[n].item, increments[n].value)
        Fits(n) == \A m \in 1 .. n :
            ~ IncrOverflows(after[m - 1], increments[m].item, increments[m].value)
        n == Max({m \in 0 .. Len(increments) : Fits(m)})
    IN [n |-> n, sketch |-> after[n]]

TrueCount(counts, increments, n) ==
    LET after[m \in 0 .. n] ==
            IF m = 0 THEN counts
            ELSE [after[m - 1] EXCEPT ![increments[m].item] = @ + increments[m].value]
    IN after[n]

CMSIncrBy(k) ==
    \E increments \in Increments :
        \/ /\ CMSError(k) # ""
           /\ Call("CMS.INCRBY", CMSError(k)) /\ UNCHANGED store /\ SameHistory
        \/ /\ CMSError(k) = ""
           /\ LET result == Applied(store.data[k].sketch, increments)
                  s == Put(store, k, [store.data[k] EXCEPT !.sketch = result.sketch])
              IN /\ \/ /\ result.n = Len(increments)
                       /\ Call("CMS.INCRBY", "") /\ store' = notifyAccess(s, k)
                    \/ /\ result.n < Len(increments)
                       /\ Call("CMS.INCRBY", "overflow") /\ store' = s
                 /\ Counts(k, TrueCount(counted[k], increments, result.n))

\* CMSQuery and CMSInfo read and refresh the policy.
CMSRead(k) ==
    /\ Call("CMS.QUERY", CMSError(k))
    /\ store' = IF CMSError(k) = "" THEN notifyAccess(store, k) ELSE store
    /\ SameHistory

\* The first loop of CMSMerge: every source is looked up and refreshed, until
\* one is no sketch.
Found(acc, k) ==
    IF acc.error # "" THEN acc
    ELSE IF CMSError(k) # "" THEN [acc EXCEPT !.error = CMSError(k)]
    ELSE [acc EXCEPT !.store = notifyAccess(@, k)]

SourcesFound(sources) ==
    LET after[n \in 0 .. Len(sources)] ==
            IF n = 0 THEN [error |-> "", store |-> store]
            ELSE Found(after[n - 1], sources[n].key)
    IN after[Len(sources)]

\* The second: they are added up, until one has another shape or overflows.
Added(acc, source, weight) ==
    IF acc.error # "" THEN acc
    ELSE IF ~ SameShape(source, acc.sketch) THEN [acc EXCEPT !.error = "incompatible"]
    ELSE IF MergeOverflows(acc.sketch, source, weight) THEN [acc EXCEPT !.error = "overflow"]
    ELSE [acc EXCEPT !.sketch = AddWeighted(@, source, weight)]

Merged(sources) ==
    LET source(n) == store.data[sources[n].key].sketch
        after[n \in 0 .. Len(sources)] ==
            IF n = 0 THEN [error |-> "", sketch |->
                              NewCountMinSketch(source(1).width, source(1).depth)]
            ELSE Added(after[n - 1], source(n), sources[n].weight)
    IN after[Len(sources)]

MergedCount(sources) ==
    LET after[n \in 0 .. Len(sources)] ==
            IF n = 0 THEN Nothing
            ELSE [i \in Items |-> after[n - 1][i]
                                    + sources[n].weight * counted[sources[n].key][i]]
    IN after[Len(sources)]

\* What CMSMerge makes of the destination once the sources are merged.
Replace(s, k, r) == IF Live(s, k) THEN trackOverwrite(Put(s, k, r), k, s.data[k], r)
                                  ELSE Insert(s, k, r)

CMSMerge(k) ==
    \E sources \in Sources :
        LET found == SourcesFound(sources)
            merged == Merged(sources)
            error == IF found.error # "" THEN found.error
                     ELSE IF merged.error # "" THEN merged.error
                     ELSE IF Live(store, k) /\ store.data[k].type # "cms" THEN "wrongtype"
                     ELSE ""
        IN /\ Call("CMS.MERGE", error)
           /\ \/ /\ error # ""
                 /\ store' = found.store /\ SameHistory
              \/ /\ error = ""
                 /\ store' \in Evicted(Replace(found.store, k, CMSRecord(merged.sketch)))
                 /\ Counts(k, MergedCount(sources))

-----------------------------------------------------------------------------
(* Bloom filter                                                              *)

BFReserve(k) ==
    \/ /\ Live(store, k)
       /\ Call("BF.RESERVE", "exists") /\ UNCHANGED store /\ SameHistory
    \/ \E size \in Sizes :
          /\ ~ Live(store, k)
          /\ Call("BF.RESERVE", "")
          /\ store' \in Evicted(Insert(store, k,
                            BloomRecord(NewBloomFilter(size.bits, size.hashes))))
          /\ Holds(k, {})

AddAll(f, items) ==
    LET after[n \in 0 .. Len(items)] ==
            IF n = 0 THEN f ELSE add(after[n - 1], items[n])
    IN after[Len(items)]

\* The filter a missing key is given may be evicted before the items are added
\* to it: then they go with it.
BFMultiAdd(k) ==
    \E items \in ItemLists :
        LET fresh == NewBloomFilter(DefaultSize.bits, DefaultSize.hashes)
            Fill(s, f) == IF s.data[k] = Absent THEN s
                          ELSE Put(s, k, [s.data[k] EXCEPT !.filter = AddAll(f, items)])
        IN /\ Call("BF.MADD", BFError(k))
           /\ \/ /\ BFError(k) # ""
                 /\ UNCHANGED store /\ SameHistory
              \/ /\ BFError(k) = "" /\ Live(store, k)
                 /\ store' = Fill(notifyAccess(store, k), store.data[k].filter)
                 /\ Holds(k, members[k] \union Range(items))
              \/ /\ ~ Live(store, k)
                 /\ \E s \in Evicted(Insert(store, k, BloomRecord(fresh))) :
                        store' = Fill(s, fresh)
                 /\ Holds(k, Range(items))

\* BFExists, BFMultiExists and BFInfo read and refresh the policy; a missing
\* key is an error to BFInfo only.
BFRead(k) ==
    \E c \in {"BF.EXISTS", "BF.INFO"} :
        LET missing == IF c = "BF.INFO" THEN "notfound" ELSE "" IN
        /\ Call(c, LookupError(k, "bloom", missing))
        /\ store' = IF Live(store, k) /\ store.data[k].type = "bloom"
                    THEN notifyAccess(store, k) ELSE store
        /\ SameHistory

-----------------------------------------------------------------------------
(* Sorted set                                                                *)

ZError(k) == LookupError(k, "zset", "")

Rescored(scores, given) ==
    [m \in DOMAIN scores \union DOMAIN given |->
        IF m \in DOMAIN given THEN given[m] ELSE scores[m]]

\* The members and scores of a call are a map: of a repeated member the handler
\* keeps the last score. Only new members are charged. Faulty: all are.
AddScoresCharged(s, k, given) ==
    Put(accountMemory(s, scoredSize(DOMAIN given)), k,
        [s.data[k] EXCEPT !.scores = Rescored(@, given)])
AddScores(s, k, given) ==
    Put(accountMemory(s, scoredSize(DOMAIN given \ DOMAIN s.data[k].scores)), k,
        [s.data[k] EXCEPT !.scores = Rescored(@, given)])

ZAdd(k) ==
    \E given \in ScoreLists :
        /\ Call("ZADD", ZError(k)) /\ SameHistory
        /\ \/ /\ ZError(k) # ""
              /\ UNCHANGED store
           \/ /\ ~ Live(store, k)
              /\ store' \in Evicted(Insert(store, k, ZSetRecord(given)))
           \/ /\ ZError(k) = "" /\ Live(store, k)
              /\ store' \in Evicted(notifyAccess(AddScores(store, k, given), k))

RemoveScores(s, k, gone) ==
    Put(accountMemory(s, -scoredSize(gone \intersect DOMAIN s.data[k].scores)), k,
        [s.data[k] EXCEPT !.scores = [m \in DOMAIN @ \ gone |-> @[m]]])

\* A set without members leaves the map; by then only its key is charged.
\* Faulty: it stays.
ZRemovedKept(s, k) == notifyAccess(s, k)
ZRemoved(s, k) == IF DOMAIN s.data[k].scores = {} THEN Remove(s, k) ELSE notifyAccess(s, k)

ZRem(k) ==
    \E gone \in (SUBSET Members) \ {{}} :
        /\ Call("ZREM", ZError(k)) /\ SameHistory
        /\ \/ /\ ZError(k) # ""
              /\ UNCHANGED store
           \/ /\ ~ Live(store, k)
              /\ store' = Clear(store, k)
           \/ /\ ZError(k) = "" /\ Live(store, k)
              /\ store' = ZRemoved(RemoveScores(store, k, gone), k)

\* ZScore, ZRank and ZRange read and refresh the policy.
ZRead(k) ==
    /\ Call("ZRANGE", ZError(k)) /\ SameHistory
    /\ store' = IF Live(store, k) /\ ZError(k) = "" THEN notifyAccess(store, k) ELSE store

-----------------------------------------------------------------------------
(* What other commands do to the records.                                    *)

Set(k) ==
    /\ Call("SET", "")
    /\ store' \in Evicted(Replace(store, k, StringValue(Text, 0)))
    /\ SameHistory

\* EXPIRE with a deadline that passes before anybody looks again.
Expire(k) ==
    /\ Live(store, k) /\ Call("EXPIRE", "")
    /\ store' = notifyAccess(Put(store, k, [store.data[k] EXCEPT !.ttl = 1]), k)
    /\ SameHistory

Delete(k) ==
    /\ store.data[k] # Absent /\ Call("DEL", "")
    /\ store' = Remove(store, k)
    /\ SameHistory

Next == \E k \in Keys :
    \/ CMSInit(k) \/ CMSIncrBy(k) \/ CMSRead(k) \/ CMSMerge(k)
    \/ BFReserve(k) \/ BFMultiAdd(k) \/ BFRead(k)
    \/ ZAdd(k) \/ ZRem(k) \/ ZRead(k)
    \/ Set(k) \/ Expire(k) \/ Delete(k)

Spec == Init /\ [][Next]_vars

-----------------------------------------------------------------------------
(* Properties                                                                *)

Sketches == {k \in Keys : store.data[k] # Absent /\ store.data[k].type = "cms"}
Filters  == {k \in Keys : store.data[k] # Absent /\ store.data[k].type = "bloom"}

\* usedMemory is the size of what the map holds, whatever types follow one
\* another under a key and whatever a write evicts.
MemoryExact == store.usedMemory = Cardinality(Footprint(store.data))

\* The policy tracks exactly the keys of the map.
PolicyTracksData == store.policy.name # "none" => Tracked(store.policy) = Present(store)

\* Every call leaves the store within its limits.
WithinCapacity == store.policy.name # "none" => ~ overCapacity(store)

\* A sketch never answers less than what was really added, merges with weights,
\* merges of a sketch with itself and increments cut short by an overflow
\* included.
NeverUnderestimates ==
    \A k \in Sketches, i \in Items : query(store.data[k].sketch, i) >= counted[k][i]

\* Each row of a sketch holds everything that was added: its counters sum up
\* to count, which is the sum of the true counts. No counter wraps.
RowsSumToCount ==
    \A k \in Sketches :
        LET s == store.data[k].sketch IN
        /\ s.count = MapThenSumSet(LAMBDA i : counted[k][i], Items)
        /\ \A row \in Rows(s) :
              MapThenSumSet(LAMBDA column : s.counters[row][column], Columns(s)) = s.count

\* An item that was put into a filter is found in it.
NoFalseNegative ==
    \A k \in Filters : \A i \in members[k] : exists(store.data[k].filter, i)

\* A sorted set without members is no key: to the next command it is missing.
NoEmptySortedSet ==
    \A k \in Keys : store.data[k] # Absent /\ store.data[k].type = "zset"
                        => DOMAIN store.data[k].scores # {}
=============================================================================
