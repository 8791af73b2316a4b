------------------------------- MODULE Store -------------------------------
(***************************************************************************)
(* internal/storage: the Store under concurrent callers.                    *)
(*                                                                          *)
(* Each client is a goroutine that calls one Store method at a time; the    *)
(* Sweeper is the ticker goroutine of cmd/resp-server. The clock advances   *)
(* between any two steps. A step is what a goroutine does between two       *)
(* points where another one may run: it begins by taking the lock, or goes  *)
(* on while it holds it. Loops under the exclusive lock take a step per     *)
(* iteration, because they read the clock (Sweep) or move the counters that *)
(* Stats reads without the lock (evictLocked, Delete).                      *)
(***************************************************************************)
EXTENDS Bookkeeping, Sequences

CONSTANTS
    Clients,     \* the goroutines that call the store for a connection
    Sweeper,     \* the goroutine that calls Sweep
    NoProc,      \* nobody holds the exclusive lock
    NoKey,       \* the eviction follows no write
    Policies,    \* the names WithEvictionPolicy may be given a policy by
    TTLs,        \* durations SET and EXPIRE are called with
    KeyLists,    \* argument lists of DEL and EXISTS
    TimeUnit,    \* clock units in the second that TTL counts
    Commands,    \* the commands the clients issue
    MaxOps,      \* bound: calls the clients issue
    MaxTime      \* bound: the last instant of the clock

Procs == Clients \union {Sweeper}

ASSUME StoreAssumption ==
    /\ IsFiniteSet(Clients)
    /\ Sweeper \notin Clients /\ NoProc \notin Procs /\ NoKey \notin Keys
    /\ Policies \subseteq PolicyNames
    /\ TTLs \subseteq Int /\ KeyLists \subseteq Seq(Keys)
    /\ TimeUnit \in Nat \ {0}
    /\ MaxOps \in Nat /\ MaxTime \in Nat

VARIABLES
    store,    \* the fields of the Store that its methods change
    now,      \* time.Now()
    writer,   \* the goroutine that holds mu exclusively, or NoProc
    readers,  \* the goroutines that hold mu shared between two steps
    frame,    \* the call each goroutine is in, and where
    reply,    \* the last answer of each goroutine, fixed when it is decided
    issued,   \* calls issued so far, bounded by MaxOps
    gets      \* GET calls issued so far

vars == <<store, now, writer, readers, frame, reply, issued, gets>>

-----------------------------------------------------------------------------
(* Expiry, and the changes the commands make to the map.                     *)

isExpired(r) == r.ttl # 0 /\ now > r.ttl

\* What a lookup under the lock finds: a live record, an expired one, a string.
Live(k)     == store.data[k] # Absent /\ ~ isExpired(store.data[k])
Expired(k)  == store.data[k] # Absent /\ isExpired(store.data[k])
IsString(k) == Live(k) /\ store.data[k].type = "string"

\* Faulty: no second look at the record once the lock is held.
deleteUnchecked(s, k) ==
    IF s.data[k] # Absent THEN removeExpired(s, k) ELSE s

deleteIfExpired(s, k) ==
    IF s.data[k] # Absent /\ isExpired(s.data[k]) THEN removeExpired(s, k) ELSE s

\* The body of a write: an expired record makes way first, a live one is
\* overwritten.
Write(s, k, r) ==
    LET t == deleteIfExpired(s, k) IN
    IF t.data[k] = Absent THEN trackInsert(Put(t, k, r), k, r)
                          ELSE trackOverwrite(Put(t, k, r), k, t.data[k], r)

\* SADD on a live set or on no key: only members that are new are charged.
AddMembers(s, k, S) ==
    LET r == s.data[k] IN
    IF r = Absent THEN trackInsert(Put(s, k, SetValue(S, 0)), k, SetValue(S, 0))
    ELSE notifyAccess(accountMemory(Put(s, k, [r EXCEPT !.members = @ \union S]),
                                    membersSize(S \ r.members)), k)

TakeMembers(s, k, S) ==
    LET r == s.data[k] IN
    accountMemory(Put(s, k, [r EXCEPT !.members = @ \ S]), -membersSize(r.members \cap S))

\* SREM on a live set: a set that has no member left leaves the map, charged
\* by then for its key only. Faulty: it stays; the policy keeps its key.
RemoveMembersKeep(s, k, S) == notifyAccess(TakeMembers(s, k, S), k)
RemoveMembersQuiet(s, k, S) ==
    LET t == TakeMembers(s, k, S) IN
    IF t.data[k].members = {} THEN accountMemory(Unset(t, k), -recordSize(k, t.data[k]))
                              ELSE notifyAccess(t, k)
RemoveMembers(s, k, S) ==
    LET t == TakeMembers(s, k, S) IN
    IF t.data[k].members = {} THEN Remove(t, k) ELSE notifyAccess(t, k)

Hit(s)  == [s EXCEPT !.hits = @ + 1]
\* Faulty: the miss is not counted.
MissUncounted(s) == s
Miss(s) == [s EXCEPT !.misses = @ + 1]

-----------------------------------------------------------------------------
(* Calls in progress. A frame says where its goroutine goes on:              *)
(*   set, expire  the argument is ready, the exclusive lock not yet taken    *)
(*   lazy         a reader met an expired record and will take the lock      *)
(*   exists       EXISTS before the next key of its list                     *)
(*   ttl          TTL between its two clock reads, the lock held shared      *)
(*   delete, sweep, evict   in the loop, the lock held exclusively           *)
(*   stats        Stats after the unlock, before it loads the counters       *)

Idle == [at |-> "idle"]

Frames ==
    {Idle} \union
    [at : {"set"}, key : Keys, record : StringRecord] \union
    [at : {"expire", "ttl"}, key : Keys, ttl : Nat] \union
    [at : {"lazy"}, key : Keys, cmd : {"GET", "TTL", "EXISTS", "SISMEMBER", "SMEMBERS"},
     rest : Seq(Keys), count : Nat] \union
    [at : {"exists", "delete"}, rest : Seq(Keys), count : Nat] \union
    [at : {"sweep"}, rest : SUBSET Keys] \union
    [at : {"evict"}, key : Keys \union {NoKey}] \union
    [at : {"stats"}, count : Nat]

Evicting(k) == [at |-> "evict", key |-> k]
Lazy(k, c)  == [at |-> "lazy", key |-> k, cmd |-> c, rest |-> <<>>, count |-> 0]
KeyLoop(label, keys, n) == [at |-> label, rest |-> keys, count |-> n]

\* Answers, by command. Text is Absent for a miss or an error, and so are the
\* count and the members of a set command met by a record of another type.
NoReply == [cmd |-> "none"]
GetReply(k, text)  == [cmd |-> "GET", key |-> k, text |-> text]
TTLReply(k, n)     == [cmd |-> "TTL", key |-> k, seconds |-> n]
IncrReply(k, v)    == [cmd |-> "INCR", key |-> k, text |-> v]
SetReply(c, k, S, n) == [cmd |-> c, key |-> k, members |-> S, count |-> n]
MembersReply(k, S) == [cmd |-> "SMEMBERS", key |-> k, members |-> S]
CountReply(n)      == [cmd |-> "COUNT", count |-> n]
StatsReply(n, m)   == [cmd |-> "STATS", keys |-> n, usedMemory |-> m]

Goto(p, f)      == frame' = [frame EXCEPT ![p] = f]
Answer(p, r, f) == reply' = [reply EXCEPT ![p] = r] /\ Goto(p, f)
Return(p, r)    == Answer(p, r, Idle)

\* sync.RWMutex. A section that is one step holds the lock within the step.
CanRLock == writer = NoProc
CanLock  == writer = NoProc /\ readers = {}
Lock(p)  == CanLock /\ writer' = p /\ UNCHANGED readers
\* Faulty: the path leaves without Unlock.
UnlockForgotten(p) == UNCHANGED <<writer, readers>>
Unlock(p) == writer' = NoProc /\ UNCHANGED readers
SameLock == UNCHANGED <<writer, readers>>

\* An idle client calls a method; a goroutine goes on with its call.
Call(p, c) ==
    /\ c \in Commands /\ frame[p] = Idle /\ issued < MaxOps
    /\ issued' = issued + 1
    /\ gets' = IF c = "GET" THEN gets + 1 ELSE gets
    /\ UNCHANGED now

Continue(p, label) == frame[p].at = label /\ UNCHANGED <<now, issued, gets>>

-----------------------------------------------------------------------------
(* SET, GET, INCR                                                            *)

\* Faulty: a duration that is not positive still makes a deadline.
expiresAtAny(ttl) == now + ttl
expiresAt(ttl) == IF ttl > 0 THEN now + ttl ELSE 0

Set(p) ==
    \E k \in Keys, v \in Strings, ttl \in TTLs :
        /\ Call(p, "SET")
        /\ Answer(p, NoReply,
                  [at |-> "set", key |-> k, record |-> StringValue(v, expiresAt(ttl))])
        /\ SameLock /\ UNCHANGED store

SetLocked(p) ==
    /\ Continue(p, "set") /\ Lock(p)
    /\ store' = Write(store, frame[p].key, frame[p].record)
    /\ Goto(p, Evicting(frame[p].key))
    /\ UNCHANGED reply

Get(p) ==
    \E k \in Keys :
        /\ Call(p, "GET") /\ CanRLock
        /\ \/ /\ ~ Expired(k) /\ ~ IsString(k)
              /\ store' = Miss(store)
              /\ Return(p, GetReply(k, Absent))
           \/ /\ Expired(k)
              /\ Answer(p, GetReply(k, Absent), Lazy(k, "GET"))
              /\ UNCHANGED store
           \/ /\ IsString(k)
              /\ store' = notifyAccess(Hit(store), k)
              /\ Return(p, GetReply(k, store.data[k].text))
        /\ SameLock

\* deleteIfExpired after a lookup that saw an expired record, with the rest of
\* the reader: the record may be another one by now.
LazyDelete(p) ==
    LET f == frame[p]
        s == deleteIfExpired(store, f.key)
    IN /\ Continue(p, "lazy") /\ CanLock
       /\ store' = IF f.cmd = "GET" THEN Miss(s) ELSE s
       /\ Goto(p, IF f.cmd = "EXISTS" THEN KeyLoop("exists", f.rest, f.count) ELSE Idle)
       /\ SameLock /\ UNCHANGED reply

Incr(p) ==
    \E k \in Keys :
        LET s == deleteIfExpired(store, k)
            r == s.data[k]
            n == IF r = Absent THEN 0
                 ELSE IF r.type = "string" THEN ParseInt[r.text] ELSE NotANumber
            next == FormatInt[Increment(n)]
        IN /\ Call(p, "INCR")
           /\ \/ /\ n = NotANumber       \* ErrNotInteger
                 /\ CanLock /\ SameLock
                 /\ store' = s
                 /\ Return(p, IncrReply(k, Absent))
              \/ /\ n # NotANumber
                 /\ Lock(p)
                 /\ store' = Write(s, k, StringValue(next, IF r = Absent THEN 0 ELSE r.ttl))
                 /\ Answer(p, IncrReply(k, next), Evicting(k))

-----------------------------------------------------------------------------
(* SADD, SREM, SISMEMBER, SMEMBERS. A repeated argument changes nothing, so   *)
(* an argument list is a set of members. ErrWrongType answers Absent.         *)

WrongType(r) == r # Absent /\ r.type # "set"
IsSet(k) == Live(k) /\ store.data[k].type = "set"

SAdd(p) ==
    \E k \in Keys, S \in SUBSET Members :
        LET s == deleteIfExpired(store, k)
            r == s.data[k]
            old == IF r = Absent THEN {} ELSE r.members   \* of a set
        IN /\ Call(p, "SADD") /\ S # {}
           /\ \/ /\ WrongType(r)
                 /\ CanLock /\ SameLock
                 /\ store' = s
                 /\ Return(p, SetReply("SADD", k, S, Absent))
              \/ /\ ~ WrongType(r)
                 /\ Lock(p)
                 /\ store' = AddMembers(s, k, S)
                 /\ Answer(p, SetReply("SADD", k, S, Cardinality(S \ old)), Evicting(k))

SRem(p) ==
    \E k \in Keys, S \in SUBSET Members :
        LET s == deleteIfExpired(store, k)
            r == s.data[k]
        IN /\ Call(p, "SREM") /\ S # {} /\ CanLock /\ SameLock
           /\ \/ /\ r = Absent
                 /\ store' = s
                 /\ Return(p, SetReply("SREM", k, S, 0))
              \/ /\ WrongType(r)
                 /\ store' = s
                 /\ Return(p, SetReply("SREM", k, S, Absent))
              \/ /\ r # Absent /\ ~ WrongType(r)
                 /\ store' = RemoveMembers(s, k, S)
                 /\ Return(p, SetReply("SREM", k, S, Cardinality(S \cap r.members)))

SIsMember(p) ==
    \E k \in Keys, m \in Members :
        LET Says(n) == SetReply("SISMEMBER", k, {m}, n) IN
        /\ Call(p, "SISMEMBER") /\ CanRLock /\ SameLock
        /\ \/ /\ store.data[k] = Absent
              /\ Return(p, Says(0)) /\ UNCHANGED store
           \/ /\ Expired(k)
              /\ Answer(p, Says(0), Lazy(k, "SISMEMBER")) /\ UNCHANGED store
           \/ /\ Live(k) /\ ~ IsSet(k)
              /\ Return(p, Says(Absent)) /\ UNCHANGED store
           \/ /\ IsSet(k)
              /\ Return(p, Says(IF m \in store.data[k].members THEN 1 ELSE 0))
              /\ store' = notifyAccess(store, k)

SMembers(p) ==
    \E k \in Keys :
        /\ Call(p, "SMEMBERS") /\ CanRLock /\ SameLock
        /\ \/ /\ store.data[k] = Absent
              /\ Return(p, MembersReply(k, {})) /\ UNCHANGED store
           \/ /\ Expired(k)
              /\ Answer(p, MembersReply(k, {}), Lazy(k, "SMEMBERS")) /\ UNCHANGED store
           \/ /\ Live(k) /\ ~ IsSet(k)
              /\ Return(p, MembersReply(k, Absent)) /\ UNCHANGED store
           \/ /\ IsSet(k)
              /\ Return(p, MembersReply(k, store.data[k].members))
              /\ store' = notifyAccess(store, k)

-----------------------------------------------------------------------------
(* EXPIRE, TTL                                                               *)

Expire(p) ==
    \E k \in Keys, ttl \in TTLs :
        /\ Call(p, "EXPIRE")
        /\ \/ /\ ttl <= 0
              /\ Lock(p)
              /\ Answer(p, NoReply, KeyLoop("delete", <<k>>, 0))
           \/ /\ ttl > 0
              /\ Answer(p, NoReply, [at |-> "expire", key |-> k, ttl |-> now + ttl])
              /\ SameLock
        /\ UNCHANGED store

ExpireLocked(p) ==
    LET k == frame[p].key
        s == deleteIfExpired(store, k)
    IN /\ Continue(p, "expire") /\ CanLock
       /\ \/ /\ s.data[k] = Absent
             /\ store' = s
             /\ Return(p, CountReply(0))
          \/ /\ s.data[k] # Absent
             /\ store' = notifyAccess([s EXCEPT !.data[k].ttl = frame[p].ttl], k)
             /\ Return(p, CountReply(1))
       /\ SameLock

TTL(p) ==
    \E k \in Keys :
        LET ttl == store.data[k].ttl IN
        /\ Call(p, "TTL") /\ CanRLock
        /\ \/ /\ store.data[k] = Absent
              /\ Return(p, TTLReply(k, -2)) /\ SameLock
           \/ /\ Expired(k)
              /\ Answer(p, TTLReply(k, -2), Lazy(k, "TTL")) /\ SameLock
           \/ /\ Live(k) /\ ttl = 0
              /\ Return(p, TTLReply(k, -1)) /\ SameLock
           \/ /\ Live(k) /\ ttl # 0
              /\ Answer(p, NoReply, [at |-> "ttl", key |-> k, ttl |-> ttl])
              /\ readers' = readers \union {p} /\ UNCHANGED writer
        /\ UNCHANGED store

\* time.Until(record.TTL), then the unlock.
TTLRemaining(p) ==
    LET k == frame[p].key
        remaining == frame[p].ttl - now
    IN /\ Continue(p, "ttl")
       /\ \/ /\ remaining <= 0
             /\ Answer(p, TTLReply(k, -2), Lazy(k, "TTL"))
          \/ /\ remaining > 0
             /\ Return(p, TTLReply(k, remaining \div TimeUnit))
       /\ readers' = readers \ {p}
       /\ UNCHANGED <<store, writer>>

-----------------------------------------------------------------------------
(* DEL, EXISTS: DEL holds the lock over its list, EXISTS takes it per key.   *)

Delete(p) ==
    \E keys \in KeyLists :
        /\ Call(p, "DEL") /\ Lock(p)
        /\ Answer(p, NoReply, KeyLoop("delete", keys, 0))
        /\ UNCHANGED store

DeleteKey(p) ==
    LET f == frame[p]
        k == Head(f.rest)
    IN /\ Continue(p, "delete") /\ f.rest # <<>>
       /\ \/ /\ store.data[k] = Absent
             /\ Goto(p, KeyLoop("delete", Tail(f.rest), f.count))
             /\ UNCHANGED store
          \/ /\ store.data[k] # Absent
             /\ Goto(p, KeyLoop("delete", Tail(f.rest), f.count + 1))
             /\ store' = Remove(store, k)
       /\ SameLock /\ UNCHANGED reply

DeleteDone(p) ==
    /\ Continue(p, "delete") /\ frame[p].rest = <<>>
    /\ Unlock(p)
    /\ Return(p, CountReply(frame[p].count))
    /\ UNCHANGED store

Exists(p) ==
    \E keys \in KeyLists :
        /\ Call(p, "EXISTS")
        /\ Answer(p, NoReply, KeyLoop("exists", keys, 0))
        /\ SameLock /\ UNCHANGED store

ExistsKey(p) ==
    LET f == frame[p]
        k == Head(f.rest)
    IN /\ Continue(p, "exists") /\ f.rest # <<>> /\ CanRLock
       /\ \/ /\ store.data[k] = Absent
             /\ Goto(p, KeyLoop("exists", Tail(f.rest), f.count))
          \/ /\ Expired(k)
             /\ Goto(p, [at |-> "lazy", key |-> k, cmd |-> "EXISTS",
                         rest |-> Tail(f.rest), count |-> f.count])
          \/ /\ Live(k)
             /\ Goto(p, KeyLoop("exists", Tail(f.rest), f.count + 1))
       /\ SameLock /\ UNCHANGED <<store, reply>>

ExistsDone(p) ==
    /\ Continue(p, "exists") /\ frame[p].rest = <<>>
    /\ Return(p, CountReply(frame[p].count))
    /\ SameLock /\ UNCHANGED store

-----------------------------------------------------------------------------
(* Eviction and sweeping, under the exclusive lock                           *)

Evict(p) ==
    /\ Call(p, "EVICT") /\ Lock(p)
    /\ Answer(p, NoReply, Evicting(NoKey))
    /\ UNCHANGED store

EvictStep(p) ==
    /\ Continue(p, "evict") /\ overCapacity(store)
    /\ \E v \in Victims(store.policy) : store' = EvictKey(store, v)
    /\ SameLock /\ UNCHANGED <<frame, reply>>

\* Faulty: one victim at most, or none.
EvictDoneEarly(p) ==
    /\ Continue(p, "evict") /\ Unlock(p) /\ Goto(p, Idle)
    /\ UNCHANGED <<store, reply>>
EvictDone(p) ==
    /\ Continue(p, "evict")
    /\ ~ overCapacity(store) \/ Victims(store.policy) = {}
    /\ Unlock(p) /\ Goto(p, Idle)
    /\ UNCHANGED <<store, reply>>

Sweep ==
    /\ frame[Sweeper] = Idle /\ Lock(Sweeper)
    /\ Goto(Sweeper, [at |-> "sweep", rest |-> Present(store)])
    /\ UNCHANGED <<store, now, reply, issued, gets>>

SweepKey ==
    /\ Continue(Sweeper, "sweep")
    /\ \E k \in frame[Sweeper].rest :
          /\ store' = deleteIfExpired(store, k)
          /\ Goto(Sweeper, [at |-> "sweep", rest |-> frame[Sweeper].rest \ {k}])
    /\ SameLock /\ UNCHANGED reply

\* Faulty: the sweep may stop before it has seen every key.
SweepDoneEarly ==
    /\ Continue(Sweeper, "sweep") /\ Goto(Sweeper, Evicting(NoKey))
    /\ SameLock /\ UNCHANGED <<store, reply>>
SweepDone ==
    /\ Continue(Sweeper, "sweep") /\ frame[Sweeper].rest = {}
    /\ Goto(Sweeper, Evicting(NoKey))
    /\ SameLock /\ UNCHANGED <<store, reply>>

-----------------------------------------------------------------------------
(* Stats: the keys are counted under the lock, the counters are loaded after. *)

Stats(p) ==
    /\ Call(p, "STATS") /\ CanRLock
    /\ Answer(p, NoReply, [at |-> "stats", count |-> Cardinality(Present(store))])
    /\ SameLock /\ UNCHANGED store

StatsCounters(p) ==
    /\ Continue(p, "stats")
    /\ Return(p, StatsReply(frame[p].count, store.usedMemory))
    /\ SameLock /\ UNCHANGED store

Tick ==
    /\ now < MaxTime
    /\ now' = now + 1
    /\ UNCHANGED <<store, writer, readers, frame, reply, issued, gets>>

-----------------------------------------------------------------------------
Init ==
    /\ \E name \in Policies : store = New(name)
    /\ now = 0 /\ writer = NoProc /\ readers = {}
    /\ frame = [p \in Procs |-> Idle] /\ reply = [p \in Procs |-> NoReply]
    /\ issued = 0 /\ gets = 0

Begin(p) == \/ Set(p) \/ Get(p) \/ Incr(p) \/ Expire(p) \/ TTL(p)
            \/ SAdd(p) \/ SRem(p) \/ SIsMember(p) \/ SMembers(p)
            \/ Delete(p) \/ Exists(p) \/ Evict(p) \/ Stats(p)

\* Steps that wait for the lock, and steps that do not.
Waiting(p) == \/ SetLocked(p) \/ ExpireLocked(p) \/ LazyDelete(p)
              \/ ExistsKey(p) \/ ExistsDone(p)
Holding(p) == \/ TTLRemaining(p) \/ DeleteKey(p) \/ DeleteDone(p)
              \/ EvictStep(p) \/ EvictDone(p) \/ StatsCounters(p)
Sweeping   == SweepKey \/ SweepDone

Next == \/ \E p \in Clients : Begin(p) \/ Waiting(p)
        \/ \E p \in Procs : Holding(p)
        \/ Sweep \/ Sweeping \/ Tick

Spec == Init /\ [][Next]_vars

\* A goroutine that can run does; one that waits for the RWMutex gets it, as
\* neither readers nor writers starve there; the sweep ticker never stops.
Fairness == /\ \A p \in Clients : SF_vars(Waiting(p))
            /\ \A p \in Procs : WF_vars(Holding(p))
            /\ SF_vars(Sweep) /\ WF_vars(Sweeping)

FairSpec == Spec /\ Fairness
=============================================================================
