# A verification project for redis-course

TLA+ models of the server in this repository, the TLC runs that check them and
the theorems TLAPS proves about them. The code is a Redis-like server in Go: a
concurrent in-memory store with expiry, memory accounting and eviction, a RESP
front end, and a TCP server: a goroutine per connection with a graceful shutdown,
a pool of workers, or one epoll loop.

## 1. Inventory

| Component | Code | State | Operations | What makes it correct |
|---|---|---|---|---|
| Key-value store | `internal/storage/store.go`, `string_value.go`, `stats.go` | `data` (record with absolute expiry per key), `usedMemory`, hit, miss, expiry and eviction counters, an RWMutex | Set, Get, Incr, Expire, TTL, Delete, Exists, Stats | callers see a map whose entries vanish at their deadline; accounting is exact; every GET is a hit or a miss |
| Sets | `simple_set_value.go` | members of a record | SAdd, SRem, SIsMember, SMembers | as above; an emptied set disappears |
| Eviction | `eviction.go` | limits, the policy | evictLocked, Evict, Sweep | within the limits whenever the lock is free; nothing live is lost uncounted |
| Policies | `eviction_lru.go`, `eviction_lfu.go`, `eviction_random.go` | list, frequency table, key set | OnInsert, OnAccess, OnRemove, Victim | track exactly the keys of the map; the victim is the one the policy names |
| Containers | `count_min_sketch.go`, `bloom_filter.go` | counters, bits | CMS.\*, BF.\* | an estimate is never below the truth; no false negative |
| Sorted sets | `sorted_set_value.go` | a record with an ordered index | ZADD, ZREM, ZSCORE, ZRANK, ZRANGE | accounting follows the members; an emptied set disappears |
| Ordered indexes | `skip_list.go`, `b_tree_plus.go` | a table of members; linked levels, or nodes, separators and a chain of leaves | add, update, remove, getMemberScore, getRank, getRange | each is a map of members to scores, read in order of score and member |
| RESP codec | `internal/protocol/resp.go` | none | ParseCommand, DecodeOne, encoders | a prefix of a command is neither consumed nor an error; what follows a command is left alone |
| Command handlers | `internal/protocol/command_*.go` | none but the shared store | arity, argument conversion, one call of the store, encoding | arguments convert without loss |
| Server | `internal/server/server.go` | connections with a busy mark, a wait group, the listener | accept, read, run, answer, drain, force-close, return | the drain ends, closes all, and lets running batches finish |
| Worker pool | `internal/server/pool.go` | a queue, slots per worker | Submit, Start, Close | every submitted connection is served |
| Event loop | `serveWithIOMultiplexing`, `internal/io_multiplexing` | a buffer per descriptor, epoll's interest list, a batch of events | wait, accept, reject, read, parse, write, close | commands of a client in order and answered, descriptors never mixed up, slots never lost |

How they interact: a connection's goroutine reads bytes, the RESP parser cuts
commands off them, a handler converts the arguments and calls one method of the
one shared Store, and the goroutine writes the answer. The Store calls its
eviction policy while it holds its own lock, readers under the shared one, so
policies have a mutex of their own. A ticker goroutine of `cmd/resp-server`
calls Sweep. SIGTERM cancels a context: a watcher closes the listener, the accept
loop ends and drains. With `UseIOMultiplexing` there are no handlers: one thread
takes a batch of readiness events from epoll and goes through it, accepting,
reading, running commands and writing answers in place. It knows clients by their
descriptors only, which the kernel reuses.

What is hard: readers that find an expired record have to drop the shared lock
before they can delete it; the policy and the memory counter are kept in step by
hand on every path; deadlines are computed before the lock is taken; the clock
moves between any two reads of it; the shutdown looks at a busy mark that the
handler sets after Read has returned; the event loop acts on events that may be
older than what it did since; the network cuts a client's stream anywhere; a B+ tree
without merging and a skip list with redrawn heights keep their pointers in step by
hand. `PROJECT.json` lists these hazards at their
lines, each with the properties that would catch it going wrong.

## 2. Modules

| Module | Models | Depends on |
|---|---|---|
| `Records` | the record of a key, the size charged for it, int64 arithmetic | |
| `Eviction` | the three policies as operators on a policy's value | |
| `PolicyUse` | a policy and the uses it should remember | `Eviction` |
| `Bookkeeping` | the fields of a Store and the helpers that keep map, policy, memory and counters in step, `evictLocked`'s test and its step | `Records`, `Eviction` |
| `Store` | Store under concurrent callers: its RWMutex, the string and set commands, the sweeper and the clock | `Bookkeeping` |
| `StoreProperties` | the properties of Store | `Store`, `ExpiringMap` |
| `ExpiringMap` | the abstract specification: the map that callers see | `Records` |
| `CountMinSketch`, `BloomFilter` | a sketch and a filter as values, word arithmetic, any hash function | |
| `Containers` | the CMS, BF and sorted-set commands on the map they share with every other type | `Bookkeeping`, `BloomFilter`, `ScoreOrder` |
| `ScoreOrder` | the order of scores and members, ranks, and what a range selects | |
| `ScoreMap` | the abstract specification of an ordered index: a map of members to scores | `ScoreOrder` |
| `SkipList`, `BPlusTree` | the two indexes as values: nodes, pointers, separators, counts | `ScoreOrder` |
| `OrderedIndex` | an index of either kind under any calls, and its properties | `SkipList`, `BPlusTree`, `ScoreMap` |
| `Resp` | encoding and decoding, ParseCommand | |
| `EventLoop` | serveWithIOMultiplexing, epoll, descriptors, clients, and their properties | `Resp` |
| `Connections` | the connections that clients may open | |
| `Shutdown` | ListenAndServe, the handlers, their clients, and their properties | `Connections` |
| `WorkerPool` | the accept loop, the queue and the workers of the thread-pool server | `Connections` |
| `MCStore`, `MCContainers`, `MCOrderedIndex`, `MCShutdown`, `MCEventLoop` | constants and symmetry for TLC | |
| `EvictionProofs`, `PolicyUseProofs`, `StoreProofs`, `ContainersProofs`, `OrderedIndexProofs`, `BPlusTreeProofs`, `ServerProofs`, `EventLoopProofs` | lemmas and theorems | the modules they prove about |

### Store

`store` is the struct without its configuration. A goroutine is in at most one
call (`frame`), whose answer is put in `reply` when the code has decided it. A
step is what a goroutine does between two points where another can run: it takes
the lock, or goes on while it holds it. A section that reads the clock once and
moves only state the lock protects is one step. The loops of DEL, `evictLocked`
and Sweep are a step per iteration, because Sweep reads the clock each time and
Stats reads the counters without the lock. Between the sections of a call the
frame remembers what the code has in its local variables: SET and EXPIRE the
deadline they computed before the lock, a reader the key it has to delete, EXISTS
the keys that are left, TTL the deadline between its two clock reads, Stats the
count of keys.

Data is abstract: strings are values of which only length and `ParseInt` matter,
a set's argument list is a set because a repeated member changes nothing, the
linked list of the LRU is the place of each key in it. Time is a natural number
in arbitrary units, of which `TimeUnit` make the second that TTL counts. `MaxInt`
is the largest machine integer, increment wraps at it.

Three simplifications: Stats loads its six counters in one step (five of them
could differ only from each other); a miss is counted in the step that releases
the lock (its counter is read only by Stats); `hits`, `misses` and `usedMemory` do
not wrap.

### ExpiringMap

What the callers are promised: `view` has the live records only, an entry that is
overtaken by the clock is gone in that instant, a call that asks for a write has
it done at one instant before its answer. No lock, sweep, policy or lazy deletion
exists there. `View` and `Pending` in `StoreProperties` are the refinement mapping.
EXISTS and Stats are promised only the form of their answers because they look at
several instants; DEL may or may not count a record that has expired. With limits,
entries may be forgotten at any moment.

### Shutdown

Each connection is a record of its handler's place in `handleConnection`, the
state of our end of the socket, the busy mark, and its bytes: not yet sent, in
the receive buffer, read into `pending`. Commands are of `CmdLen` bytes, counted and
not told apart: how they are cut off a stream is the subject of `Resp` and `EventLoop`;
what matters here is that several may be read together. The main goroutine holds the mutex of
connSet over a scan, so a handler's `remove` waits; the scan reads a mark in one
step and closes in the next. A client that leaves answers unread blocks Write
after `Window` of them. The clients are the environment: they connect, send, read,
leave, or do none of it.

### Eviction and PolicyUse

A policy is a value with the fields of all three implementations, of which its
`name` says which are in use. The linked list of the LRU is the place of each
key in it; the LFU's sample is any `SampleSize` of its keys because Go's map
iteration starts anywhere; a random victim is any key. Every method holds the
policy's mutex for its whole body, so each is one step of its caller. `PolicyUse`
drives one policy with the calls a Store may make and records the uses beside it.

### Containers

Every CMS, BF and sorted-set method holds the lock from its first line to its
return, so a call is one step, up to and including the evictions that end a write;
`Evicted` is the set of the stores `evictLocked` may end with. The containers live
under the same keys as strings, so SET, DEL and EXPIRE are there to replace, remove and
outdate them: a record has no deadline or one that has passed, because a deadline
that is still ahead makes no difference to these commands. CMS.INCRBY goes through
its list and stops at the first overflow with the earlier increments applied, as
the code does; CMS.MERGE reports the first error in the order in which the code
meets them. A filter that is evicted by its own creation is filled outside the map.
A sorted set is its map of scores here, which is what `OrderedIndex` shows an index
to be; ZADD is given a map because its handler makes one, keeping the last score of
a repeated member. Each member is charged its name and eight bytes. The three
reading commands have the same effect on the store and are one action. Histories
(`counted`, `members`) remember what was really put into each container.
FNV-1a is a constant function, the logarithms that size a filter are left out.

### OrderedIndex

`SkipList` has a node's pointers of all levels in `next`; a node is identified by its
item, for the table `members` has one node of a member at a time. `predecessors` is the
search of the code, level after level from the top. `add` draws a new height before
every level it links, so a node's height is any height: the model takes each. The walk
along one level is `lastBefore`, a function of the node it starts from.

`BPlusTree` keeps nodes in a heap by address, because leaves point at each other.
Splits, the promotion of a separator, the growth of the root, the dropping of emptied
nodes with one separator, the collapse of the root and the refresh of counts are the
code's, in its order. A new node gets the lowest free address, a node off the tree leaves
the heap; which address a node has means nothing to any step. `getRank` adds up counts on the way down, `getRange` follows the chain of
leaves, membership is the table's: three views that have to agree.

Members and scores are integers, of which only the order matters. NaN, which has no
place in an order, is rejected by ZADD's handler.

### Resp and EventLoop

A stream is a sequence of units rather than bytes: a prefix byte with the number that
follows it (`$3`), CR LF, or a byte of text. A buffer that ends inside a unit is to the
decoder the same as one that ends before it: it looks for the CR LF and finds the
line incomplete. Lengths count units. The model has no CR or LF alone and no
number near the limits of an int. Requests by line are cut at CR LF.

`EventLoop` has one variable per table that knows descriptors: `owner` is the kernel's,
`monitored` is epoll's interest list, `pending` the loop's. accept takes the lowest
free number. epoll is level-triggered: `Wait` returns any `MaxConnections` of the ready
descriptors, or all if they are fewer. An event is a descriptor; for the properties
it is kept with the connection it was reported for. The loop takes the events of a
batch in any order. `Read` brings up to `BufferSize` units, then commands are cut off
one by one: a RESP command is removed after its answer is written, a line before
(`Answered`, `Execute`). Writing blocks the loop while a client has `Window` answers
unread, as its descriptors are blocking ones. Writing to a client that has left may
succeed, fail, or make its side reset the connection, which may drop bytes that the
loop has not read. Accept and Monitor may fail.

Clients are the environment: they connect, send up to one of their `Cuts`, read answers,
and if they are among `Leavers` close at any moment. Closing only the sending side
(shutdown(2)) is left out: then the client still reads, and the loop treats it as one
that has left.

### WorkerPool

The accept loop blocks in Submit while the queue is full. A worker receives a
connection and only then waits for a slot; the slot goes back when the goroutine
of the handler unwinds. Go may hand a connection from the sender to a waiting
receiver directly, which is how a queue of length zero works. Handlers and clients
are the environment.

The faulty definitions in the modules (each is introduced by a comment that begins
with "Faulty") are what a plausible bug would put in place of the next definition.
No specification uses them; with one of them in place the named run reports the
property it should.

## 3. What the runs check

| Run | Shows | Instance |
|---|---|---|
| `policies` | while a key is tracked there is a victim; LRU's is the key unused for longest; at most as many keys are rarer than LFU's victim as its sample can have missed | 4 keys, samples of 2, 7 uses: samples smaller than the key set and ties of frequency occur |
| `store_map` | the store implements `ExpiringMap` through all string and set commands, each GET is counted once; types | 1 key, 2 interchangeable clients and the sweeper, 4 calls, 3 instants, deadlines ahead, negative and none |
| `store_capacity` | lock discipline, memory, policy, limits; the written key goes last under LRU; nothing live is lost uncounted | 2 keys of different length, limit 5 bytes: two short records fit, two long ones do not, LRU and random, 2 interchangeable clients, 4 calls, 3 instants, deadlines ahead |
| `store_live` | every call returns; every expired record is removed although no command touches it | 2 keys, limit of 1 entry, 3 calls, 3 instants |
| `containers` | sketches never underestimate and their rows add up; filters have no false negative; an emptied sorted set is no key; memory, policy and limits are exact | 2 keys, 2 items that collide in some rows, 4 shapes, words 0..4, 2 members of different length and score, room for two small sketches or one large, 6 calls |
| `index` | both indexes implement `ScoreMap`; table, rank and range agree; levels are sorted and nested, leaves chained both ways, separators divide, leaves are equally deep | 6 members, 3 of them with 2 scores, heights up to 2, order 3, any number of calls |
| `shutdown` | the drain leaves nothing open; no connection runs past an unanswered command; a batch that was running when the drain began is answered; a canceled server returns whatever handlers and clients do; after the drain every handler ends if handlers run | 2 connections, 2 pipelined commands on one and none on the other, a client's window of 1 answer |
| `event_loop` | tables, epoll and kernel agree; no event is stale; commands run in order, once, however the stream is cut; a connection is closed only for cause; every client that stays is answered | 3 clients for 2 connections, RESP and lines, reads of up to 8 units of commands of up to 7, a window of 1 answer, 2 clients that may leave |
| `pool` | slots count handlers; every client is served while handlers return; a worker whose clients never leave keeps only what it has taken | 5 clients, 2 workers of 1 slot, queue of 1: the slots, the workers' hands and the queue can all be full at once |
| `store_live_limit`, `store_snapshot`, `shutdown_inflight` | see Findings | the smallest that shows it |

The bounds. `MaxOps` bounds the calls, `MaxTime` the clock, `MaxUses` the uses of a
policy, `MaxCmds` and `CmdLen` the traffic of a connection, `Window` the answers a
client leaves unread, `MaxHeight` the skip list, `Frames`, `Cuts` and `Leavers`
what clients of the event loop do. Four calls of two clients are enough for each of the races
the hazards name: the longest needs a write with a deadline, a reader that met the
expired record and waits for the lock, and a write in between. Three instants give a
record that is live, at its deadline, and expired. `MaxInt = 0` leaves the machine
word the values -1 and 0, so that INCR crosses its boundary in one call. Two
connections are enough for the scan of the drain to pass one while another moves;
two commands are the least that can be run one after the other unanswered. The other
client connects, stays or leaves at any moment and sends nothing: handlers touch each
other through the drain only, so an idle connection is what it needs to meet while
the first one is busy; what holds of every number of busy connections is proved
(section 6).
Six members at order 3 give a tree of three levels with inner splits, dropped inner
nodes and a root that collapses; the graph of values is finite, so `index` covers every
sequence of calls of any length. The model gives a new node the lowest free address and
bounds the nodes by nothing; no step and no property depends on which address a node
has, so the run has a `VIEW` (`MCOrderedIndex.View`) that takes two trees for one when
they are the same once their nodes are numbered in the order of the tree.
In `event_loop` the third client is the one that is rejected while two are served and the
one that gets a reused descriptor when one of them has left; one client sends a line break inside a bulk string, one sends tokens
of other types and then a request that is none; streams are cut inside a frame, at
its end and between two, and a read of 8 units may end inside the second command.
The safety runs of `Store` count states up to the exchange of its two clients, which no
definition tells apart; the run of its liveness properties does not.
Deadlock is checked in the runs of Store and means something there: the sweeper
can always begin once it gets the lock, so a state without a next step is one whose
lock is never given back. It is not checked where the system really may stop: a
server that has returned, a pool or a loop without further clients, a history at its
bound, an index, which can always be called.

## 4. Fairness

`Store`: a goroutine that can run does (weak fairness of the loops and of what
needs no lock). Getting the lock is strongly fair: a waiting writer blocks new
readers of a `sync.RWMutex`, and readers that wait get in after a writer, so nobody
starves although the lock is taken and released in between. The sweeper's ticker
never stops (`cmd/resp-server/main.go:41-54`; with `-sweep-interval 0` there is none,
and then `ExpiredRemoved` is not promised). Clients need not call.

`Shutdown`: the main goroutine, the watcher that closes the listener and the two
timers run. Nothing is assumed of handlers or clients for `ShutdownReturns`.
`HandlersEnd` states its own premise: handlers run whenever they do not wait for
their client; that is what the scheduler gives a goroutine that is not in a system
call.

`EventLoop`: the thread runs while it has something to do. epoll's ready list is a
queue: a descriptor it has reported goes to the end, so one that stays ready is
reported after at most as many events as there are others, although `MaxConnections`
bounds a batch; the model takes any subset and states that promise as strong
fairness of each descriptor. Clients that have answers to read and stay read them:
without that one client stops the loop for all, as the code writes in place
(`server.go:327`), and `CommandsAnswered` is not promised. Clients need not connect, send
or leave.

`WorkerPool`: the accept loop, the workers and the deferred release run. That
handlers return is the premise of each of the two liveness properties, of all
workers in one, of one worker in the other.

## 5. Findings

- `store_live_limit`: expired records that nobody has removed count against
  `WithMaxEntries`, so a live key is evicted although no more than the limit are
  live; the comment and the flag speak of live keys (`eviction.go:29`, `:145`).
- `store_snapshot`: Stats takes the key count under the lock and the counters after
  it, which is no snapshot (`stats.go:18-36`).
- `shutdown_inflight`: between Read and `setBusy(true)`, and between the look at the
  mark and Close, a connection with a command read counts as idle and is closed
  unanswered (`server.go:54-60`, `:459-462`). What does hold is
  `StartedBatchAnswered`: a batch marked busy when the drain starts gets all its
  answers, unless the deadline passes or its client leaves.

Three more disagreements were read off the code and have no run, because one call
shows them: INCR of the largest integer wraps though the error message speaks of
the range (`string_value.go:180`, `store.go:10`); EXISTS and TTL do not refresh the
eviction policy though `stats.go:5-6` says that other reads do; serveListener returns
nil after its grace with handlers still running though `server.go:153-154` calls a nil
error a clean shutdown.

## 6. What is proved

For every value of the constants that satisfies the named assumptions:

| Theorem | Says |
|---|---|
| `StoreTypes`, `LockHeldInSections` | `TypeOK`, `LockOK` |
| `MemoryIsExact` | `usedMemory` is the size of the map at every step of any number of clients |
| `PolicyIsExact` | every policy tracks exactly the keys of the map |
| `StoreIsWithinCapacity` | `WithinCapacity` of `Store`: no call ends over the limits, with any number of clients |
| `LRUKeepsWritten` | `LRUKeepsWrittenKey`: under LRU a write evicts every other key before its own |
| `GetsAreCounted` | `GetsCounted`: each GET is counted once, as a hit or as a miss |
| `NothingIsLostSilently` | `NoSilentLoss`: a live record goes only because a client asked for it or an eviction was counted |
| `StoreImplementsMap` | `ImplementsMap`: every behaviour of `Store` is one of `ExpiringMap` under the refinement mapping |
| `ContainersMemoryIsExact`, `ContainersPolicyIsExact`, `ContainersStayWithinCapacity` | the three invariants of `Containers` about memory, policy and limits |
| `SketchesNeverUnderestimate` | `NeverUnderestimates`, for any hash function, shapes, word size, weights and sources |
| `RowsSumUp` | `RowsSumToCount`: each row of a sketch adds up to its count, which no overflow wraps |
| `FiltersHaveNoFalseNegative` | `NoFalseNegative`, for any hash function and any size of filter |
| `NoSortedSetIsEmpty` | `NoEmptySortedSet` |
| `LevelsAreNested` | `LevelsNested`: each level of a skip list is sorted and leaves out some nodes of the level below, for any members, scores, number of levels and heights drawn |
| `SeparatorsAlwaysDivide` | `SeparatorsDivide`: in a B+ tree of any order, after any calls, a descent for an item ends at the leaf that has it, all leaves are equally deep, no node is over its size or empty |
| `LeavesAlwaysChained` | `LeavesChained`: the pointers between the leaves go through them in the order of the tree, both ways |
| `IndexIsScoreMap` | `ImplementsScoreMap` on either index: under any calls the list that ranges are read from is the map of scores that the calls say |
| `IndexAnswers` | `QueriesAgree` on either index: rank and range are those of the sorted scores; list, table and length agree |
| `VictimsExist`, `LRUEvictsOldest`, `LFUEvictsRare` | the three properties of `PolicyUse`, for any keys, sample size and sequence of uses |
| `ShutdownTypes` | `TypeOK` of `Shutdown` |
| `DrainClosesAllHolds` | after the drain nothing is open, for any number of connections |
| `AtMostOneUnansweredHolds` | no connection runs past an unanswered command |
| `StartedBatchIsAnswered` | `StartedBatchAnswered`: a batch that was running when the drain began is answered, for any number of connections and commands |
| `Tables`, `FreshEvents` | `TablesAgree` and `EventsFresh` of `EventLoop`, for any clients, limits, streams and cuts |
| `CommandsRunInOrder` | `CommandsInOrder`: however streams are cut, the commands run are the first the client meant, in its order, none twice |
| `NeverClosedWithoutCause` | `ClosedOnlyForCause`: the loop closes on a client that stays only for a malformed request, after all commands before it |
| `SlotsAreExact` | the slots of every worker count its handlers, for any number of workers, slots and clients |

The assumptions are those of the modules: finite sets of keys, members, items and
clients with lengths in Nat, `ParseInt` undoing `FormatInt`, limits in Nat, names that
are distinct, the head of a skip list and nil no items. `FramesAssumption` says what a client's frames are: a request is a
sequence of units that the parser, given nothing else, reads as its command and reads
to its end, a malformed one is one that it refuses. It is what the word "meant" stands
for in `CommandsInOrder`; that pieces and concatenations of frames are read so is proved.
TLC evaluates the assumptions in the runs.

Store. `IInv` is TypeOK, LockOK, MemoryExact and PolicyTracksData together. None of
the four is inductive alone: a removal charges back the size of the record in the
map, which needs types; a frame in the eviction loop may go on only because LockOK
says that it holds the lock; a victim is a key of the map because the policy tracks
exactly those. `MemoryExact` is stated with a set of pairs, one per byte, rather than
with a recursive sum, so that replacing one record is a fact about disjoint finite
sets. `StoreProofs` first shows that each helper of `Bookkeeping`
takes a good store to a good store, then goes through the actions once for the
store, once for the frames and once for the lock.

What the store promises (the second half of `StoreProofs`) rests on that invariant.
- Limits. The map may be over them only while a frame is in its eviction loop
  (`OverOnlyEvicting`), and that frame holds the lock; the loop ends only when the test
  of `evictLocked` fails or there is no victim, and with an exact policy there is one
  as long as there is a key. For LRU the written key stays in front of every other
  (`WrittenInFront`) because the lock keeps out other writers and also readers, who move
  keys to the front under the shared lock.
- Counters. Every GET in flight is counted or owes a count; the steps of a GET move one
  to the other, and all other steps leave both.
- Losses. A step that removes a live record is an eviction, which is counted in the
  same step, or an iteration of a DEL that names it, the step of a past EXPIRE, or an
  SREM of its last members. The sweep and the lazy deletions remove only what has
  expired: they look again under the lock.
- Refinement. The mapping gives `ExpiringMap` the live records (`View`) and, for each
  goroutine, the SET, EXPIRE or DEL that it has begun and not done (`Pending`). The
  proof sorts the steps of `Store` into kinds: one that moves nothing the map can see
  is a stutter; a section that reads or writes is the map's step of that call; an
  eviction is a forgetting; a tick of the clock a passing of time. One invariant is
  added (`TTLHeld`): a TTL between its two readings of the clock holds the lock shared,
  so the record whose deadline it has read is still the one in the map.

Containers (`ContainersProofs`). The invariant has three parts.
- The store is `Good` (typed, memory exact, policy exact). Each helper of `Bookkeeping`
  is shown to be a change of the record of one key (`Becomes`), and a call is such
  changes of one key one after the other. The sizes meet where a sorted set is changed in
  place: what ZADD and ZREM charge is the difference of the sizes before and after.
- It is within its limits. A write ends in `Evicted`, whose loop has as many rounds as
  there are keys: each either finds nothing to do or removes a record, so after the last
  there is nothing to do (`EvictedGood`). What does not end there leaves no record larger
  than it was (`LighterFits`).
- Each record keeps what its type promises, given the history of its key. For a sketch
  `NeverUnderestimates` itself is not enough, as a minimum over the rows says nothing
  of the other rows: every counter an item is counted in has at least its true count
  (`Lower`). An increment and a weighted addition keep that because the tests for
  overflow leave no sum to wrap. For the sums the invariant says as much of the
  count as of the rows (`SumsUp`): an increment adds the same number to the sum of the
  items, to one counter of each row and to the count, and a merge multiplies and adds
  row by row as it does the counts, all below the word size since the tests are made
  on the counters and on the count. `MapThenSumSet` picks elements in an order that
  does not depend on what is summed, so a sum of sums is a sum term by term; that one
  changed term changes a sum by its difference is by induction over the subsets that it
  goes through.

The loops over argument lists are recursive functions over 0 .. n. Two lemmas do for all of
them: such a function exists (`Recursion`), and a set that has 0 and the successor of each
of its members up to n has n (`CountUp`), both by the least counterexample.

Skip list (`OrderedIndexProofs`). `SkipOK` says that there is a sequence of items for each
level such that each is in strict order (`Sorted`), the pointers of the level go through it
from the head to nil and no other node has a pointer there (`Threads`), each has only
items of the one below (`Lists`), and the lowest has exactly the items of the
table (`Table`). The sequences are what the pointers stand for: `ChainIs` shows that following
a level's pointers gives its sequence, `WalkIs` that walking from any node before x ends
at the last one before x, `SearchIs` that the descent does so on every level, as the
node it comes down with is on the level below. With that, linking a node is an insertion in
the sequences of the levels up to its height (`LinkLists`) and unlinking it a removal from
those that have it (`UnlinkLists`). Walks and chains are recursive functions over the nodes;
that one exists is shown by giving it, and what it returns by counting down from the end of
the sequence (`CountDown`).

B+ tree (`BPlusTreeProofs`). None of its properties is
inductive. That separators divide what is under them says nothing of a tree in the middle
of a split, where a new node hangs from nothing; it does not say that a search ends, nor
which items a leaf that has become empty may get again: that depends on separators much
higher up. `TreeOK` therefore says that there are

- heights `h`, 0 for a leaf and one more for a parent than for its children (`Ranked`): the
  recursions are by height, and all leaves are equally deep;
- scopes `W`, for each node the items it may hold: a node's items and keys are in its
  scope, and an item in the scope of a child is in its parent's and is one for which the
  parent's keys lead to that child (`Routed`);
- a sequence `L` of all the leaves, each once, that leafHead, `next` and `prev` go through
  (`Chained`), with scopes one after the other (`InOrder`);

such that no node is a child twice and all but the root are children (`OneParent`,
`Rooted`), sizes are in bounds (`Sized`), only the root of an empty tree is an empty leaf
(`Filled`), the leaves hold exactly the items of the table (`Kept`) and each count is the
number of items of the node's scope that some leaf holds (`Held`). Scopes are what makes
it inductive: they are kept as a deletion drops nodes and keys (what a dropped child's
scope had may stay unused: the tree never merges), and a split divides one scope in two at
the promoted item.

`Nest` is that for nodes with *orphans*: a new sibling that no node has as a child yet.
Splitting a leaf or an inner node gives a nest with one orphan `Beside` it (`LeafSplitNest`,
`InnerSplitNest`), hanging it in the parent or under a new root gives a nest without
(`AttachNest`, `GrowNest`). `Grown` says what `insertInternal` returns for a node, and is
shown for a leaf (`InsertLeaf`) and for an inner node from the same of its child
(`InsertInner`); `Shrunk` does it for `deleteItem`, with the unlinking of an empty leaf
(`UnchainIs`) and the dropping of an empty child (`DropTree`). A root with one child gives
it its place (`LowerNest`), as often as that is so. Each recursive definition, insertion, deletion,
counts, rank, the leaves under a node, is one step (`InsertStep`, `DeleteStep`, ...) of a function
that exists by induction on heights; the induction is `ByHeight`, on the least node that
would be an exception.

For the properties, the leaves in the order of the tree and the leaves of the chain are
both *the* sequence of the leaves ordered by what they hold, and there is one such
sequence (`Lined`, `LinedOnce`, `LinedConcat`). The same holds of their items, so the items
along the chain are the sorted list of the table. A rank at an inner node is the counts of
the children to the left, which are disjoint (`TotalIs`), plus the rank in the child
(`RankInner`).

Both indexes end at one statement, `ListOf`: a sorted list with exactly the items of the
table, which the skip list's lowest level is (`SkipShows`) and the tree's chain of leaves
(`TreeShows`). From it follow the refinement of `ScoreMap` and the answers. For ranks, the
members before one are in one-to-one correspondence with the places before its own
(`CountFirst`).

PolicyUse. The invariant ties what a policy has to the history of uses: the place of each
key in LRU's list is in the order of last uses, the frequency of each key in LFU's
table is the number of its uses since it was inserted. That a victim exists then is a
minimum over a finite set, by well-founded induction.

Shutdown. `DrainClosesAll` needs `TrackingOK`: a socket is open only while its
connection is in `connSet`, what the scan holds is a connection that exists, and a
drain that is over left the set empty; and, per connection, which places of the
handler go with which marks and answers (`ConnOK`). The last gives
`AtMostOneUnanswered` too. `StartedBatchAnswered` needs in addition what the drain found
running (`KeepsOwed`): a busy handler has answered, or still holds in its buffer, as many
commands as are owed; one that is not busy has no whole command left, so a scan that
finds it idle closes nothing that is owed.

Worker pool. A slot and a handler could fall out of step if a worker started a
connection that it runs already, so the invariant adds to the types that a
connection is in one place at a time (`OnePlace`): the backlog, the accept loop, the
queue (once), one worker's hand, or started.

Event loop. `IInv` is TypeOK, TablesAgree, EventsFresh and BatchWatched together.
EventsFresh says that what an event was reported for is still true when the loop
comes to it; a close could make it false if another event of the batch had the
descriptor that is closed, and an accept if one had the descriptor that is reused.
`BatchWatched` rules both out: every event left in the batch is of a watched
descriptor, and none is of the one being handled; a watched descriptor is an open one
(TablesAgree), so that accept cannot be given it. TypeOK of this module is no property
of a run, as the proof establishes it.

What the loop does with a client's stream rests on one fact of the parser
(`RequestStable`): a command, or a refusal, that it answers for a part of the data it
answers for all of it. A buffer may end anywhere, and each of the functions of `Resp`
looks at the data only up to what it needs: a line up to its CR LF, a payload up to its
length. `Decode` is a recursive function of position and count. It is defined everywhere
(`Decoded`), and what it reads at a position of the part it reads there in the whole
(`DecodeStable`); both are shown from the end of the data backwards, for a value always
ends further on than it begins. With FramesAssumption, where a frame begins the parser then
reads that frame and no more, and says "incomplete" for anything shorter
(`FrameRead`). `StreamsOK` is the invariant about streams: for each client there is a number
`h` of frames that are run (`Ran`), what is pending is the piece of its stream from the
end of those frames (less the one being answered, `Owed`) up to what the loop has read
(`ReadUpTo`, `Buffered`), and a client that is closed on while it stays has a malformed
frame next. A reset drops bytes that are not read yet, so where the next Read
continues is known only while there is something to read or the client has not left.

## 7. What is only model-checked

Liveness under fairness (`CallsComplete`, `ExpiredRemoved`, `ShutdownReturns`,
`HandlersEnd`, `EveryoneServed`, `StuckWorkersKeepTheirOwn`, `CommandsAnswered`) is beyond
TLAPS here, as is ENABLED. Every invariant and every refinement that a run checks is a
theorem of section 6.

## 8. What is not modelled

- The command handlers but for ZADD's map of members: they check the arity, convert
  arguments, make one call and encode its answer, and keep no state. The conversion
  that matters most is seconds to nanoseconds, which overflows for large arguments of
  EXPIRE and SET EX (`command_expire.go:19`, `command_set.go:31`): `Store` starts from the
  duration it is given, negative and zero ones included.
- The encoders of single answers, and in `Resp` numbers at the limits of an int and a
  CR or LF alone.
- A client that closes only its sending side, and errors of epoll_wait, which the loop
  answers by waiting again.
- `Close` of the worker pool, which Serve's endless loop never reaches, and the line
  protocol of the goroutine-per-connection server (the event loop's is modelled).
- The demo programs in `cmd`, FNV-1a and the sizing of filters.

## 9. Plan

What is left: the handlers' conversion of durations, in a small word, in front of `Store`.
