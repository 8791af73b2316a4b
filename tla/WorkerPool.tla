----------------------------- MODULE WorkerPool -----------------------------
(***************************************************************************)
(* internal/server/pool.go, with the accept loop of Server.Serve that feeds *)
(* it. The accept loop sends each connection to the jobs channel and blocks *)
(* when it is full. A worker receives a connection, and only then waits for *)
(* one of its own slots; the handler's goroutine gives the slot back when   *)
(* the handler has returned. Serve's loop never ends, so the channel is     *)
(* never closed and no worker ends.                                         *)
(***************************************************************************)
EXTENDS Connections, Integers, Sequences

CONSTANTS
    Workers,
    ConnectionsPerWorker,
    QueueSize

ASSUME PoolAssumption ==
    /\ IsFiniteSet(Workers)
    /\ ConnectionsPerWorker \in Nat /\ QueueSize \in Nat

VARIABLES
    waiting,   \* in the backlog of the listener
    submit,    \* the connection the accept loop is sending, or NoConn
    jobs,      \* the buffered channel
    holds,     \* what each worker has received and has no slot for, or NoConn
    slots,     \* occupancy of each worker's connectionSlots
    running,   \* connections each worker's handlers are on
    unwinding, \* per worker, those whose handler returned, slot not yet free
    served     \* connections whose handler has returned

poolVars == <<waiting, submit, jobs, holds, slots, running, unwinding, served>>

PoolInit ==
    /\ waiting = {} /\ submit = NoConn /\ jobs = <<>> /\ served = {}
    /\ holds = [w \in Workers |-> NoConn]
    /\ slots = [w \in Workers |-> 0]
    /\ running = [w \in Workers |-> {}]
    /\ unwinding = [w \in Workers |-> {}]

InPool == {submit} \union {jobs[i] : i \in DOMAIN jobs}
          \union {holds[w] : w \in Workers}
          \union UNION {running[w] \union unwinding[w] : w \in Workers}

Connect(c) ==
    /\ c \notin waiting \union InPool \union served
    /\ waiting' = waiting \union {c}
    /\ UNCHANGED <<submit, jobs, holds, slots, running, unwinding, served>>

AcceptForPool(c) ==
    /\ submit = NoConn /\ c \in waiting
    /\ submit' = c /\ waiting' = waiting \ {c}
    /\ UNCHANGED <<jobs, holds, slots, running, unwinding, served>>

\* p.jobs <- conn, into the buffer.
Submit ==
    /\ submit # NoConn /\ Len(jobs) < QueueSize
    /\ jobs' = Append(jobs, submit) /\ submit' = NoConn
    /\ UNCHANGED <<waiting, holds, slots, running, unwinding, served>>

\* for conn := range w.jobs
Receive(w) ==
    /\ holds[w] = NoConn /\ jobs # <<>>
    /\ holds' = [holds EXCEPT ![w] = Head(jobs)] /\ jobs' = Tail(jobs)
    /\ UNCHANGED <<waiting, submit, slots, running, unwinding, served>>

\* Straight from the sender to a worker that waits: how a channel without a
\* buffer works, and one whose buffer is empty may.
HandOver(w) ==
    /\ holds[w] = NoConn /\ submit # NoConn /\ jobs = <<>>
    /\ holds' = [holds EXCEPT ![w] = submit] /\ submit' = NoConn
    /\ UNCHANGED <<waiting, jobs, slots, running, unwinding, served>>

\* w.connectionSlots <- struct{}{}, and the goroutine of the handler. Faulty:
\* the slot is given back at once, deferred to the wrong function.
StartUncounted(w) ==
    /\ holds[w] # NoConn /\ slots[w] < ConnectionsPerWorker
    /\ running' = [running EXCEPT ![w] = @ \union {holds[w]}]
    /\ holds' = [holds EXCEPT ![w] = NoConn]
    /\ UNCHANGED <<waiting, submit, jobs, slots, unwinding, served>>
Start(w) ==
    /\ holds[w] # NoConn /\ slots[w] < ConnectionsPerWorker
    /\ slots' = [slots EXCEPT ![w] = @ + 1]
    /\ running' = [running EXCEPT ![w] = @ \union {holds[w]}]
    /\ holds' = [holds EXCEPT ![w] = NoConn]
    /\ UNCHANGED <<waiting, submit, jobs, unwinding, served>>

\* w.handler(conn) returns.
Returns(w, c) ==
    /\ c \in running[w]
    /\ running' = [running EXCEPT ![w] = @ \ {c}]
    /\ unwinding' = [unwinding EXCEPT ![w] = @ \union {c}]
    /\ served' = served \union {c}
    /\ UNCHANGED <<waiting, submit, jobs, holds, slots>>

\* The deferred <-w.connectionSlots. Faulty: the goroutine ends without it.
ReleaseForgotten(w, c) ==
    /\ c \in unwinding[w]
    /\ unwinding' = [unwinding EXCEPT ![w] = @ \ {c}]
    /\ UNCHANGED <<waiting, submit, jobs, holds, slots, running, served>>
Release(w, c) ==
    /\ c \in unwinding[w]
    /\ unwinding' = [unwinding EXCEPT ![w] = @ \ {c}]
    /\ slots' = [slots EXCEPT ![w] = @ - 1]
    /\ UNCHANGED <<waiting, submit, jobs, holds, running, served>>

AcceptLoop == Submit \/ \E c \in Conns : AcceptForPool(c)
Worker(w)  == Receive(w) \/ HandOver(w) \/ Start(w)

PoolNext ==
    \/ AcceptLoop
    \/ \E w \in Workers : Worker(w)
    \/ \E w \in Workers, c \in Conns : Returns(w, c) \/ Release(w, c)
    \/ \E c \in Conns : Connect(c)

PoolSpec == PoolInit /\ [][PoolNext]_poolVars

\* The server's goroutines run; a handler returns when its client leaves, which
\* nobody promises.
Fairness == /\ WF_poolVars(AcceptLoop)
            /\ \A w \in Workers : WF_poolVars(Worker(w))
            /\ \A w \in Workers, c \in Conns : WF_poolVars(Release(w, c))
HandlersReturn(w) == \A c \in Conns : WF_poolVars(Returns(w, c))

FairPoolSpec == PoolSpec /\ Fairness

-----------------------------------------------------------------------------
(* Properties                                                                *)

\* A slot is taken exactly while a handler's goroutine is there, so a worker
\* never runs more of them than it has slots, the ones on their way out included.
SlotsCountHandlers ==
    \A w \in Workers :
        /\ slots[w] = Cardinality(running[w] \union unwinding[w])
        /\ slots[w] <= ConnectionsPerWorker

\* If handlers return, every client that connects is served.
EveryoneServed ==
    (\A w \in Workers : HandlersReturn(w)) =>
        \A c \in Conns : c \in waiting ~> c \in served

\* One worker whose handlers return is enough for the clients that the other
\* workers have not taken: a worker whose clients never leave keeps the ones in
\* its slots and the one it has received, and no more.
StuckWorkersKeepTheirOwn ==
    \A w \in Workers : HandlersReturn(w) =>
        \A c \in Conns :
            c \in waiting ~> \/ c \in served
                             \/ \E v \in Workers \ {w} : c \in running[v] \union {holds[v]}
=============================================================================
