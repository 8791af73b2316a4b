------------------------------ MODULE Shutdown ------------------------------
(***************************************************************************)
(* internal/server: ListenAndServe and its graceful shutdown.               *)
(*                                                                          *)
(* The main goroutine accepts, and after the context is canceled drains:    *)
(* it scans the tracked connections and closes the ones not marked busy,    *)
(* polls until none is left or the deadline has passed, force-closes the    *)
(* rest and waits a grace for the handlers. A handler goroutine per         *)
(* connection reads, marks itself busy, runs the complete commands it has   *)
(* and answers each. Clients connect, send their commands in pieces, read   *)
(* answers or do not, and leave.                                            *)
(***************************************************************************)
EXTENDS Connections, Integers

CONSTANTS
    CmdLen,    \* bytes of a command, so that one may arrive in pieces
    MaxCmds,   \* bound: commands the client of each connection sends
    Window     \* answers a client may leave unread before Write blocks

ASSUME ShutdownAssumption ==
    /\ CmdLen \in Nat \ {0} /\ MaxCmds \in [Conns -> Nat] /\ Window \in Nat \ {0}

VARIABLES
    canceled,        \* ctx.Done is closed
    listening,       \* the listener is open
    main,            \* where the main goroutine is
    todo, target,    \* what is left of its scan, the connection it is closing
    deadlinePassed,  \* drain's deadline
    conns,           \* connSet.conns
    conn,            \* each connection, its handler and its client
    owed             \* commands each busy handler held when the drain began

mainVars == <<main, todo, target, deadlinePassed, owed>>
vars == <<canceled, listening, mainVars, conns, conn>>

Connection ==
    [handler  : {"none", "top", "read", "got", "parse", "write",
                 "return", "remove", "wgdone", "done"},
     socket   : {"none", "backlog", "open", "closed"},   \* our end
     left     : BOOLEAN,          \* the client has closed its end
     busy     : BOOLEAN,          \* trackedConn.busy
     toSend   : Nat, inbox : Nat, pending : Nat,   \* bytes not sent, sent, read
     executed : Nat, answered : Nat,   \* commands dispatched, replies written
     unread   : 0 .. Window]           \* replies the client has not read

Fresh(c) ==
         [handler |-> "none", socket |-> "none", left |-> FALSE, busy |-> FALSE,
          toSend |-> MaxCmds[c] * CmdLen, inbox |-> 0, pending |-> 0,
          executed |-> 0, answered |-> 0, unread |-> 0]

Ended == \A c \in Conns : conn[c].handler \in {"none", "done"}

-----------------------------------------------------------------------------
(* The handler: handleConnection with UseRESPProtocol                        *)

At(c, l) == conn[c].handler = l
WriteFails(c) == conn[c].socket = "closed" \/ conn[c].left

SetIdle(c) == /\ At(c, "top")
              /\ conn' = [conn EXCEPT ![c].handler = "read", ![c].busy = FALSE]

\* Read returns some of what has arrived, or io.EOF or net.ErrClosed.
ReadData(c) == /\ At(c, "read") /\ conn[c].socket = "open"
               /\ \E n \in 1 .. conn[c].inbox :
                     conn' = [conn EXCEPT ![c].handler = "got", ![c].inbox = @ - n,
                                          ![c].pending = @ + n]

ReadErr(c) == /\ At(c, "read")
              /\ conn[c].socket = "closed" \/ (conn[c].left /\ conn[c].inbox = 0)
              /\ conn' = [conn EXCEPT ![c].handler = "return"]

SetBusy(c) == /\ At(c, "got")
              /\ conn' = [conn EXCEPT ![c].handler = "parse", ![c].busy = TRUE]

\* processRESPBuffer: the next complete command runs, or the input is
\* malformed, or more has to be read.
Execute(c) == /\ At(c, "parse") /\ conn[c].pending >= CmdLen
              /\ conn' = [conn EXCEPT ![c].handler = "write", ![c].executed = @ + 1]

Malformed(c) == /\ At(c, "parse") /\ conn[c].pending > 0
                /\ conn' = [conn EXCEPT ![c].handler = "return"]

Incomplete(c) == /\ At(c, "parse") /\ conn[c].pending < CmdLen
                 /\ conn' = [conn EXCEPT ![c].handler = "top"]

\* Faulty: the bytes of the command are cut off the buffer twice.
WriteReplyTwice(c) ==
    /\ At(c, "write") /\ conn[c].socket = "open" /\ conn[c].unread < Window
    /\ conn' = [conn EXCEPT ![c].handler = "parse", ![c].answered = @ + 1,
                            ![c].unread = @ + 1, ![c].pending = @ - 2 * CmdLen]
WriteReply(c) == /\ At(c, "write") /\ conn[c].socket = "open" /\ conn[c].unread < Window
                 /\ conn' = [conn EXCEPT ![c].handler = "parse", ![c].answered = @ + 1,
                                         ![c].unread = @ + 1, ![c].pending = @ - CmdLen]

\* Faulty: the error of Write is dropped and the batch goes on.
WriteErrIgnored(c) == /\ At(c, "write") /\ WriteFails(c)
                      /\ conn' = [conn EXCEPT ![c].handler = "parse",
                                              ![c].pending = @ - CmdLen]
WriteErr(c) == /\ At(c, "write") /\ WriteFails(c)
               /\ conn' = [conn EXCEPT ![c].handler = "return"]

\* The deferred conn.Close, conns.remove and wg.Done, in that order.
\* Faulty: the handler returns without closing.
DeferCloseForgotten(c) == At(c, "return") /\ conn' = [conn EXCEPT ![c].handler = "remove"]
DeferClose(c) == /\ At(c, "return")
                 /\ conn' = [conn EXCEPT ![c].handler = "remove", ![c].socket = "closed"]

\* connSet.mu is held over the whole scan of closeIdle and closeAll.
DeferRemove(c) == /\ At(c, "remove") /\ main \notin {"scan", "close", "force"}
                  /\ conn' = [conn EXCEPT ![c].handler = "wgdone"]
                  /\ conns' = conns \ {c}

DeferDone(c) == At(c, "wgdone") /\ conn' = [conn EXCEPT ![c].handler = "done"]

Handler(c) ==
    /\ \/ DeferRemove(c)
       \/ /\ \/ SetIdle(c) \/ ReadData(c) \/ ReadErr(c) \/ SetBusy(c)
             \/ Execute(c) \/ Malformed(c) \/ Incomplete(c)
             \/ WriteReply(c) \/ WriteErr(c) \/ DeferClose(c) \/ DeferDone(c)
          /\ UNCHANGED conns
    /\ UNCHANGED <<canceled, listening, mainVars>>

-----------------------------------------------------------------------------
(* The main goroutine: serveListener and drain                               *)

Accept(c) == /\ main = "accept" /\ listening /\ conn[c].socket = "backlog"
             /\ conn' = [conn EXCEPT ![c].socket = "open", ![c].handler = "top"]
             /\ conns' = conns \union {c}
             /\ UNCHANGED mainVars

\* Accept fails on the closed listener; drain computes its deadline.
AcceptErr ==
    /\ main = "accept" /\ ~ listening /\ main' = "drain"
    /\ owed' = [c \in Conns |-> IF conn[c].busy
                                THEN conn[c].answered + conn[c].pending \div CmdLen ELSE 0]
    /\ UNCHANGED <<todo, target, deadlinePassed, conns, conn>>

\* closeIdle: each connection is looked at, then closed if it was not busy.
StartScan == /\ main = "drain" /\ main' = "scan" /\ todo' = conns
             /\ UNCHANGED <<target, deadlinePassed, owed, conns, conn>>

ScanBusy(c) == /\ main = "scan" /\ c \in todo /\ conn[c].busy /\ todo' = todo \ {c}
               /\ UNCHANGED <<main, target, deadlinePassed, owed, conns, conn>>

\* Faulty: nobody looks at the mark.
ScanIdleAny(c) == /\ main = "scan" /\ c \in todo
                  /\ main' = "close" /\ target' = c /\ todo' = todo \ {c}
                  /\ UNCHANGED <<deadlinePassed, owed, conns, conn>>
ScanIdle(c) == /\ main = "scan" /\ c \in todo /\ ~ conn[c].busy
               /\ main' = "close" /\ target' = c /\ todo' = todo \ {c}
               /\ UNCHANGED <<deadlinePassed, owed, conns, conn>>

CloseIdleConn == /\ main = "close" /\ main' = "scan" /\ target' = NoConn
                 /\ conn' = [conn EXCEPT ![target].socket = "closed"]
                 /\ conns' = conns \ {target}
                 /\ UNCHANGED <<todo, deadlinePassed, owed>>

ScanEnd == /\ main = "scan" /\ todo = {} /\ main' = "check"
           /\ UNCHANGED <<todo, target, deadlinePassed, owed, conns, conn>>

\* drain's loop test. Faulty: the deadline is never looked at.
CheckForever == /\ main = "check" /\ main' = IF conns = {} THEN "wait" ELSE "drain"
                /\ UNCHANGED <<todo, target, deadlinePassed, owed, conns, conn>>
Check == /\ main = "check"
         /\ main' = IF conns = {} THEN "wait" ELSE IF deadlinePassed THEN "force" ELSE "drain"
         /\ UNCHANGED <<todo, target, deadlinePassed, owed, conns, conn>>

\* closeAll. Faulty: the connections are forgotten, not closed.
ForceForget(c) == /\ main = "force" /\ c \in conns /\ conns' = conns \ {c}
                  /\ UNCHANGED <<mainVars, conn>>
ForceClose(c) == /\ main = "force" /\ c \in conns
                 /\ conn' = [conn EXCEPT ![c].socket = "closed"]
                 /\ conns' = conns \ {c}
                 /\ UNCHANGED mainVars

ForceEnd == /\ main = "force" /\ conns = {} /\ main' = "wait"
            /\ UNCHANGED <<todo, target, deadlinePassed, owed, conns, conn>>

\* waitGroupTimeout: the handlers are done, or the grace is over. Either way
\* serveListener returns nil.
Wait == /\ main = "wait" /\ Ended /\ main' = "returned"
        /\ UNCHANGED <<todo, target, deadlinePassed, owed, conns, conn>>

GraceOver == /\ main = "wait" /\ main' = "gaveUp"
             /\ UNCHANGED <<todo, target, deadlinePassed, owed, conns, conn>>

Deadline == /\ main \in {"drain", "scan", "close", "check"} /\ ~ deadlinePassed
            /\ deadlinePassed' = TRUE
            /\ UNCHANGED <<main, todo, target, owed, conns, conn>>

Main == /\ \/ AcceptErr \/ StartScan \/ CloseIdleConn \/ ScanEnd \/ Check \/ ForceEnd \/ Wait
           \/ \E c \in Conns : Accept(c) \/ ScanBusy(c) \/ ScanIdle(c) \/ ForceClose(c)
        /\ UNCHANGED <<canceled, listening>>

Timer == (Deadline \/ GraceOver) /\ UNCHANGED <<canceled, listening>>

\* The watcher goroutine.
CloseListener == /\ canceled /\ listening /\ listening' = FALSE
                 /\ UNCHANGED <<canceled, mainVars, conns, conn>>

-----------------------------------------------------------------------------
(* The signal and the clients                                                *)

Cancel == /\ ~ canceled /\ canceled' = TRUE
          /\ UNCHANGED <<listening, mainVars, conns, conn>>

Reachable(c) == conn[c].socket \in {"backlog", "open"} /\ ~ conn[c].left

Client(c) ==
    /\ \/ /\ conn[c].socket = "none" /\ listening
          /\ conn' = [conn EXCEPT ![c].socket = "backlog"]
       \/ /\ Reachable(c)
          /\ \E n \in 1 .. conn[c].toSend :
                conn' = [conn EXCEPT ![c].toSend = @ - n, ![c].inbox = @ + n]
       \/ /\ conn[c].unread > 0 /\ ~ conn[c].left
          /\ conn' = [conn EXCEPT ![c].unread = @ - 1]
       \/ /\ Reachable(c)
          /\ conn' = [conn EXCEPT ![c].left = TRUE]
    /\ UNCHANGED <<canceled, listening, mainVars, conns>>

-----------------------------------------------------------------------------
Init == /\ canceled = FALSE /\ listening = TRUE
        /\ main = "accept" /\ todo = {} /\ target = NoConn /\ deadlinePassed = FALSE
        /\ conns = {} /\ conn = [c \in Conns |-> Fresh(c)] /\ owed = [c \in Conns |-> 0]

Next == \/ Main \/ Timer \/ CloseListener \/ Cancel
        \/ \E c \in Conns : Handler(c) \/ Client(c)

Spec == Init /\ [][Next]_vars

\* The server's own goroutine and timers run; nothing is asked of handlers
\* (one may be stuck in a system call) or of clients.
MainFairness == WF_vars(Main) /\ WF_vars(CloseListener) /\ WF_vars(Deadline /\ Timer)
                /\ WF_vars(GraceOver /\ Timer)
\* Handlers run too, unless they wait for the client.
HandlerFairness == \A c \in Conns : WF_vars(Handler(c))

FairSpec == Spec /\ MainFairness

-----------------------------------------------------------------------------
(* Properties                                                                *)

\* Every variable has its type.
TypeOK ==
    /\ canceled \in BOOLEAN /\ listening \in BOOLEAN /\ deadlinePassed \in BOOLEAN
    /\ main \in {"accept", "drain", "scan", "close", "check", "force", "wait",
                 "returned", "gaveUp"}
    /\ todo \in SUBSET Conns /\ conns \in SUBSET Conns
    /\ target \in Conns \union {NoConn} /\ (main = "close" => target \in Conns)
    /\ conn \in [Conns -> Connection] /\ owed \in [Conns -> Int]

Drained == main \in {"wait", "returned", "gaveUp"}

\* When drain has returned no accepted connection is open: an open one stays in
\* connSet until somebody closes it, and drain returns only on an empty set.
DrainClosesAll == Drained => \A c \in Conns : conn[c].socket # "open"

\* A command that ran has its answer written before the next one runs, and a
\* batch stops at the first answer that cannot be written: never more than one
\* command per connection has run without an answer, closed under it or not.
AtMostOneUnanswered == \A c \in Conns : conn[c].executed - conn[c].answered \in {0, 1}

\* A batch that was running when the drain began is answered to its last
\* command before closeIdle closes its connection.
StartedBatchAnswered ==
    [][\A c \in Conns :
          /\ main = "close" /\ conn[c].handler # "return"
          /\ conn[c].socket = "open" /\ conn'[c].socket = "closed"
          => conn[c].answered >= owed[c]]_vars

\* Why: what a handler has left to do at each of its points, and who may hold
\* an open connection. Inductive; the two invariants above follow from it.
ConnOK(r) ==
    /\ r.handler = "none" <=> r.socket \in {"none", "backlog"}
    /\ r.executed - r.answered \in CASE r.handler = "write" -> {1}
                                     [] r.handler \in {"return", "remove", "wgdone", "done"} -> {0, 1}
                                     [] OTHER -> {0}
    /\ r.handler = "write" => r.pending >= CmdLen
    /\ r.handler \in {"remove", "wgdone", "done"} => r.socket = "closed"
TrackingOK == /\ \A c \in Conns : ConnOK(conn[c])
              /\ \A c \in Conns : conn[c].socket = "open" => c \in conns
              /\ \A c \in conns \union todo : conn[c].handler # "none"
              /\ main = "close" => conn[target].handler # "none"
              /\ Drained => conns = {}

\* A canceled server returns, whatever its handlers and clients do.
ShutdownReturns == canceled ~> main \in {"returned", "gaveUp"}

\* Closing a connection wakes its handler: once drained, every handler ends,
\* if handlers run unless they wait for the client.
HandlersEnd == HandlerFairness => (Drained ~> Ended)

\* "closes idle connections at once, gives in-flight commands up to
\* ShutdownTimeout to finish" (server.go:152), "Blocked in Read means no
\* command is in flight" (server.go:54): before the deadline no connection is
\* closed whose handler holds input it has not answered.
InFlightFinishes ==
    [][\A c \in Conns :
          /\ ~ deadlinePassed /\ main = "close"
          /\ conn[c].socket = "open" /\ conn'[c].socket = "closed"
          => conn[c].handler \notin {"got", "parse", "write"}]_vars
=============================================================================
