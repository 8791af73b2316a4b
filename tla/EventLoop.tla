----------------------------- MODULE EventLoop -----------------------------
(***************************************************************************)
(* internal/server: serveWithIOMultiplexing, one thread that serves all     *)
(* clients from the batches of readiness events epoll hands it.             *)
(*                                                                          *)
(* File descriptors are numbers the kernel reuses, lowest first; the tables *)
(* of the loop and of epoll know clients by them alone. Clients connect,    *)
(* send their frames in pieces, read the replies and may leave any time.    *)
(***************************************************************************)
EXTENDS Resp, FiniteSetsExt

Seqs == INSTANCE SequencesExt

CONSTANTS
    Clients, NoClient,
    MaxConnections,
    BufferSize,    \* units one Read returns at most
    Window,        \* replies a client may leave unread before Write blocks
    Frames,        \* by protocol, what each client has to send: a sequence of frames
    Cuts,          \* bound: after how many units of it a Send may end
    Leavers        \* bound: the clients that may leave

Protocols == {"resp", "line"}

\* What a client sends for a command, and what is none.
Request(units, command) == [units |-> units, valid |-> TRUE, command |-> command]
Malformed(units) == [units |-> units, valid |-> FALSE, command |-> <<>>]

ASSUME EventLoopAssumption ==
    /\ IsFiniteSet(Clients) /\ NoClient \notin Clients
    /\ MaxConnections \in Nat \ {0} /\ BufferSize \in Nat \ {0} /\ Window \in Nat \ {0}
    /\ Cuts \in [Protocols -> [Clients -> SUBSET Nat]]

VARIABLES
    protocol,     \* config.UseRESPProtocol
    at,           \* where the loop is
    batch,        \* the events it has not come to
    fd, consumed, \* event.Fd of the one it handles, bytes of its command
    pending,      \* unparsed data by descriptor
    monitored,    \* the descriptors epoll watches for the loop
    owner,        \* the kernel's table: whose connection a descriptor is
    conn,         \* each client and its connection
    handled       \* the commands run for each client

vars == <<protocol, at, batch, fd, consumed, pending, monitored, owner, conn, handled>>

listenerFD == 0
Descriptors == 1 .. MaxConnections + 1   \* one more until it is rejected

\* The first i frames of a client, and all of them.
FirstFrames ==
    [p \in Protocols |-> [c \in Clients |->
        LET first[i \in 0 .. Len(Frames[p][c])] ==
                IF i = 0 THEN <<>> ELSE first[i - 1] \o Frames[p][c][i].units
        IN first]]
Stream == [p \in Protocols |-> [c \in Clients |-> FirstFrames[p][c][Len(Frames[p][c])]]]

\* The next command in the data, or that there is none.
NextRequest(p, data) == IF p = "resp" THEN ParseCommand(data) ELSE ReadRequest(data)

\* A request is what is read as its command when nothing else is sent, and a
\* malformed one what is refused then. A client sends no more than it has.
ASSUME FramesAssumption ==
    \A p \in Protocols, c \in Clients :
        /\ Len(Frames[p][c]) \in Nat /\ DOMAIN Frames[p][c] = 1 .. Len(Frames[p][c])
        /\ \A i \in DOMAIN Frames[p][c] :
              LET frame == Frames[p][c][i] IN
              /\ frame.units \in Seq(Units)
              /\ NextRequest(p, frame.units) =
                    IF frame.valid THEN Ok(frame.command, Len(frame.units) + 1) ELSE ProtocolError
        /\ Cuts[p][c] \subseteq 0 .. Len(Stream[p][c])

Connection ==
    [phase  : {"none", "backlog", "open", "rejected", "closed"},
     left   : BOOLEAN,        \* the client has closed its end
     sent   : Nat,            \* units of its stream it has sent
     inbox  : Nat,            \* those of them the loop has not read
     unread : 0 .. Window]    \* replies the client has not read

Unconnected == [phase |-> "none", left |-> FALSE, sent |-> 0, inbox |-> 0, unread |-> 0]

Init ==
    /\ protocol \in Protocols
    /\ at = "wait" /\ batch = {} /\ fd = listenerFD /\ consumed = 0
    /\ pending = <<>> /\ monitored = {listenerFD}
    /\ owner = [d \in Descriptors |-> NoClient]
    /\ conn = [c \in Clients |-> Unconnected] /\ handled = [c \in Clients |-> <<>>]

-----------------------------------------------------------------------------
(* Clients and the network                                                   *)

Connect(c) == /\ conn[c].phase = "none"
              /\ conn' = [conn EXCEPT ![c].phase = "backlog"]

Send(c) == /\ conn[c].phase \in {"backlog", "open"} /\ ~ conn[c].left
           /\ \E n \in Cuts[protocol][c] :
                 /\ n > conn[c].sent
                 /\ conn' = [conn EXCEPT ![c].sent = n, ![c].inbox = @ + n - conn[c].sent]

ReadReply(c) == /\ conn[c].phase = "open" /\ conn[c].unread > 0 /\ ~ conn[c].left
                /\ conn' = [conn EXCEPT ![c].unread = @ - 1]

\* Closing with a reset drops what the loop has not read.
Leave(c) == /\ c \in Leavers
            /\ conn[c].phase \in {"backlog", "open"} /\ ~ conn[c].left
            /\ \E n \in {0, conn[c].inbox} :
                  conn' = [conn EXCEPT ![c].left = TRUE, ![c].inbox = n]

Client(c) == /\ Connect(c) \/ Send(c) \/ ReadReply(c) \/ Leave(c)
             /\ UNCHANGED <<protocol, at, batch, fd, consumed, pending, monitored, owner, handled>>

-----------------------------------------------------------------------------
(* epoll                                                                     *)

\* An event carries a descriptor only; whose it was when epoll reported it is
\* kept beside it for the properties.
Event(d) == [fd |-> d, client |-> IF d = listenerFD THEN NoClient ELSE owner[d]]

Backlog == {c \in Clients : conn[c].phase = "backlog"}
Readable(d) == IF d = listenerFD THEN Backlog # {}
               ELSE owner[d] # NoClient /\ (conn[owner[d]].inbox > 0 \/ conn[owner[d]].left)
Ready == {d \in monitored : Readable(d)}

\* Level-triggered, into an array of MaxConnections events.
Wait == /\ at = "wait" /\ Ready # {}
        /\ \E ds \in kSubset(Min({MaxConnections, Cardinality(Ready)}), Ready) :
              batch' = {Event(d) : d \in ds}
        /\ at' = "events"
        /\ UNCHANGED <<protocol, fd, consumed, pending, monitored, owner, conn, handled>>

-----------------------------------------------------------------------------
(* The loop over a batch                                                     *)

Take(e) == at = "events" /\ e \in batch /\ batch' = batch \ {e}
Continue == at' = IF batch' = {} THEN "wait" ELSE "events"

LowestFree == Min({d \in Descriptors : owner[d] = NoClient})
Full == Cardinality(DOMAIN pending) >= MaxConnections

Accept(e) ==
    /\ Take(e) /\ e.fd = listenerFD /\ ~ Full
    /\ \E c \in Backlog :
          /\ conn' = [conn EXCEPT ![c].phase = "open"]
          /\ owner' = [owner EXCEPT ![LowestFree] = c]
          /\ monitored' = monitored \union {LowestFree}
          /\ pending' = [x \in DOMAIN pending \union {LowestFree} |->
                          IF x = LowestFree THEN <<>> ELSE pending[x]]
    /\ Continue /\ UNCHANGED <<protocol, fd, consumed, handled>>

\* Unmonitors and closes the descriptor d and forgets about it. What is still
\* on its way on the connection no longer matters.
\* Faulty: its pending data is kept.
CloseKeepsPending(d) ==
    /\ conn' = [conn EXCEPT ![owner[d]].phase = "closed", ![owner[d]].inbox = 0,
                            ![owner[d]].unread = 0]
    /\ owner' = [owner EXCEPT ![d] = NoClient]
    /\ monitored' = monitored \ {d}
    /\ consumed' = 0
    /\ UNCHANGED pending
Close(d) ==
    /\ conn' = [conn EXCEPT ![owner[d]].phase = "closed", ![owner[d]].inbox = 0,
                            ![owner[d]].unread = 0]
    /\ owner' = [owner EXCEPT ![d] = NoClient]
    /\ monitored' = monitored \ {d}
    /\ pending' = [x \in DOMAIN pending \ {d} |-> pending[x]]
    /\ consumed' = 0

\* Faulty: a full server closes its oldest descriptor and lets the new client
\* come back with the next event.
RejectOldest(e) ==
    /\ Take(e) /\ e.fd = listenerFD /\ Full
    /\ Close(Min(DOMAIN pending))
    /\ Continue /\ UNCHANGED <<protocol, fd, handled>>
\* Also when Monitor fails; a client's descriptor is closed before any other
\* call could see it.
Reject(e) ==
    /\ Take(e) /\ e.fd = listenerFD
    /\ \E c \in Backlog : conn' = [conn EXCEPT ![c].phase = "rejected"]
    /\ Continue /\ UNCHANGED <<protocol, fd, consumed, pending, monitored, owner, handled>>

AcceptFails(e) ==
    /\ Take(e) /\ e.fd = listenerFD
    /\ Continue /\ UNCHANGED <<protocol, fd, consumed, pending, monitored, owner, conn, handled>>

\* syscall.Read returns what has arrived, up to the size of its buffer. An event of a
\* descriptor the loop no longer knows is skipped.
Read(e) ==
    /\ Take(e) /\ e.fd # listenerFD
    /\ IF e.fd \notin DOMAIN pending
       THEN Continue /\ UNCHANGED <<fd, pending, conn>>
       ELSE LET c == owner[e.fd]
                first == conn[c].sent - conn[c].inbox + 1
                n == Min({BufferSize, conn[c].inbox})
            IN /\ n > 0
               /\ pending' = [pending EXCEPT ![e.fd] =
                                 @ \o SubSeq(Stream[protocol][c], first, first + n - 1)]
               /\ conn' = [conn EXCEPT ![c].inbox = @ - n]
               /\ fd' = e.fd /\ at' = "parse"
    /\ UNCHANGED <<protocol, consumed, monitored, owner, handled>>

\* io.EOF or ECONNRESET.
ReadErr(e) ==
    /\ Take(e) /\ e.fd \in DOMAIN pending
    /\ conn[owner[e.fd]].inbox = 0 /\ conn[owner[e.fd]].left
    /\ Close(e.fd) /\ Continue
    /\ UNCHANGED <<protocol, fd, handled>>

Parsed == NextRequest(protocol, pending[fd])
Without(n) == [pending EXCEPT ![fd] = SubSeq(@, n + 1, Len(@))]

\* A line is cut off before it is answered, a RESP command after.
Execute ==
    /\ at = "parse" /\ Parsed.status = "ok"
    /\ handled' = [handled EXCEPT ![owner[fd]] = Append(@, Parsed.value)]
    /\ IF protocol = "line"
       THEN pending' = Without(Parsed.next - 1) /\ UNCHANGED consumed
       ELSE consumed' = Parsed.next - 1 /\ UNCHANGED pending
    /\ at' = "write" /\ UNCHANGED <<protocol, batch, fd, monitored, owner, conn>>

Incomplete ==
    /\ at = "parse" /\ Parsed.status = "incomplete"
    /\ at' = (IF batch = {} THEN "wait" ELSE "events")
    /\ UNCHANGED <<protocol, batch, fd, consumed, pending, monitored, owner, conn, handled>>

Refuse ==
    /\ at = "parse" /\ Parsed.status = "error"
    /\ Close(fd)
    /\ UNCHANGED batch /\ Continue /\ UNCHANGED <<protocol, fd, handled>>

Answered == pending' = Without(consumed) /\ consumed' = 0

\* Faulty: one command is taken from what a Read returns.
WriteOne ==
    /\ at = "write" /\ Answered
    /\ ~ conn[owner[fd]].left /\ conn[owner[fd]].unread < Window
    /\ conn' = [conn EXCEPT ![owner[fd]].unread = @ + 1]
    /\ UNCHANGED batch /\ Continue /\ UNCHANGED <<protocol, fd, monitored, owner, handled>>
\* Write blocks the loop while the client leaves a window of replies unread.
Write ==
    /\ at = "write" /\ Answered
    /\ ~ conn[owner[fd]].left /\ conn[owner[fd]].unread < Window
    /\ conn' = [conn EXCEPT ![owner[fd]].unread = @ + 1]
    /\ at' = "parse" /\ UNCHANGED <<protocol, batch, fd, monitored, owner, handled>>

\* What is written to a client that has left may be taken all the same, and
\* makes its side reset the connection.
WriteLost ==
    /\ at = "write" /\ Answered
    /\ conn[owner[fd]].left
    /\ \E n \in {0, conn[owner[fd]].inbox} : conn' = [conn EXCEPT ![owner[fd]].inbox = n]
    /\ at' = "parse" /\ UNCHANGED <<protocol, batch, fd, monitored, owner, handled>>

WriteErr ==
    /\ at = "write" /\ conn[owner[fd]].left
    /\ Close(fd)
    /\ UNCHANGED batch /\ Continue /\ UNCHANGED <<protocol, fd, handled>>

Handle == \E e \in batch :
             Accept(e) \/ Reject(e) \/ AcceptFails(e) \/ Read(e) \/ ReadErr(e)
Parse == Execute \/ Incomplete \/ Refuse
Reply == Write \/ WriteLost \/ WriteErr

Next == Wait \/ Handle \/ Parse \/ Reply \/ \E c \in Clients : Client(c)

Spec == Init /\ [][Next]_vars

\* The loop runs, epoll's ready list is a queue, and a client that stays reads
\* its replies. Clients need not connect, send or leave.
Fairness ==
    /\ WF_vars(Wait \/ Handle \/ Reply)
    /\ WF_at(at = "parse" /\ at' \in {"wait", "events", "write"})    \* Parse
    /\ \A d \in Descriptors : SF_vars(Wait /\ \E e \in batch' : e.fd = d)
    /\ \A c \in Clients : WF_vars(ReadReply(c) /\ Client(c))

FairSpec == Spec /\ Fairness

-----------------------------------------------------------------------------
(* Properties                                                                *)

TypeOK ==
    /\ protocol \in Protocols /\ at \in {"wait", "events", "parse", "write"}
    /\ DOMAIN pending \subseteq Descriptors
    /\ at \in {"parse", "write"} => fd \in DOMAIN pending
    /\ owner \in [Descriptors -> Clients \union {NoClient}]
    /\ conn \in [Clients -> Connection]

\* The descriptors the loop keeps data for, the open ones of the kernel and
\* those epoll watches are the same, one for each client being served: a slot
\* of a closed connection is always free again.
TablesAgree ==
    /\ DOMAIN pending = {d \in Descriptors : owner[d] # NoClient}
    /\ monitored = DOMAIN pending \union {listenerFD}
    /\ Cardinality(DOMAIN pending) <= MaxConnections
    /\ \A c \in Clients : conn[c].phase = "open" <=> \E d \in Descriptors : owner[d] = c
    /\ \A d, x \in DOMAIN pending : owner[d] = owner[x] => d = x

\* No event of a batch has gone stale when the loop comes to it: its descriptor
\* still is the connection it was reported for and has something to read, so
\* that neither Accept nor Read, which block, can stop the loop.
EventsFresh ==
    \A e \in batch : Readable(e.fd) /\ e = Event(e.fd)

\* The commands a client has to send, up to a malformed request.
WellFormed(c) ==
    {i \in DOMAIN Frames[protocol][c] : \A j \in 1 .. i : Frames[protocol][c][j].valid}
Commands(c) == [i \in WellFormed(c) |-> Frames[protocol][c][i].command]

\* However the network cuts a client's stream, the loop runs the commands the
\* client meant, in its order, none twice, and nothing after a malformed one.
CommandsInOrder ==
    \A c \in Clients :
        Seqs!IsPrefix(handled[c], Commands(c))

\* The loop closes on a client that has not left only for a malformed request,
\* after all the commands before it: never because a request is incomplete or
\* because of another client.
ClosedOnlyForCause ==
    \A c \in Clients :
        conn[c].phase = "closed" /\ ~ conn[c].left =>
            WellFormed(c) # DOMAIN Frames[protocol][c] /\ handled[c] = Commands(c)

\* The commands a client has sent whole.
Whole(c) == {i \in WellFormed(c) : Len(FirstFrames[protocol][c][i]) <= conn[c].sent}

\* Under Fairness, the loop always gets to where everything a client has sent
\* whole is answered: none is left in the buffer until the client sends more,
\* and no other client, full batch or full server keeps the loop from it.
CommandsAnswered ==
    \A c \in Clients :
        []<>(conn[c].phase = "open" /\ ~ conn[c].left =>
                /\ Len(handled[c]) = Cardinality(Whole(c))
                /\ at = "write" => owner[fd] # c)
=============================================================================
