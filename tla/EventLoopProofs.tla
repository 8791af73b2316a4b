--------------------------- MODULE EventLoopProofs --------------------------
(***************************************************************************)
(* For any set of clients and whatever they send: the tables of the loop, of*)
(* epoll and of the kernel agree, and no event is stale when the loop comes*)
(* to it. The invariants need each other and one more: an event of the batch*)
(* is of a descriptor still watched and not of the one being handled.      *)
(*                                                                         *)
(* The parser answers for the front of the data what it answers for all of *)
(* it. So the loop runs the commands that each client meant, in order and  *)
(* once, and closes on a client that stays only for a malformed request.   *)
(***************************************************************************)
EXTENDS EventLoop, FiniteSetTheorems, WellFoundedInduction, TLAPS

BatchWatched ==
    /\ \A e \in batch : e.fd \in monitored
    /\ at \in {"parse", "write"} => \A e \in batch : e.fd # fd

IInv == TypeOK /\ TablesAgree /\ EventsFresh /\ BatchWatched

LEMMA MinOfNaturals ==
    ASSUME NEW S \in SUBSET Nat, S # {}
    PROVE  Min(S) \in S /\ \A y \in S : Min(S) <= y
<1>1. IsWellFoundedOn(OpToRel(<, Nat), Nat)
  BY NatLessThanWellFounded
<1>2. PICK x \in S : \A y \in S : ~ (<<y, x>> \in OpToRel(<, Nat))
  BY <1>1, WFMin
<1>3. \A y \in S : ~ (y < x)
  BY <1>2, Zenon DEF OpToRel
<1>4. \A y \in S : x <= y
  BY <1>3, SMT
<1> QED  BY <1>4 DEF Min

LEMMA InitIInv == Init => IInv
<1> SUFFICES ASSUME Init PROVE IInv
  OBVIOUS
<1>1. DOMAIN pending = {}
  BY SMT DEF Init
<1>2. TypeOK
  <2>1. Unconnected \in Connection
    BY EventLoopAssumption, SMT DEF Unconnected, Connection
  <2>2. conn \in [Clients -> Connection]
    BY <2>1 DEF Init
  <2> QED  BY <1>1, <2>2 DEF Init, TypeOK
<1>3. TablesAgree
  <2>1. \A c \in Clients : conn[c].phase = "none"
    BY DEF Init, Unconnected
  <2>2. \A d \in Descriptors : owner[d] = NoClient
    BY DEF Init
  <2>3. monitored = {listenerFD}
    BY DEF Init
  <2>4. Cardinality(DOMAIN pending) = 0 /\ 0 <= MaxConnections
    BY <1>1, FS_EmptySet, EventLoopAssumption, SMT
  <2> QED  BY <1>1, <2>1, <2>2, <2>3, <2>4, EventLoopAssumption DEF TablesAgree
<1>4. batch = {} /\ at = "wait"
  BY DEF Init
<1> QED  BY <1>2, <1>3, <1>4 DEF IInv, EventsFresh, BatchWatched

-----------------------------------------------------------------------------
(* Steps that leave the tables alone                                         *)

\* No step but Accept and Close touches a table, and then no client goes in or
\* out of phase "open".
LEMMA TablesKept ==
    ASSUME IInv, UNCHANGED <<owner, monitored>>, DOMAIN pending' = DOMAIN pending,
           \A c \in Clients : conn'[c].phase = "open" <=> conn[c].phase = "open"
    PROVE  TablesAgree'
  BY DEF IInv, TablesAgree

\* What is readable stays readable until the loop reads it.
LEMMA EventsKept ==
    ASSUME IInv, UNCHANGED <<owner, monitored>>, batch' \subseteq batch,
           Backlog # {} => Backlog' # {} \/ \A e \in batch' : e.fd # listenerFD,
           \A e \in batch' : e.fd # listenerFD =>
               LET c == owner[e.fd]
               IN conn[c].inbox > 0 \/ conn[c].left =>
                     conn'[c].inbox > 0 \/ conn'[c].left
    PROVE  EventsFresh' /\ \A e \in batch' : e.fd \in monitored'
<1> SUFFICES ASSUME NEW e \in batch'
             PROVE  Readable(e.fd)' /\ e = Event(e.fd)' /\ e.fd \in monitored'
  BY DEF EventsFresh
<1>1. e \in batch /\ Readable(e.fd) /\ e = Event(e.fd) /\ e.fd \in monitored
  BY DEF IInv, EventsFresh, BatchWatched
<1>2. e = Event(e.fd)'
  BY <1>1 DEF Event
<1>3. Readable(e.fd)'
  <2>1. CASE e.fd = listenerFD
    BY <2>1, <1>1 DEF Readable
  <2>2. CASE e.fd # listenerFD
    BY <2>2, <1>1 DEF Readable
  <2> QED  BY <2>1, <2>2
<1> QED  BY <1>1, <1>2, <1>3

LEMMA ClientKeeps == ASSUME IInv, NEW c \in Clients, Client(c) PROVE IInv'
<1> USE EventLoopAssumption
<1>1. conn' \in [Clients -> Connection]
  <2>1. conn \in [Clients -> Connection] /\ protocol \in Protocols
    BY DEF IInv, TypeOK
  <2>2. CASE Connect(c)
    BY <2>1, <2>2, SMT DEF Connect, Connection
  <2>3. CASE Send(c)
    <3>1. PICK n \in Cuts[protocol][c] :
             /\ n > conn[c].sent
             /\ conn' = [conn EXCEPT ![c].sent = n, ![c].inbox = @ + n - conn[c].sent]
      BY <2>3 DEF Send
    <3>2. n \in Nat
      BY <2>1
    <3> QED  BY <2>1, <3>1, <3>2, SMT DEF Connection
  <2>4. CASE ReadReply(c)
    BY <2>1, <2>4, SMT DEF ReadReply, Connection
  <2>5. CASE Leave(c)
    <3>1. PICK n \in {0, conn[c].inbox} :
             conn' = [conn EXCEPT ![c].left = TRUE, ![c].inbox = n]
      BY <2>5 DEF Leave
    <3>2. n \in Nat
      BY <2>1, SMT DEF Connection
    <3> DEFINE q == [conn[c] EXCEPT !.left = TRUE, !.inbox = n]
    <3>3. conn' = [conn EXCEPT ![c] = q]
      BY <3>1
    <3>4. q \in Connection
      BY <2>1, <3>2, ZenonT(40) DEF Connection
    <3> QED  BY <2>1, <3>3, <3>4
  <2> QED  BY <2>2, <2>3, <2>4, <2>5 DEF Client
<1>2. /\ \A x \in Clients : conn'[x].phase = "open" <=> conn[x].phase = "open"
      /\ \A x \in Clients : conn[x].phase = "backlog" => conn'[x].phase = "backlog"
      /\ \A x \in Clients : conn[x].inbox > 0 \/ conn[x].left =>
                               conn'[x].inbox > 0 \/ conn'[x].left
  <2>1. conn \in [Clients -> Connection] /\ protocol \in Protocols
    BY DEF IInv, TypeOK
  <2>2. CASE Connect(c)
    BY <2>1, <2>2, SMT DEF Connect, Connection
  <2>3. CASE Send(c)
    <3>1. PICK n \in Cuts[protocol][c] :
             /\ n > conn[c].sent
             /\ conn' = [conn EXCEPT ![c].sent = n, ![c].inbox = @ + n - conn[c].sent]
      BY <2>3 DEF Send
    <3>2. n \in Nat
      BY <2>1
    <3> QED  BY <2>1, <3>1, <3>2, SMT DEF Connection
  <2>4. CASE ReadReply(c)
    BY <2>1, <2>4, SMT DEF ReadReply, Connection
  <2>5. CASE Leave(c)
    <3>1. PICK n \in {0, conn[c].inbox} :
             conn' = [conn EXCEPT ![c].left = TRUE, ![c].inbox = n]
      BY <2>5 DEF Leave
    <3>2. n \in Nat
      BY <2>1, SMT DEF Connection
    <3> DEFINE q == [conn[c] EXCEPT !.left = TRUE, !.inbox = n]
    <3>3. conn' = [conn EXCEPT ![c] = q]
      BY <3>1
    <3>4. q.phase = conn[c].phase /\ q.left
      BY <2>1, Zenon DEF Connection
    <3> QED  BY <2>1, <3>3, <3>4
  <2> QED  BY <2>2, <2>3, <2>4, <2>5 DEF Client
<1>3. UNCHANGED <<protocol, at, batch, fd, pending, monitored, owner>>
  BY DEF Client
<1>4. TypeOK'
  BY <1>1, <1>3 DEF IInv, TypeOK
<1>5. TablesAgree'
  BY <1>2, <1>3, TablesKept
<1>6. EventsFresh' /\ \A e \in batch' : e.fd \in monitored'
  <2>1. Backlog # {} => Backlog' # {}
    BY <1>2 DEF Backlog
  <2>2. \A e \in batch : e.fd # listenerFD => owner[e.fd] \in Clients
    BY DEF IInv, TypeOK, TablesAgree, BatchWatched
  <2> QED  BY <1>2, <1>3, <2>1, <2>2, EventsKept
<1>7. BatchWatched'
  BY <1>3, <1>6 DEF IInv, BatchWatched
<1> QED  BY <1>4, <1>5, <1>6, <1>7 DEF IInv

-----------------------------------------------------------------------------
(* epoll and the loop                                                        *)

LEMMA WaitKeeps == ASSUME IInv, Wait PROVE IInv'
<1>1. PICK ds \in SUBSET Ready : batch' = {Event(d) : d \in ds}
  BY DEF Wait, kSubset
<1>2. UNCHANGED <<protocol, fd, pending, monitored, owner, conn>> /\ at' = "events"
  BY DEF Wait
<1>3. TypeOK'
  BY <1>2 DEF IInv, TypeOK
<1>4. TablesAgree'
  BY <1>2 DEF IInv, TablesAgree
<1>5. \A e \in batch' : Readable(e.fd)' /\ e = Event(e.fd)' /\ e.fd \in monitored'
  <2> TAKE e \in batch'
  <2>0. PICK d \in ds : e = Event(d)
    BY <1>1
  <2>1. Event(d).fd = d /\ d \in monitored /\ Readable(d)
    BY DEF Event, Ready
  <2>2. Readable(d)' <=> Readable(d)
    BY <1>2 DEF Readable, Backlog
  <2>3. Event(d)' = Event(d)
    BY <1>2 DEF Event
  <2> QED  BY <1>2, <2>0, <2>1, <2>2, <2>3
<1> QED  BY <1>2, <1>3, <1>4, <1>5 DEF IInv, EventsFresh, BatchWatched

\* What every event of a batch, taken out of it, leaves behind.
LEMMA Taken ==
    ASSUME IInv, NEW e \in batch, Take(e)
    PROVE  /\ at = "events" /\ batch' \subseteq batch
           /\ e.fd \in monitored /\ Readable(e.fd) /\ e = Event(e.fd)
           /\ \A x \in batch' : x.fd # e.fd
<1>1. \A x \in batch : x = Event(x.fd)
  BY DEF IInv, EventsFresh
<1>2. \A x \in batch' : x \in batch /\ x # e
  BY DEF Take
<1> QED  BY <1>1, <1>2 DEF Take, IInv, EventsFresh, BatchWatched

LEMMA CloseKeeps ==
    ASSUME IInv, NEW d \in DOMAIN pending, Close(d), UNCHANGED protocol,
           batch' \subseteq batch, \A e \in batch' : e.fd # d, Continue
    PROVE  IInv'
<1> DEFINE c == owner[d]
<1>1. c \in Clients /\ d \in Descriptors /\ d # listenerFD /\ conn[c].phase = "open"
  BY EventLoopAssumption, SMT DEF IInv, TypeOK, TablesAgree, Descriptors, listenerFD
<1>2. conn' = [conn EXCEPT ![c].phase = "closed", ![c].inbox = 0, ![c].unread = 0]
  BY DEF Close
<1>3. conn \in [Clients -> Connection] /\ owner \in [Descriptors -> Clients \union {NoClient}]
  BY DEF IInv, TypeOK
<1>4. conn' \in [Clients -> Connection]
  BY <1>1, <1>2, <1>3, EventLoopAssumption, SMT DEF Connection
<1>5. conn'[c].phase = "closed" /\ \A x \in Clients \ {c} : conn'[x] = conn[x]
  BY <1>1, <1>2, <1>3, SMT DEF Connection
<1>6. owner' = [owner EXCEPT ![d] = NoClient]
  BY DEF Close
<1>7. DOMAIN pending' = DOMAIN pending \ {d} /\ monitored' = monitored \ {d}
  BY DEF Close
<1>8. at' \in {"wait", "events"}
  BY DEF Continue
<1>9. \A x \in DOMAIN pending : owner[x] = c => x = d
  BY DEF IInv, TablesAgree
<1> HIDE DEF c
<1>10. TypeOK'
  BY <1>1, <1>3, <1>4, <1>6, <1>7, <1>8 DEF IInv, TypeOK
<1>11. TablesAgree'
  <2>1. DOMAIN pending' = {x \in Descriptors : owner'[x] # NoClient}
    BY <1>1, <1>3, <1>6, <1>7 DEF IInv, TablesAgree
  <2>2. monitored' = DOMAIN pending' \union {listenerFD}
    BY <1>1, <1>7 DEF IInv, TablesAgree
  <2>3. Cardinality(DOMAIN pending') <= MaxConnections
    <3>1. IsFiniteSet(DOMAIN pending) /\ Cardinality(DOMAIN pending) <= MaxConnections
      <4>1. IsFiniteSet(Descriptors)
        BY FS_Interval, EventLoopAssumption, SMT DEF Descriptors
      <4> QED  BY <4>1, FS_Subset DEF IInv, TypeOK, TablesAgree
    <3>2. Cardinality(DOMAIN pending \ {d}) = Cardinality(DOMAIN pending) - 1
      BY <3>1, FS_RemoveElement
    <3>3. Cardinality(DOMAIN pending) \in Nat
      BY <3>1, FS_CardinalityType
    <3> QED  BY <1>7, <3>1, <3>2, <3>3, EventLoopAssumption, SMT
  <2>4. ASSUME NEW x \in Clients
        PROVE  conn'[x].phase = "open" <=> \E y \in Descriptors : owner'[y] = x
    <3>1. CASE x = c
      BY <1>5, <1>6, <1>3, <1>9, <3>1, EventLoopAssumption DEF IInv, TablesAgree
    <3>2. CASE x # c
      <4>1. \A y \in Descriptors : owner'[y] = x <=> owner[y] = x
        BY <1>3, <1>6, <3>2, EventLoopAssumption DEF c
      <4> QED  BY <1>5, <3>2, <4>1 DEF IInv, TablesAgree
    <3> QED  BY <3>1, <3>2
  <2>5. \A x, y \in DOMAIN pending' : owner'[x] = owner'[y] => x = y
    BY <1>3, <1>6, <1>7 DEF IInv, TablesAgree, TypeOK
  <2> QED  BY <2>1, <2>2, <2>3, <2>4, <2>5 DEF TablesAgree
<1>12. ASSUME NEW e \in batch'
       PROVE  Readable(e.fd)' /\ e = Event(e.fd)' /\ e.fd \in monitored'
  <2>1. e \in batch /\ e.fd \in monitored /\ Readable(e.fd) /\ e = Event(e.fd) /\ e.fd # d
    BY DEF IInv, EventsFresh, BatchWatched
  <2>2. CASE e.fd = listenerFD
    <3>1. Backlog # {}
      BY <2>1, <2>2 DEF Readable
    <3>2. Backlog \subseteq Backlog'
      BY <1>1, <1>5 DEF Backlog
    <3> QED  BY <1>7, <2>1, <2>2, <3>1, <3>2 DEF Readable, Event
  <2>3. CASE e.fd # listenerFD
    <3>1. e.fd \in DOMAIN pending /\ owner[e.fd] # c /\ owner[e.fd] \in Clients
      BY <1>9, <2>1, <2>3 DEF IInv, TypeOK, TablesAgree
    <3>2. owner'[e.fd] = owner[e.fd] /\ conn'[owner[e.fd]] = conn[owner[e.fd]]
      BY <1>3, <1>5, <1>6, <2>1, <3>1 DEF IInv, TypeOK
    <3> QED  BY <1>7, <2>1, <2>3, <3>2 DEF Readable, Event
  <2> QED  BY <2>2, <2>3
<1> QED  BY <1>8, <1>10, <1>11, <1>12 DEF IInv, EventsFresh, BatchWatched

\* A loop that is not full has a descriptor to give.
LEMMA RoomLeft ==
    ASSUME IInv, ~ Full
    PROVE  /\ IsFiniteSet(DOMAIN pending) /\ Cardinality(DOMAIN pending) \in Nat
           /\ Cardinality(DOMAIN pending) < MaxConnections
           /\ LowestFree \in Descriptors /\ owner[LowestFree] = NoClient
           /\ LowestFree \notin DOMAIN pending
<1> DEFINE d == LowestFree
<1>1. IsFiniteSet(DOMAIN pending) /\ Cardinality(DOMAIN pending) \in Nat
      /\ Cardinality(DOMAIN pending) < MaxConnections
  <2>1. IsFiniteSet(Descriptors)
    BY FS_Interval, EventLoopAssumption, SMT DEF Descriptors
  <2>2. IsFiniteSet(DOMAIN pending) /\ Cardinality(DOMAIN pending) \in Nat
    BY <2>1, FS_Subset, FS_CardinalityType DEF IInv, TypeOK
  <2> QED  BY <2>2, EventLoopAssumption, SMT DEF Full
<1>2. d \in Descriptors /\ owner[d] = NoClient /\ d \notin DOMAIN pending
  <2> DEFINE Free == {x \in Descriptors : owner[x] = NoClient}
  <2>1. Free # {}
    <3>1. Cardinality(Descriptors) = MaxConnections + 1
      BY FS_Interval, EventLoopAssumption, SMT DEF Descriptors
    <3>2. DOMAIN pending # Descriptors
      BY <1>1, <3>1, EventLoopAssumption, SMT
    <3> QED  BY <3>2 DEF IInv, TablesAgree
  <2>2. Free \in SUBSET Nat
    BY EventLoopAssumption, SMT DEF Descriptors
  <2>3. Min(Free) \in Free
    BY <2>1, <2>2, MinOfNaturals
  <2>4. d \in Free
    BY <2>3 DEF LowestFree
  <2> QED  BY <2>4 DEF IInv, TablesAgree
<1> QED  BY <1>1, <1>2

LEMMA AcceptKeeps == ASSUME IInv, NEW e \in batch, Accept(e) PROVE IInv'
<1> DEFINE d == LowestFree
<1>1. PICK c \in Backlog :
         /\ conn' = [conn EXCEPT ![c].phase = "open"]
         /\ owner' = [owner EXCEPT ![d] = c]
         /\ monitored' = monitored \union {d}
         /\ pending' = [x \in DOMAIN pending \union {d} |-> IF x = d THEN <<>> ELSE pending[x]]
  BY DEF Accept
<1>2. Take(e) /\ ~ Full /\ Continue /\ UNCHANGED <<protocol, fd>> /\ e.fd = listenerFD
  BY DEF Accept
<1>3. conn \in [Clients -> Connection] /\ owner \in [Descriptors -> Clients \union {NoClient}]
  BY DEF IInv, TypeOK
<1>4. c \in Clients /\ conn[c].phase = "backlog" /\ c # NoClient
  BY EventLoopAssumption DEF Backlog
<1>5. IsFiniteSet(DOMAIN pending) /\ Cardinality(DOMAIN pending) \in Nat
      /\ Cardinality(DOMAIN pending) < MaxConnections
  BY <1>2, RoomLeft
<1>6. d \in Descriptors /\ owner[d] = NoClient /\ d \notin DOMAIN pending
  BY <1>2, RoomLeft
<1> HIDE DEF d
<1>7. conn' \in [Clients -> Connection] /\ conn'[c].phase = "open"
      /\ (\A x \in Clients \ {c} : conn'[x] = conn[x])
  <2>1. conn' = [conn EXCEPT ![c].phase = "open"]
    BY <1>1
  <2> HIDE <1>1
  <2> QED  BY <1>3, <1>4, <2>1, SMT DEF Connection
<1>8. owner'[d] = c /\ (\A x \in Descriptors \ {d} : owner'[x] = owner[x])
      /\ owner' \in [Descriptors -> Clients \union {NoClient}]
  BY <1>1, <1>3, <1>4, <1>6
<1>9. DOMAIN pending' = DOMAIN pending \union {d}
  BY <1>1
<1>10. at' \in {"wait", "events"}
  BY <1>2 DEF Continue
<1>11. \A x \in Descriptors : owner[x] # c
  BY <1>4 DEF IInv, TablesAgree
<1>12. TypeOK'
  BY <1>2, <1>6, <1>7, <1>8, <1>9, <1>10 DEF IInv, TypeOK
<1>13. TablesAgree'
  <2>1. DOMAIN pending' = {x \in Descriptors : owner'[x] # NoClient}
    BY <1>4, <1>6, <1>8, <1>9 DEF IInv, TablesAgree
  <2>2. monitored' = DOMAIN pending' \union {listenerFD}
    BY <1>1, <1>9 DEF IInv, TablesAgree
  <2>3. Cardinality(DOMAIN pending') <= MaxConnections
    <3>1. Cardinality(DOMAIN pending \union {d}) = Cardinality(DOMAIN pending) + 1
      BY <1>5, <1>6, FS_AddElement
    <3> QED  BY <1>5, <1>9, <3>1, EventLoopAssumption, SMT
  <2>4. ASSUME NEW x \in Clients
        PROVE  conn'[x].phase = "open" <=> \E y \in Descriptors : owner'[y] = x
    <3>1. CASE x = c
      BY <1>6, <1>7, <1>8, <3>1
    <3>2. CASE x # c
      <4>1. \A y \in Descriptors : owner'[y] = x <=> owner[y] = x
        BY <1>6, <1>8, <3>2, EventLoopAssumption
      <4> QED  BY <1>7, <3>2, <4>1 DEF IInv, TablesAgree
    <3> QED  BY <3>1, <3>2
  <2>5. \A x, y \in DOMAIN pending' : owner'[x] = owner'[y] => x = y
    BY <1>8, <1>9, <1>11 DEF IInv, TablesAgree, TypeOK
  <2> QED  BY <2>1, <2>2, <2>3, <2>4, <2>5 DEF TablesAgree
<1>14. ASSUME NEW x \in batch'
       PROVE  Readable(x.fd)' /\ x = Event(x.fd)' /\ x.fd \in monitored'
  <2>1. /\ x \in batch /\ x.fd \in monitored /\ Readable(x.fd) /\ x = Event(x.fd)
        /\ x.fd # listenerFD
    BY <1>2, Taken DEF IInv, EventsFresh, BatchWatched
  <2>2. x.fd \in DOMAIN pending /\ x.fd # d /\ x.fd \in Descriptors
    BY <1>6, <2>1 DEF IInv, TypeOK, TablesAgree
  <2>3. owner'[x.fd] = owner[x.fd] /\ owner[x.fd] # c /\ owner[x.fd] \in Clients
    BY <1>3, <1>8, <1>11, <2>2 DEF IInv, TablesAgree
  <2>4. conn'[owner[x.fd]] = conn[owner[x.fd]]
    BY <1>7, <2>3
  <2> QED  BY <1>1, <2>1, <2>3, <2>4 DEF Readable, Event
<1> QED  BY <1>10, <1>12, <1>13, <1>14 DEF IInv, EventsFresh, BatchWatched

LEMMA RejectKeeps ==
    ASSUME IInv, NEW e \in batch, Reject(e) \/ AcceptFails(e) PROVE IInv'
<1>1. Take(e) /\ e.fd = listenerFD /\ UNCHANGED <<protocol, fd, pending, monitored, owner>>
  BY DEF Reject, AcceptFails
<1>2. at' \in {"wait", "events"}
  BY DEF Reject, AcceptFails, Continue
<1>3. /\ conn' \in [Clients -> Connection]
      /\ \A c \in Clients : /\ conn'[c].phase = "open" <=> conn[c].phase = "open"
                            /\ conn'[c].inbox = conn[c].inbox
                            /\ conn'[c].left = conn[c].left
  <2>1. conn \in [Clients -> Connection]
    BY DEF IInv, TypeOK
  <2>2. CASE Reject(e)
    <3>1. PICK c \in Backlog : conn' = [conn EXCEPT ![c].phase = "rejected"]
      BY <2>2 DEF Reject
    <3> QED  BY <2>1, <3>1, SMT DEF Connection, Backlog
  <2>3. CASE AcceptFails(e)
    BY <2>1, <2>3 DEF AcceptFails
  <2> QED  BY <2>2, <2>3
<1>4. batch' \subseteq batch /\ \A x \in batch' : x.fd # listenerFD
  BY <1>1, Taken
<1>5. TypeOK'
  BY <1>1, <1>2, <1>3 DEF IInv, TypeOK
<1>6. TablesAgree'
  BY <1>1, <1>3, TablesKept
<1>7. EventsFresh' /\ \A x \in batch' : x.fd \in monitored'
  <2>1. \A x \in batch' : x.fd # listenerFD => owner[x.fd] \in Clients
    BY <1>4 DEF IInv, TypeOK, TablesAgree, BatchWatched
  <2> QED  BY <1>1, <1>3, <1>4, <2>1, EventsKept
<1> QED  BY <1>2, <1>5, <1>6, <1>7 DEF IInv, BatchWatched

LEMMA ReadKeeps == ASSUME IInv, NEW e \in batch, Read(e) PROVE IInv'
<1> DEFINE c == owner[e.fd]
           n == Min({BufferSize, conn[c].inbox})
<1>1. Take(e) /\ e.fd # listenerFD /\ UNCHANGED <<protocol, monitored, owner>>
  BY DEF Read
<1>2. batch' \subseteq batch /\ (\A x \in batch' : x.fd # e.fd) /\ e.fd \in monitored
  BY <1>1, Taken
<1>3. e.fd \in DOMAIN pending /\ e.fd \in Descriptors /\ c \in Clients
  BY <1>1, <1>2 DEF IInv, TypeOK, TablesAgree
<1>4. /\ n > 0 /\ conn' = [conn EXCEPT ![c].inbox = @ - n]
      /\ DOMAIN pending' = DOMAIN pending /\ fd' = e.fd /\ at' = "parse"
  BY <1>3 DEF Read
<1>5. conn \in [Clients -> Connection] /\ conn[c].inbox \in Nat
  BY <1>3, SMT DEF IInv, TypeOK, Connection
<1>6. n \in Nat /\ n <= conn[c].inbox
  <2>1. {BufferSize, conn[c].inbox} \in SUBSET Nat
    BY <1>5, EventLoopAssumption
  <2> QED  BY <2>1, MinOfNaturals
<1> HIDE DEF n
<1>7. conn[c].inbox - n \in Nat
  BY <1>5, <1>6, SMT
<1> HIDE DEF c
<1>8. /\ conn' \in [Clients -> Connection]
      /\ \A x \in Clients : conn'[x].phase = conn[x].phase
      /\ \A x \in Clients \ {c} : conn'[x] = conn[x]
  BY <1>3, <1>4, <1>5, <1>7, SMT DEF Connection
<1>9. TypeOK'
  BY <1>1, <1>3, <1>4, <1>8 DEF IInv, TypeOK
<1>10. TablesAgree'
  BY <1>1, <1>4, <1>8, TablesKept
<1>11. EventsFresh' /\ \A x \in batch' : x.fd \in monitored'
  <2>1. \A x \in batch' : x.fd # listenerFD =>
           owner[x.fd] \in Clients /\ owner[x.fd] # c
    BY <1>2, <1>3 DEF IInv, TypeOK, TablesAgree, BatchWatched, c
  <2>2. Backlog' = Backlog
    BY <1>8 DEF Backlog
  <2> QED  BY <1>1, <1>2, <1>8, <2>1, <2>2, EventsKept
<1> QED  BY <1>2, <1>4, <1>9, <1>10, <1>11 DEF IInv, BatchWatched

LEMMA ReadErrKeeps == ASSUME IInv, NEW e \in batch, ReadErr(e) PROVE IInv'
<1>1. Take(e) /\ e.fd \in DOMAIN pending /\ Close(e.fd) /\ Continue /\ UNCHANGED protocol
  BY DEF ReadErr
<1> QED  BY <1>1, Taken, CloseKeeps

-----------------------------------------------------------------------------
(* The command of the descriptor being handled                                *)

LEMMA RefuseKeeps == ASSUME IInv, Refuse \/ WriteErr PROVE IInv'
<1>1. at \in {"parse", "write"} /\ Close(fd) /\ Continue /\ UNCHANGED <<protocol, batch>>
  BY DEF Refuse, WriteErr
<1>2. fd \in DOMAIN pending /\ \A e \in batch' : e.fd # fd
  BY <1>1 DEF IInv, TypeOK, BatchWatched
<1> QED  BY <1>1, <1>2, CloseKeeps

\* Running a command and answering it stay with the descriptor: what the
\* client has to read and what was dropped of its data are all that changes.
LEMMA AnswerKeeps ==
    ASSUME IInv, Execute \/ Incomplete \/ Write \/ WriteLost PROVE IInv'
<1> DEFINE c == owner[fd]
<1>1. /\ at \in {"parse", "write"} /\ at' \in {"wait", "events", "parse", "write"}
      /\ UNCHANGED <<protocol, batch, fd, monitored, owner>>
  BY DEF Execute, Incomplete, Write, WriteLost
<1>2. DOMAIN pending' = DOMAIN pending
  BY DEF Execute, Incomplete, Write, WriteLost, Answered, Without
<1>3. fd \in DOMAIN pending /\ c \in Clients
  BY <1>1 DEF IInv, TypeOK, TablesAgree
<1>4. /\ conn' \in [Clients -> Connection]
      /\ \A x \in Clients : conn'[x].phase = conn[x].phase
      /\ \A x \in Clients \ {c} : conn'[x] = conn[x]
  <2>1. conn \in [Clients -> Connection]
    BY DEF IInv, TypeOK
  <2>2. CASE Execute \/ Incomplete
    BY <2>1, <2>2 DEF Execute, Incomplete
  <2>3. CASE Write
    <3>1. conn[c].unread < Window /\ conn' = [conn EXCEPT ![c].unread = @ + 1]
      BY <2>3 DEF Write
    <3> HIDE DEF c
    <3> QED  BY <1>3, <2>1, <3>1, EventLoopAssumption, SMT DEF Connection
  <2>4. CASE WriteLost
    <3>1. PICK n \in {0, conn[c].inbox} : conn' = [conn EXCEPT ![c].inbox = n]
      BY <2>4 DEF WriteLost
    <3> HIDE DEF c
    <3>2. n \in Nat
      BY <1>3, <2>1, SMT DEF Connection
    <3> QED  BY <1>3, <2>1, <3>1, <3>2, SMT DEF Connection
  <2> QED  BY <2>2, <2>3, <2>4
<1>5. TypeOK'
  BY <1>1, <1>2, <1>3, <1>4 DEF IInv, TypeOK
<1>6. TablesAgree'
  BY <1>1, <1>2, <1>4, TablesKept
<1>7. EventsFresh' /\ \A e \in batch' : e.fd \in monitored'
  <2>1. \A e \in batch' : e.fd # listenerFD =>
           owner[e.fd] \in Clients /\ owner[e.fd] # c
    BY <1>1, <1>3 DEF IInv, TypeOK, TablesAgree, BatchWatched
  <2>2. Backlog' = Backlog
    BY <1>4 DEF Backlog
  <2> HIDE DEF c
  <2> QED  BY <1>1, <1>4, <2>1, <2>2, EventsKept
<1> QED  BY <1>1, <1>5, <1>6, <1>7 DEF IInv, BatchWatched

LEMMA NextIInv == IInv /\ [Next]_vars => IInv'
<1> SUFFICES ASSUME IInv, [Next]_vars PROVE IInv'
  OBVIOUS
<1>1. CASE Wait
  BY <1>1, WaitKeeps
<1>2. CASE Handle
  BY <1>2, AcceptKeeps, RejectKeeps, ReadKeeps, ReadErrKeeps DEF Handle
<1>3. CASE Parse
  BY <1>3, AnswerKeeps, RefuseKeeps DEF Parse
<1>4. CASE Reply
  BY <1>4, AnswerKeeps, RefuseKeeps DEF Reply
<1>5. CASE \E c \in Clients : Client(c)
  BY <1>5, ClientKeeps
<1>6. CASE UNCHANGED vars
  BY <1>6 DEF vars, IInv, TypeOK, TablesAgree, EventsFresh, BatchWatched, Readable,
              Backlog, Event
<1> QED  BY <1>1, <1>2, <1>3, <1>4, <1>5, <1>6 DEF Next

LEMMA Invariance == Spec => []IInv
  BY InitIInv, NextIInv, PTL DEF Spec

\* The tables of a loop never disagree about which descriptors are clients
\* being served, and a closed connection gives its slot back.
THEOREM Tables == Spec => []TablesAgree
<1>1. IInv => TablesAgree
  BY DEF IInv
<1> QED  BY <1>1, Invariance, PTL

\* An event is still of the client it was reported for, and has something to
\* read, when the loop comes to it: closing descriptors and giving their
\* numbers to others within a batch never makes one stale.
THEOREM FreshEvents == Spec => []EventsFresh
<1>1. IInv => EventsFresh
  BY DEF IInv
<1> QED  BY <1>1, Invariance, PTL

-----------------------------------------------------------------------------
(* What holds at 0 and is kept by each step up to n holds at n.              *)

LEMMA CountUp ==
    ASSUME NEW N \in Nat, NEW S, 0 \in S, \A n \in 1 .. N : n - 1 \in S => n \in S
    PROVE  \A n \in 0 .. N : n \in S
<1> DEFINE B == {n \in 0 .. N : n \notin S}
<1> SUFFICES ASSUME B # {} PROVE FALSE
  OBVIOUS
<1>1. B \in SUBSET Nat
  BY SMT
<1>2. PICK m \in B : \A n \in B : m <= n
  BY <1>1, MinOfNaturals
<1>3. m \in 1 .. N /\ m \notin S
  BY SMT
<1>4. m - 1 \notin B
  BY <1>2, <1>3, SMT
<1>5. m - 1 \in S
  BY <1>3, <1>4, SMT
<1> QED  BY <1>3, <1>5

-----------------------------------------------------------------------------
(* The parser                                                                *)

Positions == Nat \ {0}
Data == Seq(Units)

\* What is read: one of the two errors, or a value after which there is a
\* position from lo to hi.
Result(r, lo, hi) ==
    \/ r = ErrIncompleteRESP
    \/ r = ProtocolError
    \/ r.status = "ok" /\ r.next \in Nat /\ lo <= r.next /\ r.next <= hi

\* No values at all end where they begin, others within the data.
End(d, p) == IF p <= Len(d) THEN Len(d) + 1 ELSE p
ResultsAfter(d, g, p) ==
    \A q \in Positions, k \in Nat : q > p => Result(g[q][k], q, End(d, q))

LEMMA Length == ASSUME NEW d \in Data PROVE Len(d) \in Nat
  BY DEF Data

LEMMA LineEnds ==
    ASSUME NEW d \in Data, NEW p \in Positions, LineEnd(d, p) # 0
    PROVE  /\ LineEnd(d, p) \in p .. Len(d) /\ d[LineEnd(d, p)] = EOL
           /\ \A i \in p .. Len(d) : d[i] = EOL => LineEnd(d, p) <= i
<1> DEFINE ends == {i \in p .. Len(d) : d[i] = EOL}
<1>1. ends # {} /\ LineEnd(d, p) = Min(ends)
  BY DEF LineEnd, Min
<1>2. ends \in SUBSET Nat
  BY SMT DEF Positions
<1>3. Min(ends) \in ends /\ \A i \in ends : Min(ends) <= i
  BY <1>1, <1>2, MinOfNaturals
<1> QED  BY <1>1, <1>3

LEMMA NumberRead ==
    ASSUME NEW d \in Data, NEW p \in Positions
    PROVE  /\ Result(readNumber(d, p), p + 1, Len(d) + 1)
           /\ readNumber(d, p).status = "ok" =>
                 /\ readNumber(d, p) = Ok(Value("int64", d[p].n), p + 2)
                 /\ p + 1 <= Len(d) /\ d[p].n \in Int
<1>1. p + 1 \in Positions
  BY SMT DEF Positions
<1>2. CASE LineEnd(d, p + 1) = 0
  <2>1. readNumber(d, p) = ErrIncompleteRESP
    BY <1>2 DEF readNumber
  <2> QED  BY <2>1 DEF Result, ErrIncompleteRESP
<1>3. CASE LineEnd(d, p + 1) > p + 1 /\ LineEnd(d, p + 1) # 0
  <2>1. readNumber(d, p) = ProtocolError
    BY <1>3 DEF readNumber
  <2> QED  BY <2>1 DEF Result, ProtocolError
<1>4. CASE LineEnd(d, p + 1) = p + 1 /\ LineEnd(d, p + 1) # 0
  <2>1. readNumber(d, p) = Ok(Value("int64", d[p].n), p + 2)
    <3>1. ~ (p + 1 > p + 1) /\ p + 1 + 1 = p + 2
      BY SMT DEF Positions
    <3> QED  BY <1>4, <3>1 DEF readNumber
  <2>2. p + 1 <= Len(d)
    BY <1>1, <1>4, LineEnds
  <2>3. d[p] \in Units
    BY <2>2, SMT DEF Positions, Data
  <2>4. d[p].n \in Int
    BY <2>3 DEF Units
  <2> QED  BY <2>1, <2>2, <2>4, Length, SMT DEF Result, Ok, Positions
<1>5. LineEnd(d, p + 1) # 0 => LineEnd(d, p + 1) >= p + 1 /\ LineEnd(d, p + 1) \in Nat
  BY <1>1, LineEnds, SMT DEF Positions
<1> QED  BY <1>2, <1>3, <1>4, <1>5, SMT DEF Positions

LEMMA StringRead ==
    ASSUME NEW d \in Data, NEW p \in Positions, NEW t
    PROVE  Result(readSimpleString(d, p, t), p + 1, Len(d) + 1)
<1>1. p + 1 \in Positions
  BY SMT DEF Positions
<1>2. LineEnd(d, p + 1) # 0 => LineEnd(d, p + 1) \in p + 1 .. Len(d)
  BY <1>1, LineEnds
<1> DEFINE e == LineEnd(d, p + 1)
<1>3. readSimpleString(d, p, t) = IF e = 0 THEN ErrIncompleteRESP
                                  ELSE Ok(Value(t, SubSeq(d, p + 1, e - 1)), e + 1)
  BY DEF readSimpleString
<1> HIDE DEF e
<1>4. e # 0 => e + 1 \in Nat /\ p + 1 <= e + 1 /\ e + 1 <= Len(d) + 1
  BY <1>2, Length, SMT DEF Positions, e
<1> QED  BY <1>3, <1>4 DEF Result, Ok

LEMMA BulkRead ==
    ASSUME NEW d \in Data, NEW p \in Positions
    PROVE  Result(readBulkString(d, p), p + 1, Len(d) + 1)
<1> DEFINE end == p + 2 + d[p].n
<1>1. CASE readNumber(d, p).status # "ok"
  <2>1. readBulkString(d, p) = readNumber(d, p)
    BY <1>1 DEF readBulkString
  <2> QED  BY <2>1, NumberRead
<1>2. CASE readNumber(d, p).status = "ok"
  <2>1. d[p].n \in Int
    BY <1>2, NumberRead
  <2>2. \/ readBulkString(d, p) = Ok(Null, p + 2)
        \/ readBulkString(d, p) = ProtocolError
        \/ readBulkString(d, p) = ErrIncompleteRESP
        \/ /\ ~ (d[p].n < -1) /\ ~ (end > Len(d))
           /\ readBulkString(d, p) = Ok(Value("string", SubSeq(d, p + 2, end - 1)), end + 1)
    BY <1>2 DEF readBulkString
  <2>3. p + 2 \in Nat /\ p + 1 <= p + 2 /\ p + 2 <= Len(d) + 1
    BY <1>2, NumberRead, Length, SMT DEF Positions
  <2>4. ~ (d[p].n < -1) /\ ~ (end > Len(d)) =>
           end + 1 \in Nat /\ p + 1 <= end + 1 /\ end + 1 <= Len(d) + 1
    BY <2>1, Length, SMT DEF Positions
  <2> HIDE DEF end
  <2> QED  BY <2>2, <2>3, <2>4 DEF Result, Ok
<1> QED  BY <1>1, <1>2

LEMMA ArrayRead ==
    ASSUME NEW d \in Data, NEW p \in Positions, NEW elements,
           d[p].n \in Nat => Result(elements, p + 2, End(d, p + 2))
    PROVE  Result(readArray(d, p, elements), p + 1, Len(d) + 1)
<1>1. CASE readNumber(d, p).status # "ok"
  <2>1. readArray(d, p, elements) = readNumber(d, p)
    BY <1>1 DEF readArray
  <2> QED  BY <2>1, NumberRead
<1>2. CASE readNumber(d, p).status = "ok"
  <2>1. d[p].n \in Int
    BY <1>2, NumberRead
  <2>2. \/ readArray(d, p, elements) = Ok(Null, p + 2)
        \/ readArray(d, p, elements) = ProtocolError
        \/ ~ (d[p].n = -1) /\ ~ (d[p].n < -1) /\ elements.status # "ok" /\ readArray(d, p, elements) = elements
        \/ /\ ~ (d[p].n = -1) /\ ~ (d[p].n < -1) /\ elements.status = "ok"
           /\ readArray(d, p, elements) = Ok(Value("array", elements.value), elements.next)
    BY <1>2 DEF readArray
  <2>3. /\ p + 2 \in Nat /\ p + 1 <= p + 2 /\ p + 2 <= Len(d) + 1
        /\ End(d, p + 2) = Len(d) + 1
    BY <1>2, NumberRead, Length, SMT DEF Positions, End
  <2>4. ~ (d[p].n = -1) /\ ~ (d[p].n < -1) => d[p].n \in Nat
    BY <2>1, SMT
  <2>5. ASSUME elements.next \in Nat, p + 2 <= elements.next PROVE p + 1 <= elements.next
    BY <2>5, SMT DEF Positions
  <2> QED  BY <2>2, <2>3, <2>4, <2>5 DEF Result, Ok, ErrIncompleteRESP, ProtocolError
<1> QED  BY <1>1, <1>2

LEMMA ValueRead ==
    ASSUME NEW d \in Data, NEW p \in Positions, NEW g, ResultsAfter(d, g, p)
    PROVE  Result(readValue(d, p, g), p + 1, Len(d) + 1)
<1>1. d[p].n \in Nat => Result(g[p + 2][d[p].n], p + 2, End(d, p + 2))
  <2>1. p + 2 \in Positions /\ p + 2 > p
    BY SMT DEF Positions
  <2> QED  BY <2>1 DEF ResultsAfter
<1>2. \/ readValue(d, p, g) \in {ErrIncompleteRESP, ProtocolError}
      \/ \E t : readValue(d, p, g) = readSimpleString(d, p, t)
      \/ readValue(d, p, g) = readNumber(d, p)
      \/ readValue(d, p, g) = readBulkString(d, p)
      \/ readValue(d, p, g) = readArray(d, p, g[p + 2][d[p].n])
  BY DEF readValue
<1> QED  BY <1>1, <1>2, StringRead, NumberRead, BulkRead, ArrayRead DEF Result

\* The value of Decode's function at a position, from what g has further on.
Entry(d, g, p, k) == IF k = 0 THEN Ok(<<>>, p) ELSE Followed(readValue(d, p, g), g, k)
Agree(g, h, p) == \A q \in Positions, k \in Nat : q > p => h[q][k] = g[q][k]

LEMMA EntryRead ==
    ASSUME NEW d \in Data, NEW p \in Positions, NEW k \in Nat, NEW g, ResultsAfter(d, g, p)
    PROVE  Result(Entry(d, g, p, k), p, End(d, p))
<1>1. PICK one : one = readValue(d, p, g)
  OBVIOUS
<1>2. Result(one, p + 1, Len(d) + 1)
  BY <1>1, ValueRead
<1>3. CASE k = 0
  <2>1. Entry(d, g, p, k) = Ok(<<>>, p)
    BY <1>3 DEF Entry
  <2> QED  BY <2>1, Length, SMT DEF Result, Ok, Positions, End
<1>4. CASE k # 0
  <2>1. Entry(d, g, p, k) = Followed(one, g, k)
    BY <1>1, <1>4 DEF Entry
  <2>2. CASE one.status # "ok"
    <3>1. Entry(d, g, p, k) = one
      BY <2>1, <2>2 DEF Followed
    <3> QED  BY <1>2, <2>2, <3>1 DEF Result
  <2>3. CASE one.status = "ok"
    <3>1. one.next \in Nat /\ p + 1 <= one.next /\ one.next <= Len(d) + 1
      BY <1>2, <2>3 DEF Result, ErrIncompleteRESP, ProtocolError
    <3>2. one.next \in Positions /\ one.next > p /\ k - 1 \in Nat
      BY <1>4, <3>1, SMT DEF Positions
    <3>3. PICK rest : rest = g[one.next][k - 1]
      OBVIOUS
    <3>4. Result(rest, one.next, Len(d) + 1) /\ End(d, p) = Len(d) + 1
      <4>1. End(d, one.next) = Len(d) + 1 /\ End(d, p) = Len(d) + 1
        BY <3>1, Length, SMT DEF End, Positions
      <4>2. Result(rest, one.next, End(d, one.next))
        BY <3>2, <3>3 DEF ResultsAfter
      <4> QED  BY <4>1, <4>2
    <3>5. \/ rest.status # "ok" /\ Entry(d, g, p, k) = rest
          \/ rest.status = "ok" /\ Entry(d, g, p, k) = Ok(<<one.value>> \o rest.value, rest.next)
      BY <2>1, <2>3, <3>3 DEF Followed
    <3>6. rest.status = "ok" => rest.next \in Nat /\ p <= rest.next /\ rest.next <= Len(d) + 1
      BY <3>1, <3>4, SMT DEF Result, ErrIncompleteRESP, ProtocolError, Positions
    <3> QED  BY <3>4, <3>5, <3>6 DEF Result, Ok
  <2> QED  BY <2>2, <2>3
<1> QED  BY <1>3, <1>4

LEMMA EntryLocal ==
    ASSUME NEW d \in Data, NEW p \in Positions, NEW k \in Nat, NEW g, NEW h,
           ResultsAfter(d, g, p), Agree(g, h, p)
    PROVE  Entry(d, h, p, k) = Entry(d, g, p, k)
<1>1. readValue(d, p, h) = readValue(d, p, g)
  <2> DEFINE x == g[p + 2][d[p].n]
             y == h[p + 2][d[p].n]
  <2>1. readArray(d, p, y) = readArray(d, p, x)
    <3>1. CASE readNumber(d, p).status # "ok"
      BY <3>1 DEF readArray
    <3>2. CASE readNumber(d, p).status = "ok"
      <4>1. d[p].n \in Int /\ p + 2 \in Positions /\ p + 2 > p
        <5>1. d[p].n \in Int
          BY <3>2, NumberRead
        <5> QED  BY <5>1, SMT DEF Positions
      <4>2. d[p].n \in Nat => x = y
        BY <4>1 DEF Agree
      <4> HIDE DEF x, y
      <4>3. d[p].n \in Nat \/ d[p].n = -1 \/ d[p].n < -1
        BY <4>1, SMT
      <4> QED  BY <4>2, <4>3 DEF readArray
    <3> QED  BY <3>1, <3>2
  <2> HIDE DEF x, y
  <2> QED  BY <2>1 DEF readValue, x, y
<1>2. PICK one : one = readValue(d, p, g)
  OBVIOUS
<1>3. Result(one, p + 1, Len(d) + 1)
  BY <1>2, ValueRead
<1>4. ASSUME k # 0 PROVE Followed(one, h, k) = Followed(one, g, k)
  <2>1. CASE one.status # "ok"
    BY <2>1 DEF Followed
  <2>2. CASE one.status = "ok"
    <3>1. one.next \in Nat /\ p + 1 <= one.next /\ one.next <= Len(d) + 1
      BY <1>3, <2>2 DEF Result, ErrIncompleteRESP, ProtocolError
    <3>2. one.next \in Positions /\ one.next > p /\ k - 1 \in Nat
      BY <1>4, <3>1, SMT DEF Positions
    <3>3. h[one.next][k - 1] = g[one.next][k - 1]
      BY <3>2 DEF Agree
    <3> QED  BY <3>3 DEF Followed
  <2> QED  BY <2>1, <2>2
<1> QED  BY <1>1, <1>2, <1>4 DEF Entry

\* g is right from position n + 1 on.
Solved(d, g, n) == \A p \in Positions, k \in Nat : p > n => g[p][k] = Entry(d, g, p, k)

LEMMA EntryPastEnd ==
    ASSUME NEW d \in Data, NEW p \in Positions, p > Len(d), NEW k \in Nat, NEW g
    PROVE  Entry(d, g, p, k) = IF k = 0 THEN Ok(<<>>, p) ELSE ErrIncompleteRESP
<1>1. readValue(d, p, g) = ErrIncompleteRESP
  BY DEF readValue
<1>2. Followed(ErrIncompleteRESP, g, k) = ErrIncompleteRESP
  BY DEF Followed, ErrIncompleteRESP
<1> QED  BY <1>1, <1>2 DEF Entry

LEMMA SolvedResults ==
    ASSUME NEW d \in Data, NEW n \in 0 .. Len(d), NEW g, Solved(d, g, n)
    PROVE  ResultsAfter(d, g, n)
<1> DEFINE N == Len(d) - n
           S == {m \in 0 .. N : ResultsAfter(d, g, Len(d) - m)}
<1>0. Len(d) \in Nat /\ N \in Nat
  BY SMT DEF Data
<1>1. 0 \in S
  <2>1. ASSUME NEW p \in Positions, NEW k \in Nat, p > Len(d) PROVE Result(g[p][k], p, End(d, p))
    <3>1. p > n
      BY <1>0, <2>1, SMT DEF Positions
    <3>2. g[p][k] = IF k = 0 THEN Ok(<<>>, p) ELSE ErrIncompleteRESP
      BY <2>1, <3>1, EntryPastEnd DEF Solved
    <3>3. Result(Ok(<<>>, p), p, End(d, p)) /\ Result(ErrIncompleteRESP, p, End(d, p))
      BY <1>0, SMT DEF Result, Ok, ErrIncompleteRESP, Positions, End
    <3> QED  BY <3>2, <3>3
  <2>2. 0 \in 0 .. N /\ Len(d) - 0 = Len(d)
    BY <1>0, SMT
  <2> QED  BY <2>1, <2>2 DEF ResultsAfter
<1>2. ASSUME NEW m \in 1 .. N, m - 1 \in S PROVE m \in S
  <2>1. ASSUME NEW p \in Positions, NEW k \in Nat, p > Len(d) - m PROVE Result(g[p][k], p, End(d, p))
    <3>1. p > n /\ p >= Len(d) - (m - 1)
      BY <1>0, <2>1, SMT DEF Positions
    <3>2. ResultsAfter(d, g, Len(d) - (m - 1))
      BY <1>2
    <3>3. ResultsAfter(d, g, p)
      <4> SUFFICES ASSUME NEW q \in Positions, q > p PROVE q > Len(d) - (m - 1)
        BY <3>2 DEF ResultsAfter
      <4> QED  BY <1>0, <3>1, SMT DEF Positions
    <3> QED  BY <3>1, <3>3, EntryRead DEF Solved
  <2>2. m \in 0 .. N
    BY <1>0, SMT
  <2> QED  BY <2>1, <2>2 DEF ResultsAfter
<1> HIDE DEF S, N
<1>3. \A m \in 0 .. N : m \in S
  BY <1>0, <1>1, <1>2, CountUp
<1>4. N \in 0 .. N /\ Len(d) - N = n
  BY <1>0, SMT DEF N
<1> QED  BY <1>3, <1>4 DEF S

LEMMA SolutionExists == ASSUME NEW d \in Data PROVE \E g : Solved(d, g, 0)
<1> DEFINE S == {m \in 0 .. Len(d) : \E g : Solved(d, g, Len(d) - m)}
<1>0. Len(d) \in Nat
  BY SMT DEF Data
<1>1. 0 \in S
  <2>1. PICK g : g = [p \in Positions |-> [k \in Nat |-> IF k = 0 THEN Ok(<<>>, p) ELSE ErrIncompleteRESP]]
    OBVIOUS
  <2>2. Solved(d, g, Len(d))
    BY <2>1, EntryPastEnd DEF Solved
  <2>3. 0 \in 0 .. Len(d) /\ Len(d) - 0 = Len(d)
    BY <1>0, SMT
  <2> QED  BY <2>2, <2>3
<1>2. ASSUME NEW m \in 1 .. Len(d), m - 1 \in S PROVE m \in S
  <2> DEFINE n == Len(d) - (m - 1)
  <2>1. n \in 0 .. Len(d) /\ n - 1 = Len(d) - m /\ m \in 0 .. Len(d)
    BY <1>0, SMT
  <2>2. PICK g : Solved(d, g, n)
    BY <1>2
  <2> HIDE DEF n
  <2>3. ResultsAfter(d, g, n)
    BY <2>1, <2>2, SolvedResults
  <2>4. PICK h : h = [p \in Positions |-> [k \in Nat |-> Entry(d, g, p, k)]]
    OBVIOUS
  <2>5. Agree(g, h, n)
    BY <2>2, <2>4 DEF Agree, Solved
  <2>6. ASSUME NEW p \in Positions, NEW k \in Nat, p > n - 1 PROVE h[p][k] = Entry(d, h, p, k)
    <3>1. p >= n
      BY <2>1, <2>6, SMT DEF Positions
    <3>2. \A q \in Positions : q > p => q > n
      BY <2>1, <3>1, SMT DEF Positions
    <3>3. ResultsAfter(d, g, p) /\ Agree(g, h, p)
      BY <2>3, <2>5, <3>2 DEF ResultsAfter, Agree
    <3> QED  BY <2>4, <3>3, EntryLocal
  <2>7. Solved(d, h, n - 1)
    BY <2>6 DEF Solved
  <2> QED  BY <2>1, <2>7
<1> HIDE DEF S
<1>3. \A m \in 0 .. Len(d) : m \in S
  BY <1>0, <1>1, <1>2, CountUp
<1>4. Len(d) \in 0 .. Len(d) /\ Len(d) - Len(d) = 0
  BY <1>0, SMT
<1> QED  BY <1>3, <1>4 DEF S

\* Decode's recursion ends: its function is the one it says it is.
LEMMA Decoded ==
    ASSUME NEW d \in Data
    PROVE  /\ \A p \in Positions, k \in Nat :
                 /\ Decode(d)[p][k] = Entry(d, Decode(d), p, k)
                 /\ Result(Decode(d)[p][k], p, End(d, p))
<1> DEFINE Is(v) == v = [p \in Nat \ {0} |-> [k \in Nat |-> IF k = 0 THEN Ok(<<>>, p)
                                             ELSE Followed(readValue(d, p, v), v, k)]]
<1>1. Decode(d) = CHOOSE v : Is(v)
  BY DEF Decode
<1>2. \E v : Is(v)
  <2>1. PICK g : Solved(d, g, 0)
    BY SolutionExists
  <2>2. ResultsAfter(d, g, 0)
    <3>1. 0 \in 0 .. Len(d)
      BY SMT DEF Data
    <3> QED  BY <2>1, <3>1, SolvedResults
  <2>3. PICK v : v = [p \in Positions |-> [k \in Nat |-> g[p][k]]]
    OBVIOUS
  <2>4. ASSUME NEW p \in Positions, NEW k \in Nat PROVE g[p][k] = Entry(d, v, p, k)
    <3>1. p > 0 /\ \A q \in Positions : q > 0
      BY SMT DEF Positions
    <3>2. ResultsAfter(d, g, p) /\ Agree(g, v, p)
      BY <2>2, <2>3, <3>1 DEF ResultsAfter, Agree
    <3> QED  BY <2>1, <3>1, <3>2, EntryLocal DEF Solved
  <2>5. v = [p \in Positions |-> [k \in Nat |-> Entry(d, v, p, k)]]
    BY <2>3, <2>4
  <2>6. Is(v)
    BY <2>5 DEF Entry, Positions
  <2> QED  BY <2>6
<1>3. Is(Decode(d))
  BY <1>1, <1>2
<1>4. PICK v : v = Decode(d)
  OBVIOUS
<1>5. v = [p \in Positions |-> [k \in Nat |-> Entry(d, v, p, k)]]
  BY <1>3, <1>4 DEF Entry, Positions
<1>6. Solved(d, v, 0)
  BY <1>5 DEF Solved
<1>7. ResultsAfter(d, v, 0)
  <2>1. 0 \in 0 .. Len(d)
    BY SMT DEF Data
  <2> QED  BY <1>6, <2>1, SolvedResults
<1>8. \A p \in Positions : p > 0
  BY SMT DEF Positions
<1> QED  BY <1>4, <1>6, <1>7, <1>8 DEF Solved, ResultsAfter

-----------------------------------------------------------------------------
(* What the parser answers for a part of the data, it answers for all of it,  *)
(* unless it waits for more.                                                  *)

Front(d, D) == Len(d) <= Len(D) /\ \A i \in 1 .. Len(d) : D[i] = d[i]
Stable(r, R) == r # ErrIncompleteRESP => R = r
StableAfter(g, h, p) == \A q \in Positions, k \in Nat : q > p => Stable(g[q][k], h[q][k])

LEMMA LineEndStable ==
    ASSUME NEW d \in Data, NEW D \in Data, Front(d, D), NEW p \in Positions, LineEnd(d, p) # 0
    PROVE  LineEnd(D, p) = LineEnd(d, p)
<1> DEFINE e == LineEnd(d, p)
           x == LineEnd(D, p)
<1>1. e \in p .. Len(d) /\ d[e] = EOL /\ \A i \in p .. Len(d) : d[i] = EOL => e <= i
  BY LineEnds
<1>2. p \in Nat /\ p >= 1 /\ Len(d) \in Nat /\ Len(D) \in Nat /\ Len(d) <= Len(D)
  BY Length, SMT DEF Positions, Front
<1>3. e \in p .. Len(D) /\ D[e] = EOL
  BY <1>1, <1>2, SMT DEF Front
<1>4. x # 0
  <2>1. {i \in p .. Len(D) : D[i] = EOL} # {}
    BY <1>3
  <2>2. x \in {i \in p .. Len(D) : D[i] = EOL}
    <3>1. {i \in p .. Len(D) : D[i] = EOL} \in SUBSET Nat
      BY <1>2, SMT
    <3>2. x = Min({i \in p .. Len(D) : D[i] = EOL})
      BY <2>1 DEF LineEnd, Min
    <3> QED  BY <2>1, <3>1, <3>2, MinOfNaturals
  <2> QED  BY <1>2, <2>2, SMT
<1>5. x \in p .. Len(D) /\ D[x] = EOL /\ \A i \in p .. Len(D) : D[i] = EOL => x <= i
  BY <1>4, LineEnds
<1> HIDE DEF e, x
<1>6. x <= e
  BY <1>3, <1>5
<1>7. x \in p .. Len(d) /\ x \in 1 .. Len(d)
  BY <1>1, <1>2, <1>5, <1>6, SMT
<1>8. d[x] = EOL
  BY <1>5, <1>7 DEF Front
<1>9. e <= x
  BY <1>1, <1>7, <1>8
<1>10. x = e
  BY <1>1, <1>5, <1>6, <1>9, <1>2, SMT
<1> QED  BY <1>10 DEF e, x

LEMMA FrontParts ==
    ASSUME NEW d \in Data, NEW D \in Data, Front(d, D), NEW a \in Positions, NEW b \in Int, b <= Len(d)
    PROVE  SubSeq(D, a, b) = SubSeq(d, a, b)
<1> DEFINE x == SubSeq(d, a, b)
           y == SubSeq(D, a, b)
<1>1. Len(d) \in Nat /\ Len(D) \in Nat /\ Len(d) <= Len(D) /\ a \in Nat /\ a >= 1
  BY SMT DEF Data, Positions, Front
<1>2. \A i \in a .. b : D[i] = d[i] /\ d[i] \in Units /\ i \in 1 .. Len(d) /\ i \in 1 .. Len(D)
  BY <1>1, SMT DEF Front, Data
<1>3. x = [i \in 1 .. (b - a + 1) |-> d[i + a - 1]]
  BY <1>1, SMT DEF Data
<1>4. y = [i \in 1 .. (b - a + 1) |-> D[i + a - 1]]
  BY <1>1, SMT DEF Data
<1>5. \A i \in 1 .. (b - a + 1) : i + a - 1 \in a .. b
  BY <1>1, SMT
<1> QED  BY <1>2, <1>3, <1>4, <1>5

LEMMA StringStable ==
    ASSUME NEW d \in Data, NEW D \in Data, Front(d, D), NEW p \in Positions, NEW t
    PROVE  Stable(readSimpleString(d, p, t), readSimpleString(D, p, t))
<1> DEFINE e == LineEnd(d, p + 1)
<1>1. p + 1 \in Positions
  BY SMT DEF Positions
<1>2. CASE e = 0
  BY <1>2 DEF readSimpleString, Stable
<1>3. CASE e # 0
  <2>1. LineEnd(D, p + 1) = e /\ e \in p + 1 .. Len(d)
    BY <1>1, <1>3, LineEndStable, LineEnds
  <2>2. e - 1 \in Int /\ e - 1 <= Len(d)
    BY <2>1, Length, SMT DEF Positions
  <2>3. SubSeq(D, p + 1, e - 1) = SubSeq(d, p + 1, e - 1)
    BY <1>1, <2>2, FrontParts
  <2> HIDE DEF e
  <2> QED  BY <1>3, <2>1, <2>3 DEF readSimpleString, Stable, e
<1> QED  BY <1>2, <1>3

LEMMA NumberStable ==
    ASSUME NEW d \in Data, NEW D \in Data, Front(d, D), NEW p \in Positions
    PROVE  /\ Stable(readNumber(d, p), readNumber(D, p))
           /\ readNumber(d, p).status = "ok" => D[p] = d[p] /\ p + 1 <= Len(d)
<1>1. p + 1 \in Positions
  BY SMT DEF Positions
<1>2. CASE LineEnd(d, p + 1) = 0
  <2>1. readNumber(d, p) = ErrIncompleteRESP
    BY <1>2 DEF readNumber
  <2> QED  BY <2>1 DEF Stable, ErrIncompleteRESP
<1>3. CASE LineEnd(d, p + 1) # 0
  <2>1. LineEnd(D, p + 1) = LineEnd(d, p + 1) /\ LineEnd(d, p + 1) \in p + 1 .. Len(d)
    BY <1>1, <1>3, LineEndStable, LineEnds
  <2>2. p \in 1 .. Len(d) /\ p + 1 <= Len(d)
    BY <2>1, Length, SMT DEF Positions
  <2>3. D[p] = d[p]
    BY <2>2 DEF Front
  <2> QED  BY <1>3, <2>1, <2>2, <2>3 DEF readNumber, Stable
<1> QED  BY <1>2, <1>3

LEMMA BulkStable ==
    ASSUME NEW d \in Data, NEW D \in Data, Front(d, D), NEW p \in Positions
    PROVE  Stable(readBulkString(d, p), readBulkString(D, p))
<1> DEFINE end == p + 2 + d[p].n
<1>1. CASE readNumber(d, p).status # "ok"
  <2>1. readBulkString(d, p) = readNumber(d, p)
    BY <1>1 DEF readBulkString
  <2>2. ASSUME readNumber(d, p) # ErrIncompleteRESP PROVE readBulkString(D, p) = readNumber(d, p)
    <3>1. readNumber(D, p) = readNumber(d, p)
      BY <2>2, NumberStable DEF Stable
    <3> QED  BY <1>1, <3>1 DEF readBulkString
  <2> QED  BY <2>1, <2>2 DEF Stable
<1>2. CASE readNumber(d, p).status = "ok"
  <2>1. /\ readNumber(D, p) = readNumber(d, p) /\ D[p] = d[p] /\ p + 1 <= Len(d)
        /\ d[p].n \in Int
    BY <1>2, NumberRead, NumberStable DEF Stable, ErrIncompleteRESP
  <2>2. CASE d[p].n = -1 \/ d[p].n < -1
    BY <1>2, <2>1, <2>2 DEF readBulkString, Stable
  <2>3. CASE d[p].n \in Nat /\ end > Len(d)
    <3>1. d[p].n # -1 /\ ~ (d[p].n < -1)
      BY <2>3, SMT
    <3>2. readBulkString(d, p) = ErrIncompleteRESP
      BY <1>2, <2>3, <3>1 DEF readBulkString
    <3> QED  BY <3>2 DEF Stable
  <2>4. CASE d[p].n \in Nat /\ ~ (end > Len(d))
    <3>1. d[p].n # -1 /\ ~ (d[p].n < -1)
      BY <2>4, SMT
    <3>2. end \in 1 .. Len(d) /\ ~ (end > Len(D)) /\ end - 1 \in Int /\ end - 1 <= Len(d)
          /\ p + 2 \in Positions
      <4>1. PICK w \in Nat : w = d[p].n
        BY <2>4
      <4>2. PICK l \in Nat : l = Len(d)
        BY Length
      <4>3. PICK L \in Nat : L = Len(D)
        BY Length
      <4>4. l <= L
        BY <4>2, <4>3 DEF Front
      <4>5. p \in Nat /\ p >= 1 /\ end = p + 2 + w /\ ~ (p + 2 + w > l)
        BY <2>4, <4>1, <4>2 DEF Positions
      <4>6. /\ p + 2 + w \in 1 .. l /\ ~ (p + 2 + w > L) /\ p + 2 + w - 1 \in Int
            /\ p + 2 + w - 1 <= l /\ p + 2 \in Nat \ {0}
        BY <4>4, <4>5, SMT
      <4> QED  BY <4>2, <4>3, <4>5, <4>6 DEF Positions
    <3>3. D[end] = d[end] /\ SubSeq(D, p + 2, end - 1) = SubSeq(d, p + 2, end - 1)
      <4> HIDE DEF end
      <4> QED  BY <3>2, FrontParts DEF Front
    <3>4. /\ readBulkString(d, p) = IF d[end] # EOL THEN ProtocolError
                 ELSE Ok(Value("string", SubSeq(d, p + 2, end - 1)), end + 1)
          /\ readBulkString(D, p) = IF D[end] # EOL THEN ProtocolError
                 ELSE Ok(Value("string", SubSeq(D, p + 2, end - 1)), end + 1)
      BY <1>2, <2>1, <2>4, <3>1, <3>2 DEF readBulkString
    <3> HIDE DEF end
    <3> QED  BY <3>3, <3>4 DEF Stable
  <2>5. d[p].n = -1 \/ d[p].n < -1 \/ d[p].n \in Nat
    BY <2>1, SMT
  <2> QED  BY <2>2, <2>3, <2>4, <2>5
<1> QED  BY <1>1, <1>2

LEMMA ArrayStable ==
    ASSUME NEW d \in Data, NEW D \in Data, Front(d, D), NEW p \in Positions, NEW x, NEW y,
           d[p].n \in Nat => Stable(x, y)
    PROVE  Stable(readArray(d, p, x), readArray(D, p, y))
<1>1. CASE readNumber(d, p).status # "ok"
  <2>1. readArray(d, p, x) = readNumber(d, p)
    BY <1>1 DEF readArray
  <2>2. ASSUME readNumber(d, p) # ErrIncompleteRESP PROVE readArray(D, p, y) = readNumber(d, p)
    <3>1. readNumber(D, p) = readNumber(d, p)
      BY <2>2, NumberStable DEF Stable
    <3> QED  BY <1>1, <3>1 DEF readArray
  <2> QED  BY <2>1, <2>2 DEF Stable
<1>2. CASE readNumber(d, p).status = "ok"
  <2>1. readNumber(D, p) = readNumber(d, p) /\ D[p] = d[p] /\ d[p].n \in Int
    BY <1>2, NumberRead, NumberStable DEF Stable, ErrIncompleteRESP
  <2>2. CASE d[p].n = -1 \/ d[p].n < -1
    BY <1>2, <2>1, <2>2 DEF readArray, Stable
  <2>3. CASE d[p].n \in Nat
    <3>1. d[p].n # -1 /\ ~ (d[p].n < -1)
      BY <2>3, SMT
    <3>2. /\ readArray(d, p, x) = IF x.status # "ok" THEN x ELSE Ok(Value("array", x.value), x.next)
          /\ readArray(D, p, y) = IF y.status # "ok" THEN y ELSE Ok(Value("array", y.value), y.next)
      BY <1>2, <2>1, <3>1 DEF readArray
    <3>3. x # ErrIncompleteRESP => y = x
      BY <2>3 DEF Stable
    <3>4. x = ErrIncompleteRESP => readArray(d, p, x) = ErrIncompleteRESP
      BY <3>2 DEF ErrIncompleteRESP
    <3> QED  BY <3>2, <3>3, <3>4 DEF Stable
  <2>4. d[p].n = -1 \/ d[p].n < -1 \/ d[p].n \in Nat
    BY <2>1, SMT
  <2> QED  BY <2>2, <2>3, <2>4
<1> QED  BY <1>1, <1>2

LEMMA ValueStable ==
    ASSUME NEW d \in Data, NEW D \in Data, Front(d, D), NEW p \in Positions, NEW g, NEW h,
           StableAfter(g, h, p)
    PROVE  Stable(readValue(d, p, g), readValue(D, p, h))
<1>1. CASE p > Len(d)
  BY <1>1 DEF readValue, Stable
<1>2. CASE ~ (p > Len(d))
  <2>1. D[p] = d[p] /\ ~ (p > Len(D))
    BY <1>2, Length, SMT DEF Front, Positions
  <2> DEFINE x == g[p + 2][d[p].n]
             y == h[p + 2][d[p].n]
  <2>2. d[p].n \in Nat => Stable(x, y)
    <3>1. p + 2 \in Positions /\ p + 2 > p
      BY SMT DEF Positions
    <3> QED  BY <3>1 DEF StableAfter
  <2> HIDE DEF x, y
  <2>3. Stable(readArray(d, p, x), readArray(D, p, y))
    BY <2>2, ArrayStable
  <2>4. Stable(readNumber(d, p), readNumber(D, p)) /\ Stable(readBulkString(d, p), readBulkString(D, p))
        /\ \A t : Stable(readSimpleString(d, p, t), readSimpleString(D, p, t))
    BY NumberStable, BulkStable, StringStable
  <2>5. D[p].type = d[p].type /\ D[p].n = d[p].n
    BY <2>1
  <2>6. CASE d[p].type = "+"
    BY <1>2, <2>1, <2>4, <2>5, <2>6 DEF readValue
  <2>7. CASE d[p].type = "-"
    BY <1>2, <2>1, <2>4, <2>5, <2>7 DEF readValue
  <2>8. CASE d[p].type = ":"
    BY <1>2, <2>1, <2>4, <2>5, <2>8 DEF readValue
  <2>9. CASE d[p].type = "$"
    BY <1>2, <2>1, <2>4, <2>5, <2>9 DEF readValue
  <2>10. CASE d[p].type = "*"
    BY <1>2, <2>1, <2>3, <2>5, <2>10 DEF readValue, x, y
  <2>11. CASE d[p].type \notin {"+", "-", ":", "$", "*"}
    BY <1>2, <2>1, <2>5, <2>11 DEF readValue, Stable
  <2> QED  BY <2>6, <2>7, <2>8, <2>9, <2>10, <2>11
<1> QED  BY <1>1, <1>2

LEMMA EntryStable ==
    ASSUME NEW d \in Data, NEW D \in Data, Front(d, D), NEW p \in Positions, NEW k \in Nat,
           NEW g, NEW h, ResultsAfter(d, g, p), StableAfter(g, h, p)
    PROVE  Stable(Entry(d, g, p, k), Entry(D, h, p, k))
<1>1. PICK one : one = readValue(d, p, g)
  OBVIOUS
<1>2. PICK two : two = readValue(D, p, h)
  OBVIOUS
<1>3. Result(one, p + 1, Len(d) + 1) /\ Stable(one, two)
  BY <1>1, <1>2, ValueRead, ValueStable
<1>4. CASE k = 0
  BY <1>4 DEF Entry, Stable
<1>5. CASE k # 0
  <2>1. Entry(d, g, p, k) = Followed(one, g, k) /\ Entry(D, h, p, k) = Followed(two, h, k)
    BY <1>1, <1>2, <1>5 DEF Entry
  <2>2. CASE one.status # "ok"
    <3>1. Followed(one, g, k) = one
      BY <2>2 DEF Followed
    <3>2. one # ErrIncompleteRESP => two = one /\ Followed(two, h, k) = one
      BY <1>3, <2>2 DEF Stable, Followed
    <3> QED  BY <2>1, <3>1, <3>2 DEF Stable
  <2>3. CASE one.status = "ok"
    <3>1. two = one
      BY <1>3, <2>3 DEF Stable, ErrIncompleteRESP
    <3>2. one.next \in Nat /\ p + 1 <= one.next
      BY <1>3, <2>3 DEF Result, ErrIncompleteRESP, ProtocolError
    <3>3. one.next \in Positions /\ one.next > p /\ k - 1 \in Nat
      BY <1>5, <3>2, SMT DEF Positions
    <3>4. PICK x : x = g[one.next][k - 1]
      OBVIOUS
    <3>5. PICK y : y = h[one.next][k - 1]
      OBVIOUS
    <3>6. Stable(x, y)
      BY <3>3, <3>4, <3>5 DEF StableAfter
    <3>7. /\ Followed(one, g, k) = IF x.status # "ok" THEN x ELSE Ok(<<one.value>> \o x.value, x.next)
          /\ Followed(two, h, k) = IF y.status # "ok" THEN y ELSE Ok(<<one.value>> \o y.value, y.next)
      BY <2>3, <3>1, <3>4, <3>5 DEF Followed
    <3>8. x = ErrIncompleteRESP => Followed(one, g, k) = ErrIncompleteRESP
      BY <3>7 DEF ErrIncompleteRESP
    <3> QED  BY <2>1, <3>6, <3>7, <3>8 DEF Stable
  <2> QED  BY <2>2, <2>3
<1> QED  BY <1>4, <1>5

LEMMA DecodeStable ==
    ASSUME NEW d \in Data, NEW D \in Data, Front(d, D)
    PROVE  \A p \in Positions, k \in Nat : Stable(Decode(d)[p][k], Decode(D)[p][k])
<1>1. PICK g : g = Decode(d)
  OBVIOUS
<1>2. PICK h : h = Decode(D)
  OBVIOUS
<1>3. \A p \in Positions, k \in Nat :
         /\ g[p][k] = Entry(d, g, p, k) /\ Result(g[p][k], p, End(d, p))
         /\ h[p][k] = Entry(D, h, p, k)
  BY <1>1, <1>2, Decoded
<1> DEFINE S == {m \in 0 .. Len(d) : StableAfter(g, h, Len(d) - m)}
<1>4. 0 \in S
  <2>1. ASSUME NEW p \in Positions, NEW k \in Nat, p > Len(d) PROVE Stable(g[p][k], h[p][k])
    <3>1. g[p][k] = IF k = 0 THEN Ok(<<>>, p) ELSE ErrIncompleteRESP
      BY <1>3, <2>1, EntryPastEnd
    <3>2. k = 0 => h[p][k] = Ok(<<>>, p)
      BY <1>3 DEF Entry
    <3> QED  BY <3>1, <3>2 DEF Stable
  <2>2. 0 \in 0 .. Len(d) /\ Len(d) - 0 = Len(d)
    BY Length, SMT
  <2> QED  BY <2>1, <2>2 DEF StableAfter
<1>5. ASSUME NEW m \in 1 .. Len(d), m - 1 \in S PROVE m \in S
  <2>1. ASSUME NEW p \in Positions, NEW k \in Nat, p > Len(d) - m PROVE Stable(g[p][k], h[p][k])
    <3>1. p >= Len(d) - (m - 1)
      BY <2>1, Length, SMT DEF Positions
    <3>2. StableAfter(g, h, Len(d) - (m - 1))
      BY <1>5
    <3>3. StableAfter(g, h, p)
      <4> SUFFICES ASSUME NEW q \in Positions, q > p PROVE q > Len(d) - (m - 1)
        BY <3>2 DEF StableAfter
      <4> QED  BY <3>1, Length, SMT DEF Positions
    <3>4. ResultsAfter(d, g, p)
      BY <1>3 DEF ResultsAfter
    <3> QED  BY <1>3, <3>3, <3>4, EntryStable
  <2>2. m \in 0 .. Len(d)
    BY Length, SMT
  <2> QED  BY <2>1, <2>2 DEF StableAfter
<1> HIDE DEF S
<1>6. Len(d) \in Nat
  BY Length
<1>7. \A m \in 0 .. Len(d) : m \in S
  BY <1>4, <1>5, <1>6, CountUp
<1>8. Len(d) \in 0 .. Len(d) /\ Len(d) - Len(d) = 0 /\ \A p \in Positions : p > 0
  BY <1>6, SMT DEF Positions
<1> QED  BY <1>1, <1>2, <1>7, <1>8 DEF S, StableAfter

\* The whole parser: a request or a refusal stands whatever comes after it.
LEMMA RequestStable ==
    ASSUME NEW d \in Data, NEW D \in Data, Front(d, D), NEW q \in Protocols
    PROVE  Stable(NextRequest(q, d), NextRequest(q, D))
<1>1. Stable(ParseCommand(d), ParseCommand(D))
  <2>1. PICK r : r = Decode(d)[1][1]
    OBVIOUS
  <2>2. PICK R : R = Decode(D)[1][1]
    OBVIOUS
  <2>3. Stable(r, R)
    <3>1. 1 \in Positions /\ 1 \in Nat
      BY SMT DEF Positions
    <3> QED  BY <2>1, <2>2, <3>1, DecodeStable
  <2>4. ParseCommand(d) = Command(First(r)) /\ ParseCommand(D) = Command(First(R))
    BY <2>1, <2>2 DEF ParseCommand, DecodeOne
  <2>5. Command(First(ErrIncompleteRESP)) = ErrIncompleteRESP
    BY DEF First, Command, ErrIncompleteRESP
  <2> QED  BY <2>3, <2>4, <2>5 DEF Stable
<1>2. Stable(ReadRequest(d), ReadRequest(D))
  <2> DEFINE e == LineEnd(d, 1)
  <2>1. CASE e = 0
    BY <2>1 DEF ReadRequest, Stable
  <2>2. CASE e # 0
    <3>1. 1 \in Positions
      BY SMT DEF Positions
    <3>2. LineEnd(D, 1) = e /\ e \in 1 .. Len(d)
      BY <2>2, <3>1, LineEndStable, LineEnds
    <3>3. e - 1 \in Int /\ e - 1 <= Len(d)
      BY <3>2, Length, SMT
    <3>4. SubSeq(D, 1, e - 1) = SubSeq(d, 1, e - 1)
      BY <3>1, <3>3, FrontParts
    <3> HIDE DEF e
    <3> QED  BY <2>2, <3>2, <3>4 DEF ReadRequest, Stable, e
  <2> QED  BY <2>1, <2>2
<1> QED  BY <1>1, <1>2 DEF NextRequest

LEMMA RequestRead ==
    ASSUME NEW d \in Data, NEW q \in Protocols
    PROVE  Result(NextRequest(q, d), 1, Len(d) + 1)
<1>0. 1 \in Positions /\ 1 \in Nat /\ Len(d) \in Nat
  BY Length, SMT DEF Positions
<1>1. Result(ParseCommand(d), 1, Len(d) + 1)
  <2>1. PICK r : r = Decode(d)[1][1]
    OBVIOUS
  <2>2. Result(r, 1, End(d, 1))
    BY <1>0, <2>1, Decoded
  <2>3. End(d, 1) = Len(d) + 1
    BY <1>0, SMT DEF End
  <2>4. ParseCommand(d) = Command(First(r))
    BY <2>1 DEF ParseCommand, DecodeOne
  <2>5. r.status # "ok" => Command(First(r)) = r
    BY DEF First, Command
  <2>6. r.status = "ok" => \/ Command(First(r)) = ProtocolError
                           \/ \E v : Command(First(r)) = Ok(v, r.next)
    BY DEF First, Command, Ok
  <2> QED  BY <2>2, <2>3, <2>4, <2>5, <2>6 DEF Result, Ok, ErrIncompleteRESP, ProtocolError
<1>2. Result(ReadRequest(d), 1, Len(d) + 1)
  <2> DEFINE e == LineEnd(d, 1)
  <2>1. e # 0 => e \in 1 .. Len(d)
    BY <1>0, LineEnds
  <2> HIDE DEF e
  <2>2. e # 0 => e + 1 \in Nat /\ 1 <= e + 1 /\ e + 1 <= Len(d) + 1
    BY <1>0, <2>1, SMT
  <2> QED  BY <2>2 DEF ReadRequest, Result, Ok, e
<1> QED  BY <1>1, <1>2 DEF NextRequest

LEMMA NothingRead == ASSUME NEW q \in Protocols PROVE NextRequest(q, <<>>) = ErrIncompleteRESP
<1>1. <<>> \in Data /\ Len(<<>>) = 0 /\ 1 \in Positions /\ 1 \in Nat /\ 1 > 0
  BY SMT DEF Data, Positions
<1>2. PICK d \in Data : d = <<>>
  BY <1>1
<1>3. Decode(d)[1][1] = Entry(d, Decode(d), 1, 1)
  BY <1>1, Decoded
<1>4. Decode(d)[1][1] = ErrIncompleteRESP
  BY <1>1, <1>2, <1>3, EntryPastEnd
<1>5. ParseCommand(d) = ErrIncompleteRESP
  BY <1>4 DEF ParseCommand, DecodeOne, First, Command, ErrIncompleteRESP
<1>6. LineEnd(d, 1) = 0
  <2>1. LineEnd(d, 1) # 0 => LineEnd(d, 1) \in 1 .. 0
    BY <1>1, <1>2, LineEnds
  <2> QED  BY <2>1, SMT
<1>7. ReadRequest(d) = ErrIncompleteRESP
  BY <1>6 DEF ReadRequest
<1> QED  BY <1>2, <1>5, <1>7 DEF NextRequest

-----------------------------------------------------------------------------
(* What a client sends is its frames one after the other.                     *)

Starts(u, n, g) == g = [i \in 0 .. n |-> IF i = 0 THEN <<>> ELSE g[i - 1] \o u[i].units]

LEMMA StartsExist == ASSUME NEW n \in Nat, NEW u PROVE \E g : Starts(u, n, g)
<1> DEFINE S == {m \in 0 .. n : \E g : Starts(u, m, g)}
<1>1. 0 \in S
  <2>1. PICK g : g = [i \in {0} |-> <<>>]
    OBVIOUS
  <2>2. 0 .. 0 = {0} /\ 0 \in 0 .. n
    BY SMT
  <2>3. Starts(u, 0, g)
    BY <2>1, <2>2 DEF Starts
  <2> QED  BY <2>2, <2>3
<1>2. ASSUME NEW m \in 1 .. n, m - 1 \in S PROVE m \in S
  <2>1. PICK g : Starts(u, m - 1, g)
    BY <1>2
  <2>2. PICK h : h = [i \in 0 .. m |-> IF i = m THEN g[m - 1] \o u[m].units ELSE g[i]]
    OBVIOUS
  <2>3. m \in 0 .. n /\ m # 0
    BY SMT
  <2>4. ASSUME NEW i \in 0 .. m
        PROVE  h[i] = IF i = 0 THEN <<>> ELSE h[i - 1] \o u[i].units
    <3>1. i # m => i \in 0 .. m - 1
      BY SMT
    <3>2. i # 0 => i - 1 \in 0 .. m /\ i - 1 # m
      BY SMT
    <3>3. CASE i = m
      BY <2>2, <2>3, <3>2, <3>3
    <3>4. CASE i # m
      <4>1. g[i] = IF i = 0 THEN <<>> ELSE g[i - 1] \o u[i].units
        BY <2>1, <3>1, <3>4 DEF Starts
      <4> QED  BY <2>2, <3>2, <3>4, <4>1
    <3> QED  BY <3>3, <3>4
  <2>5. h = [i \in 0 .. m |-> h[i]]
    BY <2>2
  <2>6. Starts(u, m, h)
    BY <2>4, <2>5 DEF Starts
  <2> QED  BY <2>3, <2>6
<1> HIDE DEF S
<1>3. \A m \in 0 .. n : m \in S
  BY <1>1, <1>2, CountUp
<1>4. n \in 0 .. n
  BY SMT
<1> QED  BY <1>3, <1>4 DEF S

LEMMA FrontOfLonger ==
    ASSUME NEW a \in Data, NEW b \in Data
    PROVE  a \o b \in Data /\ Len(a \o b) = Len(a) + Len(b) /\ Front(a, a \o b)
  BY SMT DEF Data, Front

LEMMA LaterUnit ==
    ASSUME NEW a \in Data, NEW b \in Data, NEW i \in 1 .. Len(b) PROVE (a \o b)[Len(a) + i] = b[i]
  BY SMT DEF Data

LEMMA PartOfData ==
    ASSUME NEW s \in Data, NEW lo \in Nat, NEW n \in Nat, lo + n <= Len(s)
    PROVE  LET e == SubSeq(s, lo + 1, lo + n) IN
           e \in Data /\ Len(e) = n /\ \A i \in 1 .. n : e[i] = s[lo + i]
<1> DEFINE e == SubSeq(s, lo + 1, lo + n)
<1>1. Len(s) \in Nat
  BY Length
<1>2. e \in Data
  BY <1>1, SMT DEF Data
<1>3. Len(e) = n
  BY <1>1, SMT DEF Data
<1>4. \A i \in 1 .. n : e[i] = s[lo + i]
  BY <1>1, SMT DEF Data
<1> QED  BY <1>2, <1>3, <1>4

LEMMA RestOfData ==
    ASSUME NEW s \in Data, NEW lo \in Nat, lo <= Len(s)
    PROVE  LET e == SubSeq(s, lo + 1, Len(s)) IN
           e \in Data /\ Len(e) = Len(s) - lo /\ \A i \in 1 .. Len(e) : e[i] = s[lo + i]
<1>1. Len(s) \in Nat
  BY Length
<1>2. Len(s) - lo \in Nat
  BY <1>1, SMT
<1>3. PICK n \in Nat : n = Len(s) - lo
  BY <1>2
<1>4. lo + n = Len(s)
  BY <1>1, <1>3, SMT
<1>5. lo + n <= Len(s)
  BY <1>1, <1>4, SMT
<1>6. PICK e : e = SubSeq(s, lo + 1, lo + n)
  OBVIOUS
<1>7. e \in Data /\ Len(e) = n /\ \A i \in 1 .. n : e[i] = s[lo + i]
  BY <1>5, <1>6, PartOfData
<1> QED  BY <1>3, <1>4, <1>6, <1>7

LEMMA FrontTrans ==
    ASSUME NEW a \in Data, NEW b \in Data, NEW c \in Data, Front(a, b), Front(b, c) PROVE Front(a, c)
  BY Length, SMT DEF Front

LEMMA StreamParts ==
    ASSUME NEW q \in Protocols, NEW c \in Clients
    PROVE  LET F == Frames[q][c]
               first == FirstFrames[q][c]
           IN /\ Len(F) \in Nat /\ DOMAIN F = 1 .. Len(F)
              /\ first[0] = <<>> /\ first[Len(F)] = Stream[q][c] /\ Stream[q][c] \in Data
              /\ \A i \in 0 .. Len(F) : first[i] \in Data /\ Front(first[i], Stream[q][c])
              /\ \A i \in 1 .. Len(F) : F[i].units \in Data /\ first[i] = first[i - 1] \o F[i].units
<1> DEFINE F == Frames[q][c]
           N == Len(F)
<1>1. N \in Nat /\ DOMAIN F = 1 .. N /\ \A i \in 1 .. N : F[i].units \in Data
  BY FramesAssumption DEF Data
<1>2. PICK u : u = F
  OBVIOUS
<1>3. PICK n \in Nat : n = N
  BY <1>1
<1>4. PICK g : g = FirstFrames[q][c]
  OBVIOUS
<1>5. Starts(u, n, g)
  <2>1. FirstFrames[q][c] = CHOOSE v : Starts(F, N, v)
    BY Zenon DEF FirstFrames, Starts
  <2>2. g = CHOOSE v : Starts(u, n, v)
    BY <1>2, <1>3, <1>4, <2>1
  <2> QED  BY <2>2, StartsExist
<1>6. PICK s : s = Stream[q][c]
  OBVIOUS
<1>7. s = g[n]
  BY <1>2, <1>3, <1>4, <1>6 DEF Stream
<1>8. \A i \in 1 .. n : u[i].units \in Data
  BY <1>1, <1>2, <1>3
<1> HIDE DEF F, N
<1>9. g[0] = <<>> /\ (\A i \in 1 .. n : g[i] = g[i - 1] \o u[i].units)
  <2>1. 0 \in 0 .. n /\ \A i \in 1 .. n : i \in 0 .. n /\ i # 0
    BY SMT
  <2> QED  BY <1>5, <2>1 DEF Starts
<1>10. \A i \in 0 .. n : g[i] \in Data
  <2> DEFINE S == {i \in 0 .. n : g[i] \in Data}
  <2>1. 0 \in S
    <3>1. 0 \in 0 .. n /\ <<>> \in Data
      BY SMT DEF Data
    <3> QED  BY <1>9, <3>1
  <2>2. ASSUME NEW i \in 1 .. n, i - 1 \in S PROVE i \in S
    <3>1. i \in 0 .. n /\ g[i - 1] \in Data
      BY <2>2, SMT
    <3> QED  BY <1>8, <1>9, <3>1, FrontOfLonger
  <2> HIDE DEF S
  <2>3. \A i \in 0 .. n : i \in S
    BY <2>1, <2>2, CountUp
  <2> QED  BY <2>3 DEF S
<1>11. \A i \in 0 .. n : Front(g[i], s)
  <2> DEFINE S == {m \in 0 .. n : Front(g[n - m], s)}
  <2>1. 0 \in S
    <3>1. n - 0 = n /\ 0 \in 0 .. n /\ n \in 0 .. n
      BY SMT
    <3>2. Front(g[n], g[n])
      BY <1>10, <3>1, Length, SMT DEF Front
    <3> QED  BY <1>7, <3>1, <3>2
  <2>2. ASSUME NEW m \in 1 .. n, m - 1 \in S PROVE m \in S
    <3>1. PICK i : i = n - m + 1
      OBVIOUS
    <3>2. i \in 1 .. n /\ i - 1 = n - m /\ i = n - (m - 1) /\ m \in 0 .. n /\ i \in 0 .. n /\ i - 1 \in 0 .. n
          /\ n \in 0 .. n
      BY <3>1, SMT
    <3>3. Front(g[i], s)
      BY <2>2, <3>2
    <3>4. Front(g[i - 1], g[i])
      <4>1. g[i - 1] \in Data /\ u[i].units \in Data /\ g[i] = g[i - 1] \o u[i].units
        BY <1>8, <1>9, <1>10, <3>2
      <4> QED  BY <4>1, FrontOfLonger, ZenonT(40)
    <3>5. Front(g[i - 1], s)
      BY <1>7, <1>10, <3>2, <3>3, <3>4, FrontTrans
    <3> QED  BY <3>2, <3>5
  <2> HIDE DEF S
  <2>3. \A m \in 0 .. n : m \in S
    BY <2>1, <2>2, CountUp
  <2>4. \A i \in 0 .. n : n - i \in 0 .. n /\ n - (n - i) = i
    BY SMT
  <2> QED  BY <2>3, <2>4 DEF S
<1>12. n \in 0 .. n
  BY SMT
<1> QED  BY <1>1, <1>2, <1>3, <1>4, <1>6, <1>7, <1>8, <1>9, <1>10, <1>11, <1>12 DEF F, N

\* Data is what follows the first lo units of a client's stream.
Piece(s, lo, data) ==
    /\ data \in Data /\ lo \in Nat /\ lo + Len(data) <= Len(s)
    /\ \A i \in 1 .. Len(data) : data[i] = s[lo + i]

\* What is read at the start of a frame is the frame, however much of what
\* follows it is there too, or else nothing yet.
LEMMA FrameRead ==
    ASSUME NEW q \in Protocols, NEW c \in Clients, NEW h \in 0 .. Len(Frames[q][c]), NEW data,
           Piece(Stream[q][c], Len(FirstFrames[q][c][h]), data),
           NextRequest(q, data) # ErrIncompleteRESP
    PROVE  LET F == Frames[q][c]
               frame == F[h + 1]
           IN /\ h + 1 \in 1 .. Len(F)
              /\ NextRequest(q, data) = IF frame.valid THEN Ok(frame.command, Len(frame.units) + 1)
                                        ELSE ProtocolError
              /\ frame.valid => Len(frame.units) <= Len(data)
              /\ Len(FirstFrames[q][c][h + 1]) = Len(FirstFrames[q][c][h]) + Len(frame.units)
              /\ Len(frame.units) \in Nat
<1> DEFINE F == Frames[q][c]
           N == Len(F)
<1>1. PICK g : g = FirstFrames[q][c]
  OBVIOUS
<1>2. PICK s : s = Stream[q][c]
  OBVIOUS
<1>3. /\ N \in Nat /\ s \in Data /\ s = g[N]
      /\ \A i \in 0 .. N : g[i] \in Data /\ Front(g[i], s)
      /\ \A i \in 1 .. N : F[i].units \in Data /\ g[i] = g[i - 1] \o F[i].units
  BY <1>1, <1>2, StreamParts
<1>4. Piece(s, Len(g[h]), data)
  BY <1>1, <1>2
<1>5. h \in 0 .. N
  OBVIOUS
<1>6. data \in Data /\ Len(data) \in Nat /\ Len(s) \in Nat /\ Len(g[h]) \in Nat
  BY <1>3, <1>4, <1>5, Length DEF Piece
<1>7. h # N
  <2> SUFFICES ASSUME h = N PROVE FALSE
    OBVIOUS
  <2>1. s = g[h] /\ Len(g[h]) + Len(data) <= Len(s)
    BY <1>3, <1>4 DEF Piece
  <2>3. Len(data) = 0
    BY <1>6, <2>1, SMT
  <2>2. data = <<>>
    BY <1>6, <2>3, SMT DEF Data
  <2> QED  BY <2>2, NothingRead
<1>8. h + 1 \in 1 .. N /\ h + 1 - 1 = h /\ h + 1 \in 0 .. N
  BY <1>3, <1>5, <1>7, SMT
<1>9. PICK frame : frame = F[h + 1]
  OBVIOUS
<1>10. frame.units \in Data /\ g[h + 1] = g[h] \o frame.units /\ Front(g[h + 1], s) /\ g[h] \in Data
  <2>1. PICK i \in 1 .. N : i = h + 1
    BY <1>8
  <2>2. i \in 0 .. N /\ i - 1 = h
    BY <1>8, <2>1
  <2>3. g[i] = g[i - 1] \o F[i].units /\ F[i].units \in Data /\ Front(g[i], s) /\ g[h] \in Data
    BY <1>3, <1>5, <2>2
  <2> QED  BY <1>9, <2>1, <2>2, <2>3
<1>11. PICK u \in Data : u = frame.units
  BY <1>10
<1>12. NextRequest(q, u) = IF frame.valid THEN Ok(frame.command, Len(u) + 1) ELSE ProtocolError
  BY <1>3, <1>8, <1>9, <1>11, FramesAssumption
<1>13. PICK e : e = SubSeq(s, Len(g[h]) + 1, Len(s))
  OBVIOUS
<1>14. Len(g[h + 1]) = Len(g[h]) + Len(u) /\ Len(u) \in Nat /\ Len(g[h]) + Len(u) <= Len(s)
  BY <1>6, <1>10, <1>11, FrontOfLonger, Length DEF Front
<1>15. e \in Data /\ Len(e) = Len(s) - Len(g[h]) /\ \A i \in 1 .. Len(e) : e[i] = s[Len(g[h]) + i]
  <2>1. Len(g[h]) <= Len(s)
    BY <1>6, <1>14, SMT
  <2> QED  BY <1>3, <1>6, <1>13, <2>1, RestOfData, ZenonT(40)
<1>16. Front(data, e)
  <2>1. Len(data) <= Len(e)
    BY <1>4, <1>6, <1>15, SMT DEF Piece
  <2>2. \A i \in 1 .. Len(data) : i \in 1 .. Len(e)
    BY <1>6, <1>15, <2>1, SMT
  <2> QED  BY <1>4, <1>15, <2>1, <2>2 DEF Front, Piece
<1>17. Front(u, e)
  <2>1. Len(u) <= Len(e)
    BY <1>6, <1>14, <1>15, SMT
  <2>2. ASSUME NEW i \in 1 .. Len(u) PROVE e[i] = u[i]
    <3>1. i \in 1 .. Len(e) /\ Len(g[h]) + i \in 1 .. Len(g[h + 1])
      BY <1>6, <1>14, <1>15, <2>1, SMT
    <3>2. g[h + 1][Len(g[h]) + i] = u[i]
      <4>1. PICK a \in Data : a = g[h]
        BY <1>10
      <4>2. (a \o u)[Len(a) + i] = u[i]
        BY LaterUnit
      <4> QED  BY <1>10, <1>11, <4>1, <4>2
    <3>3. s[Len(g[h]) + i] = g[h + 1][Len(g[h]) + i]
      BY <1>10, <3>1 DEF Front
    <3> QED  BY <1>15, <3>1, <3>2, <3>3
  <2> QED  BY <2>1, <2>2 DEF Front
<1>18. NextRequest(q, e) = NextRequest(q, data)
  BY <1>6, <1>15, <1>16, RequestStable DEF Stable
<1>19. NextRequest(q, u) # ErrIncompleteRESP
  BY <1>12 DEF Ok, ProtocolError, ErrIncompleteRESP
<1>20. NextRequest(q, e) = NextRequest(q, u)
  BY <1>15, <1>17, <1>19, RequestStable DEF Stable
<1>21. NextRequest(q, data) = IF frame.valid THEN Ok(frame.command, Len(u) + 1) ELSE ProtocolError
  BY <1>12, <1>18, <1>20
<1>22. frame.valid => Len(u) <= Len(data)
  <2> SUFFICES ASSUME frame.valid PROVE Len(u) <= Len(data)
    OBVIOUS
  <2>1. Result(Ok(frame.command, Len(u) + 1), 1, Len(data) + 1)
    BY <1>6, <1>21, RequestRead
  <2>2. Len(u) + 1 <= Len(data) + 1
    BY <2>1 DEF Result, Ok, ErrIncompleteRESP, ProtocolError
  <2> QED  BY <1>6, <1>14, <2>2, SMT
<1> QED  BY <1>1, <1>8, <1>9, <1>11, <1>14, <1>21, <1>22

-----------------------------------------------------------------------------
(* The loop and the streams                                                   *)

\* The first h frames of c are requests, and what has been run for it are their
\* commands.
Ran(c, h) ==
    LET F == Frames[protocol][c] IN
    /\ h \in 0 .. Len(F) /\ \A j \in 1 .. h : F[j].valid
    /\ handled[c] = [j \in 1 .. h |-> F[j].command]

\* What is kept of the last command until it is answered.
Owed(d) == IF at = "write" /\ d = fd THEN consumed ELSE 0

\* The loop has read the first n units of what c sends, if more can come.
ReadUpTo(c, n) == ~ conn[c].left \/ conn[c].inbox > 0 => n = conn[c].sent - conn[c].inbox

\* What is pending starts where the commands that are answered end, and ends
\* where the next Read continues.
Buffered(c, d, h) ==
    LET start == Len(FirstFrames[protocol][c][h]) - Owed(d) IN
    /\ Owed(d) \in 0 .. Len(pending[d])
    /\ Piece(Stream[protocol][c], start, pending[d])
    /\ ReadUpTo(c, start + Len(pending[d]))

ClientOK(c) ==
    \E h \in 0 .. Len(Frames[protocol][c]) :
        /\ Ran(c, h)
        /\ conn[c].inbox <= conn[c].sent /\ conn[c].sent <= Len(Stream[protocol][c])
        /\ conn[c].phase \in {"none", "backlog"} => h = 0 /\ ReadUpTo(c, 0)
        /\ \A d \in DOMAIN pending : owner[d] = c => Buffered(c, d, h)
        /\ conn[c].phase = "closed" /\ ~ conn[c].left =>
              h + 1 \in 1 .. Len(Frames[protocol][c]) /\ ~ Frames[protocol][c][h + 1].valid

StreamsOK == /\ consumed \in Nat /\ (at # "write" => consumed = 0) /\ DOMAIN handled = Clients
             /\ \A c \in Clients : ClientOK(c)

LEMMA ClientParts ==
    ASSUME IInv, NEW c \in Clients
    PROVE  /\ protocol \in Protocols /\ Len(Frames[protocol][c]) \in Nat
           /\ DOMAIN Frames[protocol][c] = 1 .. Len(Frames[protocol][c])
           /\ Stream[protocol][c] \in Data /\ Len(Stream[protocol][c]) \in Nat
           /\ conn[c].sent \in Nat /\ conn[c].inbox \in Nat /\ conn[c].left \in BOOLEAN
           /\ FirstFrames[protocol][c][0] = <<>>
           /\ \A h \in 0 .. Len(Frames[protocol][c]) : Len(FirstFrames[protocol][c][h]) \in Nat
<1>1. protocol \in Protocols /\ conn[c] \in Connection
  BY DEF IInv, TypeOK
<1>2. conn[c].sent \in Nat /\ conn[c].inbox \in Nat /\ conn[c].left \in BOOLEAN
  BY <1>1 DEF Connection
<1> QED  BY <1>1, <1>2, StreamParts, Length

\* A step that runs nothing for c, keeps what is pending of it, and after which
\* the loop would read on where it would have before.
LEMMA ClientMoves ==
    ASSUME NEW c \in Clients, ClientOK(c), UNCHANGED protocol, handled'[c] = handled[c],
           \A d \in DOMAIN pending' : owner'[d] = c =>
               /\ d \in DOMAIN pending /\ owner[d] = c
               /\ pending'[d] = pending[d] /\ Owed(d)' = Owed(d),
           \A n : ReadUpTo(c, n) => ReadUpTo(c, n)',
           conn'[c].inbox <= conn'[c].sent, conn'[c].sent <= Len(Stream[protocol][c]),
           conn'[c].phase \in {"none", "backlog"} => conn[c].phase \in {"none", "backlog"},
           conn'[c].phase = "closed" /\ ~ conn'[c].left => conn[c].phase = "closed" /\ ~ conn[c].left
    PROVE  ClientOK(c)'
<1>1. PICK h \in 0 .. Len(Frames[protocol][c]) :
         /\ Ran(c, h)
         /\ conn[c].phase \in {"none", "backlog"} => h = 0 /\ ReadUpTo(c, 0)
         /\ \A d \in DOMAIN pending : owner[d] = c => Buffered(c, d, h)
         /\ conn[c].phase = "closed" /\ ~ conn[c].left =>
               h + 1 \in 1 .. Len(Frames[protocol][c]) /\ ~ Frames[protocol][c][h + 1].valid
  BY DEF ClientOK
<1>2. Ran(c, h)'
  BY <1>1 DEF Ran
<1>3. \A d \in DOMAIN pending' : owner'[d] = c => Buffered(c, d, h)'
  BY <1>1 DEF Buffered
<1> QED  BY <1>1, <1>2, <1>3 DEF ClientOK

LEMMA ClientSame ==
    ASSUME IInv, NEW c \in Clients, ClientOK(c), UNCHANGED protocol, handled'[c] = handled[c],
           \A d \in DOMAIN pending' : owner'[d] = c =>
               /\ d \in DOMAIN pending /\ owner[d] = c
               /\ pending'[d] = pending[d] /\ Owed(d)' = Owed(d),
           conn'[c] = conn[c]
    PROVE  ClientOK(c)'
<1>1. conn[c].inbox <= conn[c].sent /\ conn[c].sent <= Len(Stream[protocol][c])
  BY DEF ClientOK
<1>2. \A n : ReadUpTo(c, n) => ReadUpTo(c, n)'
  BY DEF ReadUpTo
<1> QED  BY <1>1, <1>2, ClientMoves

LEMMA InitStreams == Init => StreamsOK
<1> SUFFICES ASSUME Init PROVE StreamsOK
  OBVIOUS
<1>1. IInv
  BY InitIInv
<1>2. ASSUME NEW c \in Clients PROVE ClientOK(c)
  <2>1. conn[c] = Unconnected /\ handled[c] = <<>> /\ DOMAIN pending = {}
    BY SMT DEF Init
  <2>2. 0 \in 0 .. Len(Frames[protocol][c]) /\ 1 .. 0 = {}
    BY <1>1, ClientParts, SMT
  <2>3. Ran(c, 0)
    BY <2>1, <2>2 DEF Ran
  <2>4. /\ conn[c].phase = "none" /\ ~ conn[c].left /\ conn[c].inbox = 0 /\ conn[c].sent = 0
    BY <2>1 DEF Unconnected
  <2>5. ReadUpTo(c, 0) /\ 0 <= Len(Stream[protocol][c]) /\ 0 <= 0
    BY <1>1, <2>4, ClientParts, SMT DEF ReadUpTo
  <2> QED  BY <2>1, <2>2, <2>3, <2>4, <2>5 DEF ClientOK
<1> QED  BY <1>2, SMT DEF Init, StreamsOK

\* Clients move only themselves.
LEMMA ClientStreams ==
    ASSUME IInv, StreamsOK, NEW c \in Clients, Client(c) PROVE StreamsOK'
<1>1. UNCHANGED <<protocol, at, batch, fd, consumed, pending, monitored, owner, handled>>
  BY DEF Client
<1>2. conn \in [Clients -> Connection] /\ protocol \in Protocols
  BY DEF IInv, TypeOK
<1>3. \A d : Owed(d)' = Owed(d)
  BY <1>1 DEF Owed
<1>4. /\ protocol \in Protocols /\ conn[c].sent \in Nat /\ conn[c].inbox \in Nat
      /\ conn[c].left \in BOOLEAN /\ Len(Stream[protocol][c]) \in Nat
  BY ClientParts
<1>5. ClientOK(c) /\ conn[c].inbox <= conn[c].sent /\ conn[c].sent <= Len(Stream[protocol][c])
  BY DEF StreamsOK, ClientOK
<1>6. /\ \A x \in Clients \ {c} : conn'[x] = conn[x]
      /\ \A n : ReadUpTo(c, n) => ReadUpTo(c, n)'
      /\ conn'[c].inbox <= conn'[c].sent /\ conn'[c].sent <= Len(Stream[protocol][c])
      /\ conn'[c].phase \in {"none", "backlog"} => conn[c].phase \in {"none", "backlog"}
      /\ conn'[c].phase = "closed" /\ ~ conn'[c].left => conn[c].phase = "closed" /\ ~ conn[c].left
  <2>1. CASE Connect(c)
    <3>1. conn[c].phase = "none" /\ conn' = [conn EXCEPT ![c].phase = "backlog"]
      BY <2>1 DEF Connect
    <3>2. /\ conn'[c].phase = "backlog" /\ conn'[c].inbox = conn[c].inbox
          /\ conn'[c].sent = conn[c].sent /\ conn'[c].left = conn[c].left
      BY <1>2, <3>1 DEF Connection
    <3> QED  BY <1>2, <1>5, <3>1, <3>2 DEF ReadUpTo
  <2>2. CASE Send(c)
    <3>1. PICK n \in Cuts[protocol][c] :
             /\ n > conn[c].sent
             /\ conn' = [conn EXCEPT ![c].sent = n, ![c].inbox = @ + n - conn[c].sent]
      BY <2>2 DEF Send
    <3>2. n \in 0 .. Len(Stream[protocol][c]) /\ ~ conn[c].left /\ conn[c].phase # "closed"
      BY <1>2, <2>2, FramesAssumption DEF Send
    <3>3. /\ conn'[c].phase = conn[c].phase /\ conn'[c].inbox = conn[c].inbox + n - conn[c].sent
          /\ conn'[c].sent = n /\ conn'[c].left = conn[c].left
          /\ \A x \in Clients \ {c} : conn'[x] = conn[x]
      BY <1>2, <3>1 DEF Connection
    <3>4. n - (conn[c].inbox + n - conn[c].sent) = conn[c].sent - conn[c].inbox
          /\ conn[c].inbox + n - conn[c].sent <= n /\ n <= Len(Stream[protocol][c])
      BY <1>4, <1>5, <3>2, SMT
    <3>5. \A x : ReadUpTo(c, x) => ReadUpTo(c, x)'
      BY <3>2, <3>3, <3>4 DEF ReadUpTo
    <3> QED  BY <3>2, <3>3, <3>4, <3>5
  <2>3. CASE ReadReply(c)
    <3>1. conn' = [conn EXCEPT ![c].unread = @ - 1]
      BY <2>3 DEF ReadReply
    <3>2. /\ conn'[c].phase = conn[c].phase /\ conn'[c].inbox = conn[c].inbox
          /\ conn'[c].sent = conn[c].sent /\ conn'[c].left = conn[c].left
          /\ \A x \in Clients \ {c} : conn'[x] = conn[x]
      BY <1>2, <3>1 DEF Connection
    <3> QED  BY <1>5, <3>2 DEF ReadUpTo
  <2>4. CASE Leave(c)
    <3>1. PICK n \in {0, conn[c].inbox} :
             conn' = [conn EXCEPT ![c].left = TRUE, ![c].inbox = n]
      BY <2>4 DEF Leave
    <3>2. /\ conn'[c].phase = conn[c].phase /\ conn'[c].inbox = n
          /\ conn'[c].sent = conn[c].sent /\ conn'[c].left
          /\ \A x \in Clients \ {c} : conn'[x] = conn[x]
      BY <1>2, <3>1 DEF Connection
    <3>3. n <= conn[c].sent /\ (n > 0 => n = conn[c].inbox)
      BY <1>4, <1>5, SMT
    <3>4. \A x : ReadUpTo(c, x) => ReadUpTo(c, x)'
      BY <3>2, <3>3 DEF ReadUpTo
    <3> QED  BY <1>5, <3>2, <3>3, <3>4
  <2> QED  BY <2>1, <2>2, <2>3, <2>4 DEF Client
<1>7. ClientOK(c)'
  BY <1>1, <1>3, <1>5, <1>6, ClientMoves
<1>8. \A x \in Clients \ {c} : ClientOK(x)'
  BY <1>1, <1>3, <1>6, ClientSame DEF StreamsOK
<1> QED  BY <1>1, <1>7, <1>8 DEF StreamsOK

\* Steps that neither read, run nor close leave every stream where it is.
LEMMA IdleStreams ==
    ASSUME IInv, StreamsOK, UNCHANGED <<protocol, fd, consumed, pending, owner, handled>>,
           at # "write", at' # "write",
           \A c \in Clients :
               \/ conn'[c] = conn[c]
               \/ conn[c].phase = "backlog" /\ conn' = [conn EXCEPT ![c].phase = "rejected"]
    PROVE  StreamsOK'
<1>1. \A d : Owed(d)' = Owed(d)
  BY DEF Owed
<1>2. ASSUME NEW c \in Clients PROVE ClientOK(c)'
  <2>1. ClientOK(c) /\ conn[c].inbox <= conn[c].sent /\ conn[c].sent <= Len(Stream[protocol][c])
    BY DEF StreamsOK, ClientOK
  <2>2. CASE conn'[c] = conn[c]
    BY <1>1, <2>1, <2>2, ClientSame
  <2>3. CASE conn[c].phase = "backlog" /\ conn' = [conn EXCEPT ![c].phase = "rejected"]
    <3>1. /\ conn'[c].phase = "rejected" /\ conn'[c].inbox = conn[c].inbox
          /\ conn'[c].sent = conn[c].sent /\ conn'[c].left = conn[c].left
      BY <2>3 DEF IInv, TypeOK, Connection
    <3>2. \A n : ReadUpTo(c, n) => ReadUpTo(c, n)'
      BY <3>1 DEF ReadUpTo
    <3> QED  BY <1>1, <2>1, <3>1, <3>2, ClientMoves
  <2> QED  BY <2>2, <2>3
<1> QED  BY <1>2 DEF StreamsOK

LEMMA AcceptStreams == ASSUME IInv, StreamsOK, NEW e \in batch, Accept(e) PROVE StreamsOK'
<1>0. PICK d : d = LowestFree
  OBVIOUS
<1>1. PICK c \in Backlog :
         /\ conn' = [conn EXCEPT ![c].phase = "open"]
         /\ owner' = [owner EXCEPT ![d] = c]
         /\ pending' = [x \in DOMAIN pending \union {d} |-> IF x = d THEN <<>> ELSE pending[x]]
  BY <1>0 DEF Accept
<1>2. /\ at = "events" /\ at' \in {"wait", "events"}
      /\ UNCHANGED <<protocol, fd, consumed, handled>> /\ ~ Full
  BY DEF Accept, Take, Continue
<1>3. d \in Descriptors /\ owner[d] = NoClient /\ d \notin DOMAIN pending
  BY <1>0, <1>2, RoomLeft
<1>4. conn \in [Clients -> Connection] /\ owner \in [Descriptors -> Clients \union {NoClient}]
      /\ DOMAIN pending \subseteq Descriptors
  BY DEF IInv, TypeOK
<1>5. c \in Clients /\ conn[c].phase = "backlog" /\ c # NoClient
  BY EventLoopAssumption DEF Backlog
<1>6. \A x \in Descriptors : owner[x] # c
  BY <1>5 DEF IInv, TablesAgree
<1>7. /\ owner'[d] = c /\ (\A x \in Descriptors \ {d} : owner'[x] = owner[x])
      /\ DOMAIN pending' = DOMAIN pending \union {d} /\ pending'[d] = <<>>
      /\ \A x \in DOMAIN pending : x # d /\ pending'[x] = pending[x]
  BY <1>1, <1>3, <1>4
<1>8. \A x : Owed(x) = 0 /\ Owed(x)' = 0
  BY <1>2 DEF Owed
<1>9. /\ \A x \in Clients \ {c} : conn'[x] = conn[x]
      /\ conn'[c].phase = "open" /\ conn'[c].left = conn[c].left
      /\ conn'[c].inbox = conn[c].inbox /\ conn'[c].sent = conn[c].sent
  BY <1>1, <1>4, <1>5 DEF Connection
<1>10. ASSUME NEW x \in Clients \ {c} PROVE ClientOK(x)'
  <2>1. \A y \in DOMAIN pending' : owner'[y] = x =>
           /\ y \in DOMAIN pending /\ owner[y] = x
           /\ pending'[y] = pending[y] /\ Owed(y)' = Owed(y)
    BY <1>4, <1>7, <1>8
  <2> QED  BY <1>2, <1>9, <2>1, ClientSame DEF StreamsOK
<1>11. ClientOK(c)'
  <2>1. /\ Ran(c, 0) /\ ReadUpTo(c, 0) /\ 0 \in 0 .. Len(Frames[protocol][c])
        /\ conn[c].inbox <= conn[c].sent /\ conn[c].sent <= Len(Stream[protocol][c])
    BY <1>5 DEF StreamsOK, ClientOK
  <2>2. Ran(c, 0)' /\ ReadUpTo(c, 0)'
    BY <1>2, <1>9, <2>1 DEF Ran, ReadUpTo
  <2>3. \A y \in DOMAIN pending' : owner'[y] = c => y = d
    BY <1>4, <1>6, <1>7
  <2>4. Buffered(c, d, 0)'
    <3>1. Len(FirstFrames[protocol][c][0]) = 0 /\ Len(Stream[protocol][c]) \in Nat
      BY <1>5, ClientParts
    <3>2. <<>> \in Data /\ Len(<<>>) = 0 /\ 0 \in 0 .. 0 /\ 0 - 0 = 0 /\ 0 + 0 = 0 /\ 1 .. 0 = {}
      BY SMT DEF Data
    <3>3. Piece(Stream[protocol][c], 0, <<>>)
      BY <3>1, <3>2 DEF Piece
    <3> QED  BY <1>2, <1>7, <1>8, <2>2, <3>1, <3>2, <3>3 DEF Buffered
  <2> QED  BY <1>2, <1>9, <2>1, <2>2, <2>3, <2>4 DEF ClientOK
<1>12. consumed' \in Nat /\ (at' # "write" => consumed' = 0)
  BY <1>2 DEF StreamsOK
<1> QED  BY <1>2, <1>10, <1>11, <1>12 DEF StreamsOK

\* What is still to come of c is read on where the last Read ended.
LEMMA ReadStreams == ASSUME IInv, StreamsOK, NEW e \in batch, Read(e) PROVE StreamsOK'
<1>01. PICK c : c = owner[e.fd]
  OBVIOUS
<1>02. PICK n : n = Min({BufferSize, conn[c].inbox})
  OBVIOUS
<1>03. PICK s : s = Stream[protocol][c]
  OBVIOUS
<1>04. PICK new : new = SubSeq(s, conn[c].sent - conn[c].inbox + 1, conn[c].sent - conn[c].inbox + 1 + n - 1)
  OBVIOUS
<1>1. /\ at = "events" /\ Take(e) /\ e.fd # listenerFD
      /\ UNCHANGED <<protocol, consumed, owner, handled>>
  BY DEF Read, Take
<1>2. e.fd \in DOMAIN pending /\ c \in Clients
  BY <1>1, <1>01, Taken DEF IInv, TypeOK, TablesAgree
<1>3. /\ n > 0 /\ conn' = [conn EXCEPT ![c].inbox = @ - n]
      /\ pending' = [pending EXCEPT ![e.fd] = @ \o new] /\ at' = "parse"
  BY <1>2, <1>01, <1>02, <1>03, <1>04 DEF Read
<1>4. conn \in [Clients -> Connection]
  BY DEF IInv, TypeOK
<1>5. /\ conn[c].sent \in Nat /\ conn[c].inbox \in Nat /\ s \in Data /\ Len(s) \in Nat
      /\ conn[c].inbox <= conn[c].sent /\ conn[c].sent <= Len(s)
  BY <1>2, <1>03, ClientParts DEF StreamsOK, ClientOK
<1>6. n \in Nat /\ n <= conn[c].inbox
  <2>1. {BufferSize, conn[c].inbox} \in SUBSET Nat
    BY <1>5, EventLoopAssumption
  <2> QED  BY <1>02, <2>1, MinOfNaturals
<1>7. \A x : Owed(x) = 0 /\ Owed(x)' = 0
  BY <1>1, <1>3 DEF Owed
<1>05. PICK d : d = e.fd
  OBVIOUS
<1>8. \A x \in DOMAIN pending : owner[x] = c => x = d
  BY <1>2, <1>01, <1>05 DEF IInv, TablesAgree
<1>9. PICK h \in 0 .. Len(Frames[protocol][c]) :
         /\ Ran(c, h) /\ Buffered(c, d, h)
         /\ conn[c].phase \in {"none", "backlog"} => h = 0 /\ ReadUpTo(c, 0)
         /\ conn[c].phase = "closed" /\ ~ conn[c].left =>
               h + 1 \in 1 .. Len(Frames[protocol][c]) /\ ~ Frames[protocol][c][h + 1].valid
  BY <1>2, <1>01, <1>05 DEF StreamsOK, ClientOK
<1>10. conn[c].phase = "open"
  BY <1>2, <1>01 DEF IInv, TypeOK, TablesAgree
<1>11. /\ \A x \in Clients \ {c} : conn'[x] = conn[x]
       /\ conn'[c].inbox = conn[c].inbox - n /\ conn'[c].sent = conn[c].sent
       /\ conn'[c].phase = conn[c].phase
  BY <1>2, <1>3, <1>4 DEF Connection
<1>12. DOMAIN pending' = DOMAIN pending /\ pending'[d] = pending[d] \o new
       /\ \A x \in DOMAIN pending \ {d} : pending'[x] = pending[x]
  BY <1>2, <1>3, <1>05
<1>13. ASSUME NEW x \in Clients \ {c} PROVE ClientOK(x)'
  <2>1. \A y \in DOMAIN pending' : owner'[y] = x =>
           /\ y \in DOMAIN pending /\ owner[y] = x
           /\ pending'[y] = pending[y] /\ Owed(y)' = Owed(y)
    BY <1>1, <1>7, <1>12, <1>01, <1>05
  <2> QED  BY <1>1, <1>11, <2>1, ClientSame DEF StreamsOK
<1>14. ClientOK(c)'
  <2>1. PICK b : b = Len(FirstFrames[protocol][c][h])
    OBVIOUS
  <2>2. PICK p : p = pending[d]
    OBVIOUS
  <2>3. b \in Nat /\ b - 0 = b
    BY <1>2, <2>1, ClientParts
  <2>4. Piece(s, b, p) /\ ReadUpTo(c, b + Len(p))
    BY <1>7, <1>9, <1>03, <2>1, <2>2, <2>3 DEF Buffered
  <2>5. p \in Data /\ Len(p) \in Nat /\ b + Len(p) <= Len(s) /\ \A i \in 1 .. Len(p) : p[i] = s[b + i]
    BY <2>4, Length DEF Piece
  <2>6. b + Len(p) = conn[c].sent - conn[c].inbox
    <3>1. conn[c].inbox > 0
      BY <1>3, <1>5, <1>6, SMT
    <3> QED  BY <2>4, <3>1 DEF ReadUpTo
  <2>7. new \in Data /\ Len(new) = n /\ \A i \in 1 .. n : new[i] = s[b + Len(p) + i]
    <3>1. new = SubSeq(s, b + Len(p) + 1, b + Len(p) + n)
      <4>1. conn[c].sent - conn[c].inbox + 1 + n - 1 = b + Len(p) + n
        BY <1>5, <1>6, <2>3, <2>5, <2>6, SMT
      <4> QED  BY <1>04, <2>6, <4>1
    <3>2. b + Len(p) + n <= Len(s) /\ b + Len(p) \in Nat
      <4>1. PICK l \in Nat, m \in Nat, sent \in Nat, inbox \in Nat :
               l = Len(p) /\ m = Len(s) /\ sent = conn[c].sent /\ inbox = conn[c].inbox
        BY <1>5, <2>5
      <4>2. n \in Nat /\ n <= inbox /\ sent <= m /\ b \in Nat /\ b + l = sent - inbox
        BY <1>5, <1>6, <2>3, <2>6, <4>1
      <4>3. b + l + n <= m /\ b + l \in Nat
        BY <4>2, SMT
      <4> QED  BY <4>1, <4>3, Zenon
    <3>3. PICK lo \in Nat : lo = b + Len(p)
      BY <3>2
    <3>4. new = SubSeq(s, lo + 1, lo + n) /\ lo + n <= Len(s) /\ s \in Data /\ n \in Nat
      BY <1>5, <1>6, <3>1, <3>2, <3>3
    <3>5. new \in Data /\ Len(new) = n /\ \A i \in 1 .. n : new[i] = s[lo + i]
      BY <3>4, PartOfData
    <3> QED  BY <3>3, <3>5
  <2>8. Piece(s, b, p \o new) /\ Len(p \o new) = Len(p) + n
    <3>1. p \o new \in Data /\ Len(p \o new) = Len(p) + n
      BY <2>5, <2>7, FrontOfLonger
    <3>2. b + Len(p \o new) <= Len(s)
      BY <1>5, <1>6, <2>3, <2>5, <2>6, <3>1, SMT
    <3>3. ASSUME NEW i \in 1 .. Len(p \o new) PROVE (p \o new)[i] = s[b + i]
      <4>1. CASE i <= Len(p)
        <5>1. i \in 1 .. Len(p)
          BY <4>1, <2>5, SMT
        <5>2. (p \o new)[i] = p[i]
          BY <2>5, <2>7, <5>1, FrontOfLonger DEF Front
        <5> QED  BY <2>5, <5>1, <5>2
      <4>2. CASE ~ (i <= Len(p))
        <5>1. PICK j : j = i - Len(p)
          OBVIOUS
        <5>2. j \in 1 .. n /\ i = Len(p) + j /\ b + Len(p) + j = b + i
          BY <1>6, <2>3, <2>5, <3>1, <4>2, <5>1, SMT
        <5>3. (p \o new)[Len(p) + j] = new[j]
          BY <2>5, <2>7, <5>2, LaterUnit
        <5>4. new[j] = s[b + Len(p) + j]
          BY <2>7, <5>2
        <5> QED  BY <5>2, <5>3, <5>4
      <4> QED  BY <4>1, <4>2
    <3> QED  BY <2>3, <3>1, <3>2, <3>3 DEF Piece
  <2>9. ReadUpTo(c, b + Len(p \o new))'
    <3>1. conn[c].sent - (conn[c].inbox - n) = b + (Len(p) + n)
      <4>1. PICK i \in Nat : i = conn[c].inbox
        BY <1>5
      <4>2. PICK l \in Nat : l = Len(p)
        BY <2>5
      <4>3. b + l = conn[c].sent - i
        BY <2>6, <4>1, <4>2
      <4>4. conn[c].sent - (i - n) = b + (l + n)
        <5>1. PICK t \in Int : t = conn[c].sent
          BY <1>5
        <5>2. b \in Int /\ n \in Int /\ i \in Int /\ l \in Int /\ b + l = t - i
          BY <1>6, <2>3, <4>3, <5>1
        <5>3. t - (i - n) = b + (l + n)
          BY <5>2, SMTT(30)
        <5> QED  BY <5>1, <5>3
      <4> QED  BY <4>1, <4>2, <4>4
    <3> QED  BY <1>11, <2>8, <3>1 DEF ReadUpTo
  <2>10. Buffered(c, d, h)'
    <3>1. 0 \in 0 .. Len(p \o new)
      BY <1>6, <2>5, <2>8, SMT
    <3> QED  BY <1>1, <1>03, <1>7, <1>12, <2>1, <2>2, <2>3, <2>8, <2>9, <3>1 DEF Buffered
  <2>11. \A y \in DOMAIN pending' : owner'[y] = c => y = d
    BY <1>1, <1>8, <1>12
  <2>12. Ran(c, h)'
    BY <1>1, <1>9 DEF Ran
  <2>13. conn'[c].inbox <= conn'[c].sent /\ conn'[c].sent <= Len(s)
    BY <1>5, <1>6, <1>11, SMT
  <2> QED  BY <1>1, <1>03, <1>10, <1>11, <2>10, <2>11, <2>12, <2>13 DEF ClientOK
<1>15. consumed' \in Nat /\ (at' # "write" => consumed' = 0)
  BY <1>1 DEF StreamsOK
<1> QED  BY <1>1, <1>13, <1>14, <1>15 DEF StreamsOK

\* A descriptor that is closed takes its client's part of the stream with it.
LEMMA CloseStreams ==
    ASSUME IInv, StreamsOK, NEW d \in DOMAIN pending, Close(d), UNCHANGED <<protocol, handled>>,
           at' # "write", at = "write" => fd = d,
           \/ conn[owner[d]].left
           \/ \A h \in 0 .. Len(Frames[protocol][owner[d]]) :
                 Buffered(owner[d], d, h) =>
                     /\ h + 1 \in 1 .. Len(Frames[protocol][owner[d]])
                     /\ ~ Frames[protocol][owner[d]][h + 1].valid
    PROVE  StreamsOK'
<1>0. PICK c : c = owner[d]
  OBVIOUS
<1>1. c \in Clients /\ d \in Descriptors /\ DOMAIN pending \subseteq Descriptors
  BY <1>0 DEF IInv, TypeOK, TablesAgree
<1>2. conn' = [conn EXCEPT ![c].phase = "closed", ![c].inbox = 0, ![c].unread = 0]
  BY <1>0 DEF Close
<1>3. conn \in [Clients -> Connection] /\ owner \in [Descriptors -> Clients \union {NoClient}]
  BY DEF IInv, TypeOK
<1>4. \A x \in DOMAIN pending : owner[x] = c => x = d
  BY <1>0 DEF IInv, TablesAgree
<1>5. /\ owner' = [owner EXCEPT ![d] = NoClient] /\ consumed' = 0
      /\ DOMAIN pending' = DOMAIN pending \ {d}
      /\ \A x \in DOMAIN pending' : pending'[x] = pending[x]
  BY DEF Close
<1>6. PICK h \in 0 .. Len(Frames[protocol][c]) :
         /\ Ran(c, h) /\ Buffered(c, d, h) /\ conn[c].sent <= Len(Stream[protocol][c])
  BY <1>0, <1>1 DEF StreamsOK, ClientOK
<1>7. ~ conn[c].left =>
         h + 1 \in 1 .. Len(Frames[protocol][c]) /\ ~ Frames[protocol][c][h + 1].valid
  BY <1>0, <1>6
<1>8. /\ \A x \in Clients \ {c} : conn'[x] = conn[x]
      /\ conn'[c].phase = "closed" /\ conn'[c].inbox = 0 /\ conn'[c].sent = conn[c].sent
      /\ conn'[c].left = conn[c].left /\ conn[c].sent \in Nat
  BY <1>1, <1>2, <1>3 DEF Connection
<1>9. \A x \in DOMAIN pending' : Owed(x) = 0 /\ Owed(x)' = 0 /\ owner'[x] = owner[x] /\ owner'[x] # c
  BY <1>0, <1>1, <1>3, <1>4, <1>5 DEF Owed
<1>10. ASSUME NEW x \in Clients \ {c} PROVE ClientOK(x)'
  <2>1. \A y \in DOMAIN pending' : owner'[y] = x =>
           /\ y \in DOMAIN pending /\ owner[y] = x
           /\ pending'[y] = pending[y] /\ Owed(y)' = Owed(y)
    BY <1>5, <1>9
  <2> QED  BY <1>8, <2>1, ClientSame DEF StreamsOK
<1>11. ClientOK(c)'
  <2>1. Ran(c, h)'
    BY <1>6 DEF Ran
  <2>2. 0 <= conn[c].sent
    BY <1>8, SMT
  <2> QED  BY <1>6, <1>7, <1>8, <1>9, <2>1, <2>2 DEF ClientOK
<1>12. consumed' \in Nat
  BY <1>5
<1> QED  BY <1>5, <1>10, <1>11, <1>12 DEF StreamsOK

-----------------------------------------------------------------------------
(* Running commands                                                          *)

LEMMA PieceCut ==
    ASSUME NEW s \in Data, NEW lo, NEW data, Piece(s, lo, data), NEW n \in 0 .. Len(data)
    PROVE  LET rest == SubSeq(data, n + 1, Len(data)) IN
           Piece(s, lo + n, rest) /\ Len(rest) = Len(data) - n
<1>1. data \in Data /\ lo \in Nat /\ lo + Len(data) <= Len(s) /\ \A i \in 1 .. Len(data) : data[i] = s[lo + i]
  BY DEF Piece
<1>2. Len(data) \in Nat /\ n \in Nat /\ n <= Len(data)
  BY <1>1, Length, SMT
<1>3. PICK rest : rest = SubSeq(data, n + 1, Len(data))
  OBVIOUS
<1>4. rest \in Data /\ Len(rest) = Len(data) - n /\ \A i \in 1 .. Len(rest) : rest[i] = data[n + i]
  BY <1>1, <1>2, <1>3, RestOfData
<1>5. \A i \in 1 .. Len(rest) : n + i \in 1 .. Len(data) /\ lo + (n + i) = (lo + n) + i
  BY <1>1, <1>2, <1>4, SMT
<1>6. \A i \in 1 .. Len(rest) : rest[i] = s[(lo + n) + i]
  BY <1>1, <1>4, <1>5
<1>7. lo + n \in Nat /\ (lo + n) + Len(rest) <= Len(s)
  <2>1. PICK l \in Nat : l = Len(data)
    BY <1>2
  <2>2. Len(s) \in Nat
    BY Length
  <2>3. (lo + n) + (l - n) <= Len(s)
    BY <1>1, <1>2, <2>1, <2>2, SMT
  <2> QED  BY <1>1, <1>2, <1>4, <2>1, <2>3
<1> QED  BY <1>3, <1>4, <1>6, <1>7 DEF Piece

LEMMA OneMore ==
    ASSUME NEW h \in Nat, NEW F, NEW x, x = [j \in 1 .. h |-> F[j].command]
    PROVE  Append(x, F[h + 1].command) = [j \in 1 .. h + 1 |-> F[j].command]
<1> DEFINE S == {F[j].command : j \in 1 .. h + 1}
<1>1. x \in Seq(S) /\ Len(x) = h
  BY SMT
<1>2. F[h + 1].command \in S
  BY SMT
<1> HIDE DEF S
<1>3. PICK v \in S : v = F[h + 1].command
  BY <1>2
<1>4. PICK y : y = Append(x, v)
  OBVIOUS
<1>5. y \in Seq(S) /\ Len(y) = h + 1 /\ y[h + 1] = v /\ \A j \in 1 .. h : y[j] = x[j]
  BY <1>1, <1>3, <1>4, SMT
<1>6. y = [j \in 1 .. h + 1 |-> y[j]]
  BY <1>5, SMT
<1>7. \A j \in 1 .. h + 1 : j \in 1 .. h \/ j = h + 1
  BY SMT
<1> QED  BY <1>3, <1>4, <1>5, <1>6, <1>7

\* Where the loop is in the stream of the client it handles.
LEMMA Handling ==
    ASSUME IInv, StreamsOK, at \in {"parse", "write"}
    PROVE  \E c \in Clients : \E h \in 0 .. Len(Frames[protocol][c]) :
              /\ c = owner[fd] /\ fd \in DOMAIN pending /\ Ran(c, h) /\ Buffered(c, fd, h)
              /\ conn[c].phase = "open"
              /\ conn[c].inbox <= conn[c].sent /\ conn[c].sent <= Len(Stream[protocol][c])
              /\ \A d \in DOMAIN pending : owner[d] = c => d = fd
<1>1. fd \in DOMAIN pending /\ owner[fd] \in Clients /\ conn[owner[fd]].phase = "open"
      /\ \A d \in DOMAIN pending : owner[d] = owner[fd] => d = fd
  BY DEF IInv, TypeOK, TablesAgree
<1> QED  BY <1>1 DEF StreamsOK, ClientOK

\* A command taken from what is pending is the next that the client sent.
LEMMA ExecuteStreams == ASSUME IInv, StreamsOK, Execute PROVE StreamsOK'
<1>0. PICK d : d = fd
  OBVIOUS
<1>1. /\ at = "parse" /\ at' = "write" /\ Parsed.status = "ok"
      /\ UNCHANGED <<protocol, batch, fd, monitored, owner, conn>>
  BY DEF Execute
<1>2. PICK c \in Clients : \E h \in 0 .. Len(Frames[protocol][c]) :
         /\ c = owner[d] /\ d \in DOMAIN pending /\ Ran(c, h) /\ Buffered(c, d, h)
         /\ conn[c].phase = "open"
         /\ conn[c].inbox <= conn[c].sent /\ conn[c].sent <= Len(Stream[protocol][c])
         /\ \A x \in DOMAIN pending : owner[x] = c => x = d
  BY <1>0, <1>1, Handling
<1>3. PICK h \in 0 .. Len(Frames[protocol][c]) :
         /\ c = owner[d] /\ d \in DOMAIN pending /\ Ran(c, h) /\ Buffered(c, d, h)
         /\ conn[c].phase = "open"
         /\ conn[c].inbox <= conn[c].sent /\ conn[c].sent <= Len(Stream[protocol][c])
         /\ \A x \in DOMAIN pending : owner[x] = c => x = d
  BY <1>2
<1>4. PICK F : F = Frames[protocol][c]
  OBVIOUS
<1>5. PICK s : s = Stream[protocol][c]
  OBVIOUS
<1>6. PICK p : p = pending[d]
  OBVIOUS
<1>7. PICK b : b = Len(FirstFrames[protocol][c][h])
  OBVIOUS
<1>8. protocol \in Protocols /\ b \in Nat /\ s \in Data /\ Len(F) \in Nat /\ h \in Nat
  BY <1>4, <1>5, <1>7, ClientParts, SMT
<1>9. Piece(s, b, p) /\ ReadUpTo(c, b + Len(p)) /\ Owed(d) = 0
  <2>1. Owed(d) = 0 /\ b - 0 = b
    BY <1>1, <1>8 DEF Owed
  <2> QED  BY <1>3, <1>5, <1>6, <1>7, <2>1 DEF Buffered
<1>10. p \in Data /\ Len(p) \in Nat
  BY <1>9, Length DEF Piece
<1>11. PICK r : r = NextRequest(protocol, p)
  OBVIOUS
<1>12. Parsed = r /\ r.status = "ok" /\ r # ErrIncompleteRESP
  BY <1>0, <1>1, <1>6, <1>11 DEF Parsed, ErrIncompleteRESP
<1>13. PICK frame : frame = F[h + 1]
  OBVIOUS
<1>14. /\ h + 1 \in 1 .. Len(F) /\ Len(frame.units) \in Nat
       /\ r = IF frame.valid THEN Ok(frame.command, Len(frame.units) + 1) ELSE ProtocolError
       /\ frame.valid => Len(frame.units) <= Len(p)
       /\ Len(FirstFrames[protocol][c][h + 1]) = b + Len(frame.units)
  BY <1>4, <1>5, <1>7, <1>8, <1>9, <1>11, <1>12, <1>13, FrameRead, ZenonT(40)
<1>15. PICK n \in Nat : n = Len(frame.units)
  BY <1>14
<1>16. frame.valid /\ r.value = frame.command /\ r.next = n + 1 /\ n <= Len(p)
  BY <1>12, <1>14, <1>15 DEF Ok, ProtocolError
<1>17. n + 1 - 1 = n /\ n \in 0 .. Len(p)
  BY <1>10, <1>16, SMT
<1>18. handled' = [handled EXCEPT ![c] = Append(@, frame.command)]
  BY <1>0, <1>3, <1>12, <1>16 DEF Execute
<1>19. /\ handled'[c] = Append(handled[c], frame.command) /\ DOMAIN handled' = Clients
       /\ \A x \in Clients \ {c} : handled'[x] = handled[x]
  BY <1>18 DEF StreamsOK
<1>20. Ran(c, h + 1)'
  <2>1. handled[c] = [j \in 1 .. h |-> F[j].command] /\ \A j \in 1 .. h : F[j].valid
    BY <1>3, <1>4 DEF Ran
  <2>2. handled'[c] = [j \in 1 .. h + 1 |-> F[j].command]
    BY <1>8, <1>13, <1>19, <2>1, OneMore
  <2>3. \A j \in 1 .. h + 1 : j \in 1 .. h \/ j = h + 1
    BY <1>8, SMT
  <2>4. \A j \in 1 .. h + 1 : F[j].valid
    BY <1>13, <1>16, <2>1, <2>3
  <2>5. h + 1 \in 0 .. Len(F)
    BY <1>8, <1>14, SMT
  <2> QED  BY <1>1, <1>4, <2>2, <2>4, <2>5 DEF Ran
<1>21. /\ DOMAIN pending' = DOMAIN pending
       /\ \A x \in DOMAIN pending \ {d} : pending'[x] = pending[x]
       /\ \/ pending'[d] = SubSeq(p, n + 1, Len(p)) /\ consumed' = 0
          \/ pending'[d] = p /\ consumed' = n
  <2>1. CASE protocol = "line"
    <3>1. pending' = [pending EXCEPT ![d] = SubSeq(@, n + 1, Len(@))] /\ consumed' = consumed
      BY <1>0, <1>12, <1>16, <1>17, <2>1 DEF Execute, Without
    <3> QED  BY <1>1, <1>3, <1>6, <3>1 DEF StreamsOK
  <2>2. CASE protocol # "line"
    BY <1>6, <1>12, <1>16, <1>17, <2>2 DEF Execute
  <2> QED  BY <2>1, <2>2
<1>22. Buffered(c, d, h + 1)'
  <2>1. Owed(d)' = consumed'
    BY <1>0, <1>1 DEF Owed
  <2>2. CASE pending'[d] = SubSeq(p, n + 1, Len(p)) /\ consumed' = 0
    <3>1. PICK rest : rest = SubSeq(p, n + 1, Len(p))
      OBVIOUS
    <3>2. Piece(s, b + n, rest) /\ Len(rest) = Len(p) - n
      BY <1>8, <1>9, <1>17, <3>1, PieceCut
    <3>3. (b + n) - 0 = b + n /\ (b + n) + (Len(p) - n) = b + Len(p) /\ 0 \in 0 .. (Len(p) - n)
      BY <1>8, <1>10, <1>17, SMT
    <3>4. ReadUpTo(c, (b + n) + Len(rest))'
      BY <1>1, <1>9, <3>2, <3>3 DEF ReadUpTo
    <3> QED  BY <1>1, <1>5, <1>14, <1>15, <2>1, <2>2, <3>1, <3>2, <3>3, <3>4 DEF Buffered
  <2>3. CASE pending'[d] = p /\ consumed' = n
    <3>1. (b + n) - n = b
      BY <1>8, SMT
    <3>2. ReadUpTo(c, b + Len(p))'
      BY <1>1, <1>9 DEF ReadUpTo
    <3> QED  BY <1>1, <1>5, <1>9, <1>14, <1>15, <1>17, <2>1, <2>3, <3>1, <3>2 DEF Buffered
  <2> QED  BY <1>21, <2>2, <2>3
<1>23. ClientOK(c)'
  <2>1. \A x \in DOMAIN pending' : owner'[x] = c => x = d
    BY <1>1, <1>3, <1>21
  <2>2. h + 1 \in 0 .. Len(F)
    BY <1>8, <1>14, SMT
  <2> QED  BY <1>1, <1>3, <1>4, <1>20, <1>22, <2>1, <2>2 DEF ClientOK
<1>24. ASSUME NEW x \in Clients \ {c} PROVE ClientOK(x)'
  <2>1. \A y \in DOMAIN pending' : owner'[y] = x =>
           /\ y \in DOMAIN pending /\ owner[y] = x
           /\ pending'[y] = pending[y] /\ Owed(y)' = Owed(y)
    BY <1>0, <1>1, <1>3, <1>21 DEF Owed
  <2> QED  BY <1>1, <1>19, <2>1, ClientSame DEF StreamsOK
<1>25. consumed' \in Nat
  BY <1>21
<1> QED  BY <1>1, <1>19, <1>23, <1>24, <1>25 DEF StreamsOK

\* An answer moves the start of what is pending behind the command it answers.
LEMMA AnswerStreams == ASSUME IInv, StreamsOK, Write \/ WriteLost PROVE StreamsOK'
<1>0. PICK d : d = fd
  OBVIOUS
<1>1. /\ at = "write" /\ at' = "parse" /\ consumed' = 0
      /\ UNCHANGED <<protocol, batch, fd, monitored, owner, handled>>
  BY DEF Write, WriteLost, Answered
<1>2. PICK c \in Clients : \E h \in 0 .. Len(Frames[protocol][c]) :
         /\ c = owner[d] /\ d \in DOMAIN pending /\ Ran(c, h) /\ Buffered(c, d, h)
         /\ conn[c].phase = "open"
         /\ conn[c].inbox <= conn[c].sent /\ conn[c].sent <= Len(Stream[protocol][c])
         /\ \A x \in DOMAIN pending : owner[x] = c => x = d
  BY <1>0, <1>1, Handling
<1>3. PICK h \in 0 .. Len(Frames[protocol][c]) :
         /\ c = owner[d] /\ d \in DOMAIN pending /\ Ran(c, h) /\ Buffered(c, d, h)
         /\ conn[c].phase = "open"
         /\ conn[c].inbox <= conn[c].sent /\ conn[c].sent <= Len(Stream[protocol][c])
         /\ \A x \in DOMAIN pending : owner[x] = c => x = d
  BY <1>2
<1>4. PICK s : s = Stream[protocol][c]
  OBVIOUS
<1>5. PICK p : p = pending[d]
  OBVIOUS
<1>6. PICK b : b = Len(FirstFrames[protocol][c][h])
  OBVIOUS
<1>7. PICK n \in Nat : n = consumed
  BY DEF StreamsOK
<1>8. /\ b \in Nat /\ s \in Data
      /\ conn[c].sent \in Nat /\ conn[c].inbox \in Nat /\ conn \in [Clients -> Connection]
  BY <1>4, <1>6, ClientParts DEF IInv, TypeOK
<1>9. Piece(s, b - n, p) /\ ReadUpTo(c, (b - n) + Len(p)) /\ n \in 0 .. Len(p) /\ Owed(d) = n
  <2>1. Owed(d) = n
    BY <1>0, <1>1, <1>7 DEF Owed
  <2> QED  BY <1>3, <1>4, <1>5, <1>6, <2>1 DEF Buffered
<1>10. p \in Data /\ Len(p) \in Nat /\ b - n \in Nat
  BY <1>9, Length DEF Piece
<1>11. PICK rest : rest = SubSeq(p, n + 1, Len(p))
  OBVIOUS
<1>12. Piece(s, (b - n) + n, rest) /\ Len(rest) = Len(p) - n
  BY <1>8, <1>9, <1>11, PieceCut
<1>13. /\ DOMAIN pending' = DOMAIN pending /\ pending'[d] = rest
       /\ \A x \in DOMAIN pending \ {d} : pending'[x] = pending[x]
  <2>1. pending' = [pending EXCEPT ![d] = SubSeq(@, n + 1, Len(@))]
    BY <1>0, <1>7 DEF Write, WriteLost, Answered, Without
  <2> QED  BY <1>3, <1>5, <1>11, <2>1
<1>14. /\ \A x \in Clients \ {c} : conn'[x] = conn[x]
       /\ conn'[c].phase = "open" /\ conn'[c].sent = conn[c].sent
       /\ conn'[c].left = conn[c].left
       /\ (conn'[c].inbox = conn[c].inbox \/ (conn[c].left /\ conn'[c].inbox = 0))
  <2>1. CASE Write
    <3>1. conn' = [conn EXCEPT ![c].unread = @ + 1]
      BY <1>0, <1>3, <2>1 DEF Write
    <3> QED  BY <1>3, <1>8, <3>1 DEF Connection
  <2>2. CASE WriteLost
    <3>1. PICK i \in {0, conn[c].inbox} : conn' = [conn EXCEPT ![c].inbox = i]
      BY <1>0, <1>3, <2>2 DEF WriteLost
    <3>2. conn[c].left
      BY <1>0, <1>3, <2>2 DEF WriteLost
    <3> QED  BY <1>3, <1>8, <3>1, <3>2 DEF Connection
  <2> QED  BY <2>1, <2>2
<1>15. ReadUpTo(c, b + Len(rest))'
  <2>1. b + (Len(p) - n) = (b - n) + Len(p)
    BY <1>8, <1>10, SMT
  <2>2. ~ (0 > 0)
    BY SMT
  <2> QED  BY <1>9, <1>12, <1>14, <2>1, <2>2 DEF ReadUpTo
<1>16. Buffered(c, d, h)'
  <2>1. Owed(d)' = 0 /\ b - 0 = b /\ (b - n) + n = b /\ 0 \in 0 .. (Len(p) - n)
    <3>1. b - 0 = b /\ (b - n) + n = b /\ 0 \in 0 .. (Len(p) - n)
      BY <1>8, <1>9, <1>10, SMT
    <3> QED  BY <1>1, <3>1 DEF Owed
  <2> QED  BY <1>1, <1>4, <1>6, <1>12, <1>13, <1>15, <2>1 DEF Buffered
<1>17. ClientOK(c)'
  <2>1. \A x \in DOMAIN pending' : owner'[x] = c => x = d
    BY <1>1, <1>3, <1>13
  <2>2. Ran(c, h)'
    BY <1>1, <1>3 DEF Ran
  <2>3. conn'[c].inbox <= conn'[c].sent
    BY <1>3, <1>8, <1>14, SMT
  <2> QED  BY <1>1, <1>3, <1>14, <1>16, <2>1, <2>2, <2>3 DEF ClientOK
<1>18. ASSUME NEW x \in Clients \ {c} PROVE ClientOK(x)'
  <2>1. \A y \in DOMAIN pending' : owner'[y] = x =>
           /\ y \in DOMAIN pending /\ owner[y] = x
           /\ pending'[y] = pending[y] /\ Owed(y)' = Owed(y)
    BY <1>0, <1>1, <1>3, <1>13 DEF Owed
  <2> QED  BY <1>1, <1>14, <2>1, ClientSame DEF StreamsOK
<1>19. consumed' \in Nat
  BY <1>1
<1> QED  BY <1>1, <1>17, <1>18, <1>19 DEF StreamsOK

\* What the parser refuses is where the client's malformed request begins.
LEMMA RefuseStreams == ASSUME IInv, StreamsOK, Refuse PROVE StreamsOK'
<1>1. /\ at = "parse" /\ at' # "write" /\ Close(fd) /\ UNCHANGED <<protocol, fd, handled>>
      /\ Parsed.status = "error"
  BY DEF Refuse, Continue
<1>2. fd \in DOMAIN pending /\ owner[fd] \in Clients
  BY <1>1 DEF IInv, TypeOK, TablesAgree
<1>3. PICK c \in Clients : c = owner[fd]
  BY <1>2
<1>4. ASSUME NEW h \in 0 .. Len(Frames[protocol][c]), Buffered(c, fd, h)
      PROVE  h + 1 \in 1 .. Len(Frames[protocol][c]) /\ ~ Frames[protocol][c][h + 1].valid
  <2>1. PICK r : r = NextRequest(protocol, pending[fd])
    OBVIOUS
  <2>2. r.status = "error" /\ r # ErrIncompleteRESP
    BY <1>1, <2>1 DEF Parsed, ErrIncompleteRESP
  <2>3. PICK b : b = Len(FirstFrames[protocol][c][h])
    OBVIOUS
  <2>4. b \in Nat /\ protocol \in Protocols
    BY <2>3, ClientParts
  <2>5. Owed(fd) = 0 /\ b - 0 = b
    BY <1>1, <2>4 DEF Owed
  <2>6. Piece(Stream[protocol][c], b, pending[fd])
    BY <1>4, <2>3, <2>5 DEF Buffered
  <2>7. PICK frame : frame = Frames[protocol][c][h + 1]
    OBVIOUS
  <2>8. /\ h + 1 \in 1 .. Len(Frames[protocol][c])
        /\ r = IF frame.valid THEN Ok(frame.command, Len(frame.units) + 1) ELSE ProtocolError
    BY <2>1, <2>2, <2>3, <2>4, <2>6, <2>7, FrameRead
  <2> QED  BY <2>2, <2>7, <2>8 DEF Ok
<1> QED  BY <1>1, <1>2, <1>3, <1>4, CloseStreams

LEMMA NextStreams == IInv /\ StreamsOK /\ [Next]_vars => StreamsOK'
<1> SUFFICES ASSUME IInv, StreamsOK, [Next]_vars PROVE StreamsOK'
  OBVIOUS
<1>1. CASE Wait
  BY <1>1, IdleStreams DEF Wait
<1>2. ASSUME NEW e \in batch, Reject(e) \/ AcceptFails(e) PROVE StreamsOK'
  <2>1. conn' = conn \/ \E c \in Backlog : conn' = [conn EXCEPT ![c].phase = "rejected"]
    BY <1>2 DEF Reject, AcceptFails
  <2>2. conn \in [Clients -> Connection]
    BY DEF IInv, TypeOK
  <2>3. \A c \in Clients : \/ conn'[c] = conn[c]
                           \/ conn[c].phase = "backlog" /\ conn' = [conn EXCEPT ![c].phase = "rejected"]
    BY <2>1, <2>2 DEF Backlog
  <2>4. at # "write" /\ at' # "write" /\ UNCHANGED <<protocol, fd, consumed, pending, owner, handled>>
    BY <1>2 DEF Reject, AcceptFails, Take, Continue
  <2> QED  BY <2>3, <2>4, IdleStreams
<1>3. ASSUME NEW e \in batch, ReadErr(e) PROVE StreamsOK'
  <2>1. /\ at = "events" /\ at' # "write" /\ e.fd \in DOMAIN pending /\ conn[owner[e.fd]].left
        /\ Close(e.fd) /\ UNCHANGED <<protocol, handled>>
    BY <1>3 DEF ReadErr, Take, Continue
  <2> QED  BY <2>1, CloseStreams
<1>4. CASE Handle
  BY <1>2, <1>3, <1>4, AcceptStreams, ReadStreams DEF Handle
<1>5. CASE Incomplete
  BY <1>5, IdleStreams DEF Incomplete
<1>6. CASE Parse
  BY <1>5, <1>6, ExecuteStreams, RefuseStreams DEF Parse
<1>7. CASE WriteErr
  <2>1. /\ at = "write" /\ at' # "write" /\ conn[owner[fd]].left
        /\ Close(fd) /\ UNCHANGED <<protocol, handled>>
    BY <1>7 DEF WriteErr, Continue
  <2>2. fd \in DOMAIN pending
    BY <2>1 DEF IInv, TypeOK
  <2> QED  BY <2>1, <2>2, CloseStreams
<1>8. CASE Reply
  BY <1>7, <1>8, AnswerStreams DEF Reply
<1>9. CASE \E c \in Clients : Client(c)
  BY <1>9, ClientStreams
<1>10. CASE UNCHANGED vars
  <2>1. UNCHANGED <<protocol, at, batch, fd, consumed, pending, monitored, owner, conn, handled>>
    BY <1>10 DEF vars
  <2>2. \A d : Owed(d)' = Owed(d)
    BY <2>1 DEF Owed
  <2>3. \A c \in Clients : ClientOK(c)'
    BY <2>1, <2>2, ClientSame DEF StreamsOK
  <2> QED  BY <2>1, <2>3 DEF StreamsOK
<1> QED  BY <1>1, <1>4, <1>6, <1>8, <1>9, <1>10 DEF Next

LEMMA StreamsInvariance == Spec => [](IInv /\ StreamsOK)
  BY InitStreams, InitIInv, NextStreams, NextIInv, PTL DEF Spec

-----------------------------------------------------------------------------

LEMMA FirstOnes ==
    ASSUME NEW h \in Nat, NEW k \in Nat, h <= k, NEW F, NEW x, NEW y,
           x = [i \in 1 .. h |-> F[i].command], y = [i \in 1 .. k |-> F[i].command]
    PROVE  Seqs!IsPrefix(x, y)
<1> DEFINE S == {F[i].command : i \in 1 .. k}
<1>1. \A i \in 1 .. h : i \in 1 .. k
  BY SMT
<1>2. x \in Seq(S) /\ y \in Seq(S) /\ Len(x) = h /\ Len(y) = k
  BY <1>1, SMT
<1>3. \A i \in 1 .. h : x[i] = y[i]
  BY <1>1
<1> HIDE DEF S
<1>4. SubSeq(x, 1, h) = SubSeq(y, 1, h)
  <2>1. SubSeq(x, 1, h) = [i \in 1 .. h |-> x[i]]
    BY <1>2, SMT
  <2>2. SubSeq(y, 1, h) = [i \in 1 .. h |-> y[i]]
    BY <1>2, SMT
  <2> QED  BY <1>3, <2>1, <2>2
<1> QED  BY <1>2, <1>4 DEF Seqs!IsPrefix

LEMMA WellFormedRange ==
    ASSUME IInv, NEW c \in Clients
    PROVE  \E k \in 0 .. Len(Frames[protocol][c]) : WellFormed(c) = 1 .. k
<1>1. PICK F : F = Frames[protocol][c]
  OBVIOUS
<1>2. Len(F) \in Nat /\ DOMAIN F = 1 .. Len(F)
  BY <1>1, ClientParts
<1>3. WellFormed(c) = {i \in 1 .. Len(F) : \A j \in 1 .. i : F[j].valid}
  BY <1>1, <1>2 DEF WellFormed
<1> DEFINE B == {i \in 1 .. Len(F) : ~ F[i].valid}
<1>4. CASE B = {}
  <2>1. \A i \in 1 .. Len(F) : \A j \in 1 .. i : j \in 1 .. Len(F)
    BY <1>2, SMT
  <2>2. WellFormed(c) = 1 .. Len(F)
    BY <1>3, <1>4, <2>1
  <2>3. Len(F) \in 0 .. Len(F)
    BY <1>2, SMT
  <2> QED  BY <1>1, <2>2, <2>3
<1>5. CASE B # {}
  <2>1. B \in SUBSET Nat
    BY <1>2, SMT
  <2>2. PICK m \in B : \A i \in B : m <= i
    BY <1>5, <2>1, MinOfNaturals
  <2>3. m \in 1 .. Len(F) /\ ~ F[m].valid
    OBVIOUS
  <2>4. PICK k \in 0 .. Len(F) : k = m - 1
    BY <1>2, <2>3, SMT
  <2>5. \A i \in 1 .. k : \A j \in 1 .. i : j \in 1 .. Len(F) /\ ~ (m <= j) /\ i \in 1 .. Len(F)
    BY <1>2, <2>3, <2>4, SMT
  <2>6. \A i \in 1 .. Len(F) : i \in 1 .. k \/ m \in 1 .. i
    BY <1>2, <2>3, <2>4, SMT
  <2>7. \A i \in 1 .. k : i \in WellFormed(c)
    BY <1>3, <2>2, <2>5
  <2>8. \A i \in WellFormed(c) : i \in 1 .. k
    BY <1>3, <2>3, <2>6
  <2> QED  BY <1>1, <2>7, <2>8
<1> QED  BY <1>4, <1>5

LEMMA RanPrefix ==
    ASSUME IInv, NEW c \in Clients, NEW h \in 0 .. Len(Frames[protocol][c]), Ran(c, h)
    PROVE  \E k \in h .. Len(Frames[protocol][c]) :
              WellFormed(c) = 1 .. k /\ Commands(c) = [i \in 1 .. k |-> Frames[protocol][c][i].command]
<1>1. PICK k \in 0 .. Len(Frames[protocol][c]) : WellFormed(c) = 1 .. k
  BY WellFormedRange
<1>2. Len(Frames[protocol][c]) \in Nat /\ DOMAIN Frames[protocol][c] = 1 .. Len(Frames[protocol][c])
  BY ClientParts
<1>3. h <= k
  <2>1. CASE h = 0
    BY <1>1, <1>2, <2>1, SMT
  <2>2. CASE h # 0
    <3>1. h \in 1 .. Len(Frames[protocol][c])
      BY <1>2, <2>2, SMT
    <3>2. h \in WellFormed(c)
      BY <1>2, <3>1 DEF Ran, WellFormed
    <3> QED  BY <1>1, <1>2, <3>2, SMT
  <2> QED  BY <2>1, <2>2
<1>4. k \in h .. Len(Frames[protocol][c])
  BY <1>2, <1>3, SMT
<1> QED  BY <1>1, <1>4 DEF Commands

\* However the network cuts a client's stream, and however the reads of the loop do,
\* the loop runs the commands that the client meant, in its order, none twice and
\* nothing after a malformed one: what the parser answers for a part of the data it
\* answers for all of it (RequestStable), so that nothing is taken for a command, or
\* refused, before it has come whole.
THEOREM CommandsRunInOrder == Spec => []CommandsInOrder
<1>1. ASSUME IInv, StreamsOK PROVE CommandsInOrder
  <2> SUFFICES ASSUME NEW c \in Clients PROVE Seqs!IsPrefix(handled[c], Commands(c))
    BY DEF CommandsInOrder
  <2>1. PICK h \in 0 .. Len(Frames[protocol][c]) : Ran(c, h)
    BY <1>1 DEF StreamsOK, ClientOK
  <2>2. PICK k \in h .. Len(Frames[protocol][c]) :
           Commands(c) = [i \in 1 .. k |-> Frames[protocol][c][i].command]
    BY <1>1, <2>1, RanPrefix
  <2>3. PICK F : F = Frames[protocol][c]
    OBVIOUS
  <2>4. PICK x : x = handled[c]
    OBVIOUS
  <2>5. PICK y : y = Commands(c)
    OBVIOUS
  <2>6. x = [i \in 1 .. h |-> F[i].command] /\ y = [i \in 1 .. k |-> F[i].command]
    BY <2>1, <2>2, <2>3, <2>4, <2>5 DEF Ran
  <2>7. h \in Nat /\ k \in Nat /\ h <= k
    BY <1>1, ClientParts, SMT
  <2>8. Seqs!IsPrefix(x, y)
    BY <2>6, <2>7, FirstOnes
  <2> QED  BY <2>4, <2>5, <2>8
<1> QED  BY <1>1, StreamsInvariance, PTL

\* The loop closes on a client that has not left only for a malformed request, after
\* all the commands before it: never because a request is incomplete and never
\* because of another client.
THEOREM NeverClosedWithoutCause == Spec => []ClosedOnlyForCause
<1>1. ASSUME IInv, StreamsOK PROVE ClosedOnlyForCause
  <2> SUFFICES ASSUME NEW c \in Clients, conn[c].phase = "closed", ~ conn[c].left
               PROVE  WellFormed(c) # DOMAIN Frames[protocol][c] /\ handled[c] = Commands(c)
    BY DEF ClosedOnlyForCause
  <2>1. PICK h \in 0 .. Len(Frames[protocol][c]) :
           Ran(c, h) /\ h + 1 \in 1 .. Len(Frames[protocol][c]) /\ ~ Frames[protocol][c][h + 1].valid
    BY <1>1 DEF StreamsOK, ClientOK
  <2>2. PICK k \in h .. Len(Frames[protocol][c]) :
           WellFormed(c) = 1 .. k /\ Commands(c) = [i \in 1 .. k |-> Frames[protocol][c][i].command]
    BY <1>1, <2>1, RanPrefix
  <2>3. Len(Frames[protocol][c]) \in Nat /\ DOMAIN Frames[protocol][c] = 1 .. Len(Frames[protocol][c])
    BY <1>1, ClientParts
  <2>4. h + 1 \notin WellFormed(c)
    <3>1. h + 1 \in 1 .. h + 1
      BY <2>1, <2>3, SMT
    <3> QED  BY <2>1, <3>1 DEF WellFormed
  <2>5. k = h
    BY <2>1, <2>2, <2>3, <2>4, SMT
  <2> QED  BY <2>1, <2>2, <2>3, <2>4, <2>5 DEF Ran
<1> QED  BY <1>1, StreamsInvariance, PTL
=============================================================================
