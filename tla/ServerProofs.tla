---------------------------- MODULE ServerProofs ----------------------------
(***************************************************************************)
(* For any set of connections, the two servers with a goroutine per         *)
(* connection.                                                              *)
(*                                                                          *)
(* Shutdown, with any command length and any client: what the drain closes, *)
(* and what a handler may leave unanswered. The inductive invariant is      *)
(* TypeOK with TrackingOK.                                                  *)
(*                                                                          *)
(* WorkerPool: the slots of a worker count its handlers, for any number of  *)
(* workers and slots. The count goes wrong only if a connection is started  *)
(* twice by one worker, so the invariant says that a connection is in one   *)
(* place at a time on its way from the backlog to its handler.              *)
(***************************************************************************)
EXTENDS Shutdown, WorkerPool, FiniteSetTheorems, TLAPS

IInv == TypeOK /\ TrackingOK

LEMMA FreshIsConnection ==
    ASSUME NEW c \in Conns
    PROVE  /\ Fresh(c) \in Connection /\ ConnOK(Fresh(c))
           /\ Fresh(c).handler = "none" /\ Fresh(c).socket = "none"
<1>1. MaxCmds[c] \in Nat
  BY ShutdownAssumption
<1>2. MaxCmds[c] * CmdLen \in Nat
  BY <1>1, ShutdownAssumption, SMT
<1> QED  BY <1>2, ShutdownAssumption, SMT DEF Fresh, Connection, ConnOK

LEMMA InitIInv == Init => IInv
<1> SUFFICES ASSUME Init PROVE IInv
  OBVIOUS
<1>1. TypeOK
  <2> HIDE DEF Fresh
  <2>1. conn \in [Conns -> Connection]
    BY FreshIsConnection DEF Init
  <2>2. owed \in [Conns -> Int]
    BY SMT DEF Init
  <2> QED  BY <2>1, <2>2 DEF Init, TypeOK
<1>2. TrackingOK
  <2> HIDE DEF Fresh
  <2>1. \A c \in Conns : conn[c] = Fresh(c)
    BY DEF Init
  <2>2. \A c \in Conns : ConnOK(conn[c])
    BY <2>1, FreshIsConnection
  <2>3. \A c \in Conns : conn[c].socket = "none"
    BY <2>1, FreshIsConnection
  <2> QED  BY <2>2, <2>3 DEF Init, TrackingOK, Drained
<1> QED  BY <1>1, <1>2 DEF IInv

\* A step that changes one connection, to a record that is all right by itself,
\* keeps the invariant if an open connection stays tracked.
LEMMA LocalStep ==
    ASSUME IInv, NEW c \in Conns, NEW r \in Connection, ConnOK(r),
           conn' = [conn EXCEPT ![c] = r],
           conns' \in SUBSET conns, \A x \in Conns \ {c} : x \in conns => x \in conns',
           r.socket = "open" => c \in conns',
           r.handler = "none" => conn[c].handler = "none",
           UNCHANGED <<canceled, listening, mainVars>>
    PROVE  IInv'
<1>1. TypeOK'
  BY SMT DEF IInv, TypeOK, mainVars
<1>2. \A x \in Conns : conn'[x] = IF x = c THEN r ELSE conn[x]
  BY DEF IInv, TypeOK
<1>3. \A x \in Conns : conn[x].handler # "none" => conn'[x].handler # "none"
  BY <1>2, SMT
<1>4. conns' \union todo' \subseteq Conns /\ conns' \union todo' \subseteq conns \union todo
  BY SMT DEF IInv, TypeOK, mainVars
<1>5. TrackingOK'
  <2>1. \A x \in Conns : ConnOK(conn'[x])
    BY <1>2 DEF IInv, TrackingOK
  <2>2. (\A x \in Conns : ConnOK(conn[x]))'
    BY <2>1 DEF ConnOK
  <2>3. \A x \in Conns : conn'[x].socket = "open" => x \in conns'
    BY <1>2, SMT DEF IInv, TrackingOK
  <2>4. \A x \in conns' \union todo' : conn'[x].handler # "none"
    BY <1>3, <1>4, SMT DEF IInv, TrackingOK
  <2>5. main' = "close" => conn'[target'].handler # "none"
    BY <1>3, SMT DEF IInv, TrackingOK, TypeOK, mainVars
  <2>6. Drained' => conns' = {}
    BY SMT DEF IInv, TrackingOK, Drained, mainVars
  <2> QED  BY <2>2, <2>3, <2>4, <2>5, <2>6 DEF TrackingOK
<1> QED  BY <1>1, <1>5 DEF IInv

LEMMA HandlerStep == ASSUME IInv, NEW c \in Conns, Handler(c) PROVE IInv'
<1> USE DEF At
<1>1. UNCHANGED <<canceled, listening, mainVars>>
  BY DEF Handler
<1>2. conn[c] \in Connection /\ ConnOK(conn[c]) /\ (conn[c].socket = "open" => c \in conns)
  BY DEF IInv, TypeOK, TrackingOK
<1>3. conn \in [Conns -> Connection] /\ conns \in SUBSET Conns
  BY DEF IInv, TypeOK
<1> USE <1>1, <1>2, <1>3
<1>4. CASE DeferRemove(c)
  <2> DEFINE q == [conn[c] EXCEPT !.handler = "wgdone"]
  <2>1. conn' = [conn EXCEPT ![c] = q]
    BY <1>4 DEF DeferRemove
  <2>2. q \in Connection /\ ConnOK(q) /\ q.socket # "open" /\ q.handler # "none"
    BY <1>4, SMT DEF DeferRemove, Connection, ConnOK
  <2>3. conns' = conns \ {c}
    BY <1>4 DEF DeferRemove
  <2> QED  BY <2>1, <2>2, <2>3, LocalStep
<1>5. CASE ReadData(c) /\ UNCHANGED conns
  <2>1. PICK n \in 1 .. conn[c].inbox :
            conn' = [conn EXCEPT ![c].handler = "got", ![c].inbox = @ - n, ![c].pending = @ + n]
    BY <1>5 DEF ReadData
  <2> DEFINE q == [conn[c] EXCEPT !.handler = "got", !.inbox = @ - n, !.pending = @ + n]
  <2>2. conn' = [conn EXCEPT ![c] = q]
    BY <2>1
  <2>3. q \in Connection /\ ConnOK(q) /\ q.socket = conn[c].socket /\ q.handler # "none"
    BY <1>5, SMT DEF ReadData, Connection, ConnOK
  <2> QED  BY <1>5, <2>2, <2>3, LocalStep
<1>6. CASE SetIdle(c) /\ UNCHANGED conns
  <2> DEFINE q == [conn[c] EXCEPT !.handler = "read", !.busy = FALSE]
  <2>1. conn' = [conn EXCEPT ![c] = q]
    BY <1>6 DEF SetIdle
  <2>2. q \in Connection /\ ConnOK(q) /\ q.socket \in {conn[c].socket, "closed"} /\ q.handler # "none"
    <3>1. q \in Connection
      BY Zenon DEF Connection
    <3>2. /\ q.executed = conn[c].executed /\ q.answered = conn[c].answered
          /\ q.pending = conn[c].pending
      BY SMT DEF Connection
    <3>3. /\ q.handler = "read"
          /\ q.socket = conn[c].socket
      BY SMT DEF Connection
    <3> QED  BY <1>6, <3>1, <3>2, <3>3, SMT DEF SetIdle, ConnOK, Connection
  <2> QED  BY <1>6, <2>1, <2>2, LocalStep
<1>7. CASE ReadErr(c) /\ UNCHANGED conns
  <2> DEFINE q == [conn[c] EXCEPT !.handler = "return"]
  <2>1. conn' = [conn EXCEPT ![c] = q]
    BY <1>7 DEF ReadErr
  <2>2. q \in Connection /\ ConnOK(q) /\ q.socket \in {conn[c].socket, "closed"} /\ q.handler # "none"
    BY <1>7, ShutdownAssumption, SMT DEF ReadErr, Connection, ConnOK
  <2> QED  BY <1>7, <2>1, <2>2, LocalStep
<1>8. CASE SetBusy(c) /\ UNCHANGED conns
  <2> DEFINE q == [conn[c] EXCEPT !.handler = "parse", !.busy = TRUE]
  <2>1. conn' = [conn EXCEPT ![c] = q]
    BY <1>8 DEF SetBusy
  <2>2. q \in Connection /\ ConnOK(q) /\ q.socket \in {conn[c].socket, "closed"} /\ q.handler # "none"
    <3>1. q \in Connection
      BY Zenon DEF Connection
    <3>2. /\ q.executed = conn[c].executed /\ q.answered = conn[c].answered
          /\ q.pending = conn[c].pending
      BY SMT DEF Connection
    <3>3. /\ q.handler = "parse"
          /\ q.socket = conn[c].socket
      BY SMT DEF Connection
    <3> QED  BY <1>8, <3>1, <3>2, <3>3, SMT DEF SetBusy, ConnOK, Connection
  <2> QED  BY <1>8, <2>1, <2>2, LocalStep
<1>9. CASE Execute(c) /\ UNCHANGED conns
  <2> DEFINE q == [conn[c] EXCEPT !.handler = "write", !.executed = @ + 1]
  <2>1. conn' = [conn EXCEPT ![c] = q]
    BY <1>9 DEF Execute
  <2>2. q \in Connection /\ ConnOK(q) /\ q.socket \in {conn[c].socket, "closed"} /\ q.handler # "none"
    BY <1>9, ShutdownAssumption, SMT DEF Execute, Connection, ConnOK
  <2> QED  BY <1>9, <2>1, <2>2, LocalStep
<1>10. CASE Malformed(c) /\ UNCHANGED conns
  <2> DEFINE q == [conn[c] EXCEPT !.handler = "return"]
  <2>1. conn' = [conn EXCEPT ![c] = q]
    BY <1>10 DEF Malformed
  <2>2. q \in Connection /\ ConnOK(q) /\ q.socket \in {conn[c].socket, "closed"} /\ q.handler # "none"
    BY <1>10, ShutdownAssumption, SMT DEF Malformed, Connection, ConnOK
  <2> QED  BY <1>10, <2>1, <2>2, LocalStep
<1>11. CASE Incomplete(c) /\ UNCHANGED conns
  <2> DEFINE q == [conn[c] EXCEPT !.handler = "top"]
  <2>1. conn' = [conn EXCEPT ![c] = q]
    BY <1>11 DEF Incomplete
  <2>2. q \in Connection /\ ConnOK(q) /\ q.socket \in {conn[c].socket, "closed"} /\ q.handler # "none"
    BY <1>11, ShutdownAssumption, SMT DEF Incomplete, Connection, ConnOK
  <2> QED  BY <1>11, <2>1, <2>2, LocalStep
<1>12. CASE WriteReply(c) /\ UNCHANGED conns
  <2> DEFINE q == [conn[c] EXCEPT !.handler = "parse", !.answered = @ + 1,
                             !.unread = @ + 1, !.pending = @ - CmdLen]
  <2>1. conn' = [conn EXCEPT ![c] = q]
    BY <1>12 DEF WriteReply
  <2>2. q \in Connection /\ ConnOK(q) /\ q.socket \in {conn[c].socket, "closed"} /\ q.handler # "none"
    BY <1>12, ShutdownAssumption, SMT DEF WriteReply, Connection, ConnOK
  <2> QED  BY <1>12, <2>1, <2>2, LocalStep
<1>13. CASE WriteErr(c) /\ UNCHANGED conns
  <2> DEFINE q == [conn[c] EXCEPT !.handler = "return"]
  <2>1. conn' = [conn EXCEPT ![c] = q]
    BY <1>13 DEF WriteErr
  <2>2. q \in Connection /\ ConnOK(q) /\ q.socket \in {conn[c].socket, "closed"} /\ q.handler # "none"
    BY <1>13, ShutdownAssumption, SMT DEF WriteErr, Connection, ConnOK
  <2> QED  BY <1>13, <2>1, <2>2, LocalStep
<1>14. CASE DeferClose(c) /\ UNCHANGED conns
  <2> DEFINE q == [conn[c] EXCEPT !.handler = "remove", !.socket = "closed"]
  <2>1. conn' = [conn EXCEPT ![c] = q]
    BY <1>14 DEF DeferClose
  <2>2. q \in Connection /\ ConnOK(q) /\ q.socket \in {conn[c].socket, "closed"} /\ q.handler # "none"
    <3>1. q \in Connection
      BY Zenon DEF Connection
    <3>2. /\ q.executed = conn[c].executed /\ q.answered = conn[c].answered
          /\ q.pending = conn[c].pending
      BY SMT DEF Connection
    <3>3. /\ q.handler = "remove"
          /\ q.socket = "closed"
      BY SMT DEF Connection
    <3> QED  BY <1>14, <3>1, <3>2, <3>3, SMT DEF DeferClose, ConnOK, Connection
  <2> QED  BY <1>14, <2>1, <2>2, LocalStep
<1>15. CASE DeferDone(c) /\ UNCHANGED conns
  <2> DEFINE q == [conn[c] EXCEPT !.handler = "done"]
  <2>1. conn' = [conn EXCEPT ![c] = q]
    BY <1>15 DEF DeferDone
  <2>2. q \in Connection /\ ConnOK(q) /\ q.socket \in {conn[c].socket, "closed"} /\ q.handler # "none"
    BY <1>15, ShutdownAssumption, SMT DEF DeferDone, Connection, ConnOK
  <2> QED  BY <1>15, <2>1, <2>2, LocalStep
<1> QED
  BY <1>4, <1>5, <1>6, <1>7, <1>8, <1>9, <1>10, <1>11, <1>12, <1>13, <1>14, <1>15 DEF Handler

\* What a client does shows in the bytes, never in the handler or in conns.
LEMMA ClientStep == ASSUME IInv, NEW c \in Conns, Client(c) PROVE IInv'
<1>1. UNCHANGED <<canceled, listening, mainVars>> /\ conns' = conns
  BY DEF Client
<1>2. conn[c] \in Connection /\ ConnOK(conn[c]) /\ (conn[c].socket = "open" => c \in conns)
  BY DEF IInv, TypeOK, TrackingOK
<1>3. conn \in [Conns -> Connection] /\ conns \in SUBSET Conns
  BY DEF IInv, TypeOK
<1> USE <1>1, <1>2, <1>3
<1>4. CASE conn[c].socket = "none" /\ conn' = [conn EXCEPT ![c].socket = "backlog"]
  <2> DEFINE q == [conn[c] EXCEPT !.socket = "backlog"]
  <2>1. conn' = [conn EXCEPT ![c] = q]
    BY <1>4
  <2>2. q \in Connection /\ ConnOK(q) /\ q.socket = "backlog" /\ q.handler = conn[c].handler
    BY <1>4, SMT DEF Connection, ConnOK
  <2> QED  BY <2>1, <2>2, LocalStep
<1>5. ASSUME NEW n \in 1 .. conn[c].toSend,
             conn' = [conn EXCEPT ![c].toSend = @ - n, ![c].inbox = @ + n]
      PROVE  IInv'
  <2> DEFINE q == [conn[c] EXCEPT !.toSend = @ - n, !.inbox = @ + n]
  <2>1. conn' = [conn EXCEPT ![c] = q]
    BY <1>5
  <2>2. conn[c].toSend - n \in Nat /\ conn[c].inbox + n \in Nat
    BY SMT DEF Connection
  <2>3. q \in Connection
    BY <2>2, Zenon DEF Connection
  <2>4. /\ q.socket = conn[c].socket /\ q.handler = conn[c].handler
        /\ q.executed = conn[c].executed /\ q.answered = conn[c].answered
        /\ q.pending = conn[c].pending
    BY SMT DEF Connection
  <2>5. ConnOK(q)
    BY <2>4 DEF ConnOK
  <2> QED  BY <2>1, <2>3, <2>4, <2>5, LocalStep
<1>6. CASE conn[c].unread > 0 /\ conn' = [conn EXCEPT ![c].unread = @ - 1]
  <2> DEFINE q == [conn[c] EXCEPT !.unread = @ - 1]
  <2>1. conn' = [conn EXCEPT ![c] = q]
    BY <1>6
  <2>2. q \in Connection /\ ConnOK(q) /\ q.socket = conn[c].socket /\ q.handler = conn[c].handler
    BY <1>6, ShutdownAssumption, SMT DEF Connection, ConnOK
  <2> QED  BY <2>1, <2>2, LocalStep
<1>7. CASE conn' = [conn EXCEPT ![c].left = TRUE]
  <2> DEFINE q == [conn[c] EXCEPT !.left = TRUE]
  <2>1. conn' = [conn EXCEPT ![c] = q]
    BY <1>7
  <2>2. q \in Connection
    BY Zenon DEF Connection
  <2>3. ConnOK(q) /\ q.socket = conn[c].socket /\ q.handler = conn[c].handler
    BY SMT DEF Connection, ConnOK
  <2> QED  BY <2>1, <2>2, <2>3, LocalStep
<1> QED  BY <1>4, <1>5, <1>6, <1>7 DEF Client

\* The main goroutine opens a connection in Accept.
LEMMA AcceptStep ==
    ASSUME IInv, NEW c \in Conns, Accept(c), UNCHANGED <<canceled, listening>> PROVE IInv'
<1> DEFINE q == [conn[c] EXCEPT !.socket = "open", !.handler = "top"]
<1>1. conn[c] \in Connection /\ ConnOK(conn[c]) /\ conn[c].socket = "backlog"
  BY DEF IInv, TypeOK, TrackingOK, Accept
<1>2. q \in Connection
  BY <1>1, Zenon DEF Connection
<1>3. q.socket = "open" /\ q.handler = "top" /\ ConnOK(q)
  BY <1>1, SMT DEF Connection, ConnOK
<1>4. conn' = [conn EXCEPT ![c] = q] /\ conns' = conns \union {c} /\ main' = "accept"
      /\ todo' = todo
  BY DEF Accept, mainVars
<1>5. \A x \in Conns : conn'[x] = IF x = c THEN q ELSE conn[x]
  BY <1>4 DEF IInv, TypeOK
<1>6. TypeOK'
  BY <1>2, <1>4, SMT DEF IInv, TypeOK, Accept, mainVars
<1>7. (\A x \in Conns : ConnOK(conn[x]))'
  BY <1>3, <1>5 DEF IInv, TrackingOK, ConnOK
<1>8. TrackingOK'
  BY <1>3, <1>4, <1>5, <1>7, SMT DEF IInv, TypeOK, TrackingOK, Drained
<1> QED  BY <1>6, <1>8 DEF IInv

\* It closes one in closeIdle and in closeAll, and drops it from the set.
LEMMA CloseStep ==
    ASSUME IInv, NEW c \in Conns, conn[c].handler # "none",
           conn' = [conn EXCEPT ![c].socket = "closed"], conns' = conns \ {c},
           main' \in {"scan", "force"}, target' \in Conns \union {NoConn},
           UNCHANGED <<canceled, listening, todo, deadlinePassed, owed>>
    PROVE  IInv'
<1> DEFINE q == [conn[c] EXCEPT !.socket = "closed"]
<1>1. conn[c] \in Connection /\ ConnOK(conn[c])
  BY DEF IInv, TypeOK, TrackingOK
<1>2. q \in Connection /\ q.socket = "closed" /\ q.handler = conn[c].handler /\ ConnOK(q)
  BY <1>1, SMT DEF Connection, ConnOK
<1>3. conn' = [conn EXCEPT ![c] = q]
  OBVIOUS
<1>4. \A x \in Conns : conn'[x] = IF x = c THEN q ELSE conn[x]
  BY <1>3 DEF IInv, TypeOK
<1>5. TypeOK'
  BY <1>2, <1>3, SMT DEF IInv, TypeOK
<1>6. (\A x \in Conns : ConnOK(conn[x]))'
  BY <1>2, <1>4 DEF IInv, TrackingOK, ConnOK
<1>7. TrackingOK'
  BY <1>2, <1>4, <1>6, SMT DEF IInv, TypeOK, TrackingOK, Drained
<1> QED  BY <1>5, <1>7 DEF IInv

\* Elsewhere it only moves, and it reaches "wait" on an empty set.
LEMMA MoveStep ==
    ASSUME IInv,
           \/ AcceptErr \/ StartScan \/ ScanEnd \/ Check \/ ForceEnd \/ Wait
           \/ (\E c \in Conns : ScanBusy(c) \/ ScanIdle(c)) \/ Deadline \/ GraceOver,
           UNCHANGED <<canceled, listening>>
    PROVE  IInv'
<1>1. conn' = conn /\ conns' = conns
  BY DEF AcceptErr, StartScan, ScanEnd, Check, ForceEnd, Wait, ScanBusy, ScanIdle,
         Deadline, GraceOver
<1>2. owed' \in [Conns -> Int]
  <2>1. \A c \in Conns : conn[c].answered + conn[c].pending \div CmdLen \in Int
    BY ShutdownAssumption, SMT DEF IInv, TypeOK, Connection
  <2>2. CASE AcceptErr
    BY <2>1, <2>2, SMT DEF AcceptErr
  <2>3. CASE owed' = owed
    BY <2>3 DEF IInv, TypeOK
  <2> QED  BY <2>2, <2>3 DEF AcceptErr, StartScan, ScanEnd, Check, ForceEnd, Wait, ScanBusy,
                             ScanIdle, Deadline, GraceOver
<1>3. \A c \in conns \union todo' : conn[c].handler # "none"
  BY DEF IInv, TrackingOK, AcceptErr, StartScan, ScanEnd, Check, ForceEnd, Wait, ScanBusy,
         ScanIdle, Deadline, GraceOver
<1>4. TypeOK'
  <2>1. main' \in {"accept", "drain", "scan", "close", "check", "force", "wait",
                   "returned", "gaveUp"}
    BY DEF IInv, TypeOK, AcceptErr, StartScan, ScanEnd, Check, ForceEnd, Wait, ScanBusy,
             ScanIdle, Deadline, GraceOver
  <2>2. todo' \subseteq Conns
    BY DEF IInv, TypeOK, AcceptErr, StartScan, ScanEnd, Check, ForceEnd, Wait, ScanBusy,
             ScanIdle, Deadline, GraceOver
  <2>3. target' \in Conns \union {NoConn} /\ (main' = "close" => target' \in Conns)
    BY DEF IInv, TypeOK, AcceptErr, StartScan, ScanEnd, Check, ForceEnd, Wait, ScanBusy,
             ScanIdle, Deadline, GraceOver
  <2>4. deadlinePassed' \in BOOLEAN
    BY DEF IInv, TypeOK, AcceptErr, StartScan, ScanEnd, Check, ForceEnd, Wait, ScanBusy,
             ScanIdle, Deadline, GraceOver
  <2> QED  BY <1>1, <1>2, <2>1, <2>2, <2>3, <2>4 DEF IInv, TypeOK
<1>5. main' = "close" => conn[target'].handler # "none"
  BY <1>3, SMT DEF IInv, TrackingOK, AcceptErr, StartScan, ScanEnd, Check, ForceEnd, Wait,
              ScanBusy, ScanIdle, Deadline, GraceOver
<1>6. Drained' => conns = {}
  BY SMT DEF IInv, TrackingOK, Drained, AcceptErr, StartScan, ScanEnd, Check, ForceEnd, Wait,
             ScanBusy, ScanIdle, Deadline, GraceOver
<1>7. (\A x \in Conns : ConnOK(conn[x]))'
  BY <1>1 DEF IInv, TrackingOK, ConnOK
<1>8. TrackingOK'
  BY <1>1, <1>3, <1>5, <1>6, <1>7 DEF IInv, TrackingOK
<1> QED  BY <1>4, <1>8 DEF IInv

\* No step of the server or of a client breaks the invariant.
LEMMA NextIInv == IInv /\ [Next]_vars => IInv'
<1> SUFFICES ASSUME IInv, [Next]_vars PROVE IInv'
  OBVIOUS
<1>1. ASSUME NEW c \in Conns, Accept(c), Main PROVE IInv'
  BY <1>1, AcceptStep DEF Main
<1>2. ASSUME CloseIdleConn, Main PROVE IInv'
  BY <1>2, CloseStep DEF CloseIdleConn, IInv, TypeOK, TrackingOK, Main
<1>3. ASSUME NEW c \in Conns, ForceClose(c), Main PROVE IInv'
  BY <1>3, CloseStep DEF ForceClose, IInv, TypeOK, TrackingOK, Main, mainVars
<1>4. CASE Main \/ Timer
  BY <1>1, <1>2, <1>3, <1>4, MoveStep DEF Main, Timer
<1>5. CASE CloseListener \/ Cancel \/ UNCHANGED vars
  <2>1. conn' = conn /\ conns' = conns /\ UNCHANGED mainVars
    BY <1>5 DEF CloseListener, Cancel, vars, mainVars
  <2>2. canceled' \in BOOLEAN /\ listening' \in BOOLEAN
    BY <1>5 DEF CloseListener, Cancel, vars, IInv, TypeOK
  <2>3. TypeOK'
    BY <2>1, <2>2 DEF IInv, TypeOK, mainVars
  <2>4. TrackingOK'
    BY <2>1 DEF IInv, TrackingOK, ConnOK, Drained, mainVars
  <2> QED  BY <2>3, <2>4 DEF IInv
<1> QED
  BY <1>4, <1>5, HandlerStep, ClientStep DEF Next

-----------------------------------------------------------------------------
\* The inductive invariant holds in every reachable state.
THEOREM Invariance == Spec => []IInv
BY InitIInv, NextIInv, PTL DEF Spec

\* Every variable of the shutdown keeps its type, for any connections.
THEOREM ShutdownTypes == Spec => []TypeOK
<1>1. IInv => TypeOK
  BY DEF IInv
<1> QED  BY <1>1, Invariance, PTL

\* When drain has returned no accepted connection is open (server.go:206).
THEOREM DrainClosesAllHolds == Spec => []DrainClosesAll
<1>1. IInv => DrainClosesAll
  BY DEF IInv, TrackingOK, DrainClosesAll
<1> QED  BY <1>1, Invariance, PTL

\* At most one command per connection has run without an answer, for batches of
\* any length (server.go:391).
THEOREM AtMostOneUnansweredHolds == Spec => []AtMostOneUnanswered
<1>1. IInv => AtMostOneUnanswered
  <2> SUFFICES ASSUME IInv, NEW c \in Conns
               PROVE  conn[c].executed - conn[c].answered \in {0, 1}
    BY DEF AtMostOneUnanswered
  <2>1. conn[c] \in Connection /\ ConnOK(conn[c])
    BY DEF IInv, TypeOK, TrackingOK
  <2> QED  BY <2>1, SMT DEF ConnOK, Connection
<1> QED  BY <1>1, Invariance, PTL

-----------------------------------------------------------------------------
(* What the drain promises a batch that was running when it began. A handler *)
(* not marked busy has no command left of it, and one that is left through   *)
(* an error closes its connection itself.                                    *)

Leaving == {"return", "remove", "wgdone", "done"}

\* A handler with record r has answered, or still holds, n commands.
Keeps(r, n) ==
    /\ r.handler \in {"none", "top", "read"} => r.pending < CmdLen
    /\ r.handler \in {"parse", "write"} => r.busy
    /\ r.handler \in {"none", "read", "got"} => ~ r.busy
    /\ r.handler \in {"none", "top", "read", "got"} => r.answered >= n
    /\ r.handler \in {"parse", "write"} => r.answered + r.pending \div CmdLen >= n

KeepsOwed ==
    /\ \A c \in Conns : Keeps(conn[c], owed[c])
    /\ main = "close" /\ conn[target].handler \notin Leaving
         => conn[target].answered >= owed[target]

\* A command less in the buffer is a command less to answer.
LEMMA OneCommandLess ==
    ASSUME NEW n \in Nat
    PROVE  /\ n \div CmdLen \in Nat
           /\ n < CmdLen => n \div CmdLen = 0
           /\ n >= CmdLen => (n - CmdLen) \div CmdLen = n \div CmdLen - 1
BY ShutdownAssumption, SMT

\* A step of the handler or the client of one connection keeps the promise if
\* the connection does.
LEMMA LocalKeeps ==
    ASSUME IInv, KeepsOwed, NEW c \in Conns, NEW r \in Connection,
           conn' = [conn EXCEPT ![c] = r], Keeps(r, owed[c]),
           r.answered >= conn[c].answered,
           conn[c].handler \in Leaving => r.handler \in Leaving,
           main' = main, target' = target, owed' = owed
    PROVE  KeepsOwed'
<1>1. \A x \in Conns : conn'[x] = IF x = c THEN r ELSE conn[x]
  BY DEF IInv, TypeOK
<1>2. (\A x \in Conns : Keeps(conn[x], owed[x]))'
  BY <1>1 DEF KeepsOwed, Keeps
<1>3. ASSUME main = "close", conn'[target].handler \notin Leaving
      PROVE  conn'[target].answered >= owed[target]
  <2>1. target \in Conns /\ conn[c] \in Connection /\ owed[c] \in Int
    BY <1>3 DEF IInv, TypeOK
  <2>2. conn[target].handler \notin Leaving
    BY <1>1, <1>3, <2>1
  <2>3. conn[target].answered >= owed[target]
    BY <1>3, <2>2 DEF KeepsOwed
  <2> QED  BY <1>1, <2>1, <2>3, SMT DEF Connection
<1> QED  BY <1>2, <1>3 DEF KeepsOwed

LEMMA HandlerKeeps ==
    ASSUME IInv, KeepsOwed, NEW c \in Conns, Handler(c) PROVE KeepsOwed'
<1> USE DEF At
<1> DEFINE r == conn[c]
           m == owed[c]
<1>1. main' = main /\ target' = target /\ owed' = owed
  BY DEF Handler, mainVars
<1>2. /\ r \in Connection /\ Keeps(r, m) /\ m \in Int
      /\ conn \in [Conns -> Connection] /\ (r.handler = "write" => r.pending >= CmdLen)
  BY DEF IInv, TypeOK, TrackingOK, ConnOK, KeepsOwed
<1>3. CmdLen \in Nat \ {0} /\ r.pending \in Nat /\ r.answered \in Nat
  BY <1>2, ShutdownAssumption DEF Connection
<1>4. /\ r.pending \div CmdLen \in Nat
      /\ r.pending < CmdLen => r.pending \div CmdLen = 0
      /\ r.pending >= CmdLen => (r.pending - CmdLen) \div CmdLen = r.pending \div CmdLen - 1
  BY <1>3, OneCommandLess
<1>5. ASSUME NEW q \in Connection, conn' = [conn EXCEPT ![c] = q], Keeps(q, m),
             q.answered >= r.answered, r.handler \in Leaving => q.handler \in Leaving
      PROVE  KeepsOwed'
  BY <1>1, <1>5, LocalKeeps
<1>6. CASE SetIdle(c)
  <2> DEFINE q == [conn[c] EXCEPT !.handler = "read", !.busy = FALSE]
  <2>1. conn' = [conn EXCEPT ![c] = q]
    BY <1>6 DEF SetIdle
  <2>2. q \in Connection
    BY <1>2, <1>3, <1>6, ShutdownAssumption, Zenon DEF SetIdle, Connection
  <2>3. q.handler = "read" /\ q.pending = r.pending /\ q.answered = r.answered /\ q.busy = FALSE
    BY <1>2, SMT DEF Connection
  <2> HIDE DEF q
  <2>4. Keeps(q, m)
    BY <1>2, <1>3, <1>4, <1>6, <2>3, SMT DEF Keeps, SetIdle
  <2>5. q.answered >= r.answered /\ (r.handler \in Leaving => q.handler \in Leaving)
    BY <1>3, <1>6, <2>3, SMT DEF Leaving, SetIdle
  <2> QED  BY <1>5, <2>1, <2>2, <2>4, <2>5
<1>7. CASE ReadErr(c)
  <2> DEFINE q == [conn[c] EXCEPT !.handler = "return"]
  <2>1. conn' = [conn EXCEPT ![c] = q]
    BY <1>7 DEF ReadErr
  <2>2. q \in Connection
    BY <1>2, <1>3, <1>7, ShutdownAssumption, Zenon DEF ReadErr, Connection
  <2>3. q.handler = "return" /\ q.answered = r.answered
    BY <1>2, SMT DEF Connection
  <2> HIDE DEF q
  <2>4. Keeps(q, m)
    BY <1>2, <1>3, <1>4, <1>7, <2>3, SMT DEF Keeps, ReadErr
  <2>5. q.answered >= r.answered /\ (r.handler \in Leaving => q.handler \in Leaving)
    BY <1>3, <1>7, <2>3, SMT DEF Leaving, ReadErr
  <2> QED  BY <1>5, <2>1, <2>2, <2>4, <2>5
<1>8. CASE SetBusy(c)
  <2> DEFINE q == [conn[c] EXCEPT !.handler = "parse", !.busy = TRUE]
  <2>1. conn' = [conn EXCEPT ![c] = q]
    BY <1>8 DEF SetBusy
  <2>2. q \in Connection
    BY <1>2, <1>3, <1>8, ShutdownAssumption, Zenon DEF SetBusy, Connection
  <2>3. q.handler = "parse" /\ q.pending = r.pending /\ q.answered = r.answered /\ q.busy = TRUE
    BY <1>2, SMT DEF Connection
  <2> HIDE DEF q
  <2>4. Keeps(q, m)
    BY <1>2, <1>3, <1>4, <1>8, <2>3, SMT DEF Keeps, SetBusy
  <2>5. q.answered >= r.answered /\ (r.handler \in Leaving => q.handler \in Leaving)
    BY <1>3, <1>8, <2>3, SMT DEF Leaving, SetBusy
  <2> QED  BY <1>5, <2>1, <2>2, <2>4, <2>5
<1>9. CASE Execute(c)
  <2> DEFINE q == [conn[c] EXCEPT !.handler = "write", !.executed = @ + 1]
  <2>1. conn' = [conn EXCEPT ![c] = q]
    BY <1>9 DEF Execute
  <2>2. q \in Connection
    BY <1>2, <1>3, <1>9, ShutdownAssumption, SMT DEF Execute, Connection
  <2>3. q.handler = "write" /\ q.pending = r.pending /\ q.answered = r.answered /\ q.busy = r.busy
    BY <1>2, SMT DEF Connection
  <2> HIDE DEF q
  <2>4. Keeps(q, m)
    BY <1>2, <1>3, <1>4, <1>9, <2>3, SMT DEF Keeps, Execute
  <2>5. q.answered >= r.answered /\ (r.handler \in Leaving => q.handler \in Leaving)
    BY <1>3, <1>9, <2>3, SMT DEF Leaving, Execute
  <2> QED  BY <1>5, <2>1, <2>2, <2>4, <2>5
<1>10. CASE Malformed(c)
  <2> DEFINE q == [conn[c] EXCEPT !.handler = "return"]
  <2>1. conn' = [conn EXCEPT ![c] = q]
    BY <1>10 DEF Malformed
  <2>2. q \in Connection
    BY <1>2, <1>3, <1>10, ShutdownAssumption, Zenon DEF Malformed, Connection
  <2>3. q.handler = "return" /\ q.answered = r.answered
    BY <1>2, SMT DEF Connection
  <2> HIDE DEF q
  <2>4. Keeps(q, m)
    BY <1>2, <1>3, <1>4, <1>10, <2>3, SMT DEF Keeps, Malformed
  <2>5. q.answered >= r.answered /\ (r.handler \in Leaving => q.handler \in Leaving)
    BY <1>3, <1>10, <2>3, SMT DEF Leaving, Malformed
  <2> QED  BY <1>5, <2>1, <2>2, <2>4, <2>5
<1>11. CASE Incomplete(c)
  <2> DEFINE q == [conn[c] EXCEPT !.handler = "top"]
  <2>1. conn' = [conn EXCEPT ![c] = q]
    BY <1>11 DEF Incomplete
  <2>2. q \in Connection
    BY <1>2, <1>3, <1>11, ShutdownAssumption, Zenon DEF Incomplete, Connection
  <2>3. q.handler = "top" /\ q.pending = r.pending /\ q.answered = r.answered /\ q.busy = r.busy
    BY <1>2, SMT DEF Connection
  <2> HIDE DEF q
  <2>4. Keeps(q, m)
    BY <1>2, <1>3, <1>4, <1>11, <2>3, SMT DEF Keeps, Incomplete
  <2>5. q.answered >= r.answered /\ (r.handler \in Leaving => q.handler \in Leaving)
    BY <1>3, <1>11, <2>3, SMT DEF Leaving, Incomplete
  <2> QED  BY <1>5, <2>1, <2>2, <2>4, <2>5
<1>12. CASE WriteReply(c)
  <2> DEFINE q == [conn[c] EXCEPT !.handler = "parse", !.answered = @ + 1,
                             !.unread = @ + 1, !.pending = @ - CmdLen]
  <2>1. conn' = [conn EXCEPT ![c] = q]
    BY <1>12 DEF WriteReply
  <2>2. q \in Connection
    BY <1>2, <1>3, <1>12, ShutdownAssumption, SMT DEF WriteReply, Connection
  <2>3. q.handler = "parse" /\ q.pending = r.pending - CmdLen /\ q.answered = r.answered + 1 /\ q.busy = r.busy
    BY <1>2, SMT DEF Connection
  <2> HIDE DEF q
  <2>4. Keeps(q, m)
    BY <1>2, <1>3, <1>4, <1>12, <2>3, SMT DEF Keeps, WriteReply
  <2>5. q.answered >= r.answered /\ (r.handler \in Leaving => q.handler \in Leaving)
    BY <1>3, <1>12, <2>3, SMT DEF Leaving, WriteReply
  <2> QED  BY <1>5, <2>1, <2>2, <2>4, <2>5
<1>13. CASE WriteErr(c)
  <2> DEFINE q == [conn[c] EXCEPT !.handler = "return"]
  <2>1. conn' = [conn EXCEPT ![c] = q]
    BY <1>13 DEF WriteErr
  <2>2. q \in Connection
    BY <1>2, <1>3, <1>13, ShutdownAssumption, Zenon DEF WriteErr, Connection
  <2>3. q.handler = "return" /\ q.answered = r.answered
    BY <1>2, SMT DEF Connection
  <2> HIDE DEF q
  <2>4. Keeps(q, m)
    BY <1>2, <1>3, <1>4, <1>13, <2>3, SMT DEF Keeps, WriteErr
  <2>5. q.answered >= r.answered /\ (r.handler \in Leaving => q.handler \in Leaving)
    BY <1>3, <1>13, <2>3, SMT DEF Leaving, WriteErr
  <2> QED  BY <1>5, <2>1, <2>2, <2>4, <2>5
<1>14. CASE DeferClose(c)
  <2> DEFINE q == [conn[c] EXCEPT !.handler = "remove", !.socket = "closed"]
  <2>1. conn' = [conn EXCEPT ![c] = q]
    BY <1>14 DEF DeferClose
  <2>2. q \in Connection
    BY <1>2, <1>3, <1>14, ShutdownAssumption, Zenon DEF DeferClose, Connection
  <2>3. q.handler = "remove" /\ q.answered = r.answered
    BY <1>2, SMT DEF Connection
  <2> HIDE DEF q
  <2>4. Keeps(q, m)
    BY <1>2, <1>3, <1>4, <1>14, <2>3, SMT DEF Keeps, DeferClose
  <2>5. q.answered >= r.answered /\ (r.handler \in Leaving => q.handler \in Leaving)
    BY <1>3, <1>14, <2>3, SMT DEF Leaving, DeferClose
  <2> QED  BY <1>5, <2>1, <2>2, <2>4, <2>5
<1>15. CASE DeferDone(c)
  <2> DEFINE q == [conn[c] EXCEPT !.handler = "done"]
  <2>1. conn' = [conn EXCEPT ![c] = q]
    BY <1>15 DEF DeferDone
  <2>2. q \in Connection
    BY <1>2, <1>3, <1>15, ShutdownAssumption, Zenon DEF DeferDone, Connection
  <2>3. q.handler = "done" /\ q.answered = r.answered
    BY <1>2, SMT DEF Connection
  <2> HIDE DEF q
  <2>4. Keeps(q, m)
    BY <1>2, <1>3, <1>4, <1>15, <2>3, SMT DEF Keeps, DeferDone
  <2>5. q.answered >= r.answered /\ (r.handler \in Leaving => q.handler \in Leaving)
    BY <1>3, <1>15, <2>3, SMT DEF Leaving, DeferDone
  <2> QED  BY <1>5, <2>1, <2>2, <2>4, <2>5
<1>16. CASE DeferRemove(c)
  <2> DEFINE q == [conn[c] EXCEPT !.handler = "wgdone"]
  <2>1. conn' = [conn EXCEPT ![c] = q]
    BY <1>16 DEF DeferRemove
  <2>2. q \in Connection
    BY <1>2, <1>3, <1>16, ShutdownAssumption, Zenon DEF DeferRemove, Connection
  <2>3. q.handler = "wgdone" /\ q.answered = r.answered
    BY <1>2, SMT DEF Connection
  <2> HIDE DEF q
  <2>4. Keeps(q, m)
    BY <1>2, <1>3, <1>4, <1>16, <2>3, SMT DEF Keeps, DeferRemove
  <2>5. q.answered >= r.answered /\ (r.handler \in Leaving => q.handler \in Leaving)
    BY <1>3, <1>16, <2>3, SMT DEF Leaving, DeferRemove
  <2> QED  BY <1>5, <2>1, <2>2, <2>4, <2>5
<1>17. CASE ReadData(c)
  <2>1. PICK n \in 1 .. r.inbox :
            conn' = [conn EXCEPT ![c].handler = "got", ![c].inbox = @ - n, ![c].pending = @ + n]
    BY <1>17 DEF ReadData
  <2> DEFINE q == [conn[c] EXCEPT !.handler = "got", !.inbox = @ - n, !.pending = @ + n]
  <2>2. conn' = [conn EXCEPT ![c] = q]
    BY <2>1
  <2>a. r.inbox - n \in Nat /\ r.pending + n \in Nat
    BY <1>2, <1>3, SMT DEF Connection
  <2>3. q \in Connection
    BY <1>2, <2>a, Zenon DEF Connection
  <2>4. q.handler = "got" /\ q.answered = r.answered /\ q.busy = r.busy
    BY <1>2, SMT DEF Connection
  <2> HIDE DEF q
  <2>5. Keeps(q, m)
    BY <1>2, <1>3, <1>17, <2>4, SMT DEF Keeps, ReadData
  <2>6. q.answered >= r.answered /\ (r.handler \in Leaving => q.handler \in Leaving)
    BY <1>3, <1>17, <2>4, SMT DEF Leaving, ReadData
  <2> QED  BY <1>5, <2>2, <2>3, <2>5, <2>6
<1> QED
  BY <1>6, <1>7, <1>8, <1>9, <1>10, <1>11, <1>12, <1>13, <1>14, <1>15, <1>16, <1>17 DEF Handler

LEMMA ClientKeeps ==
    ASSUME IInv, KeepsOwed, NEW c \in Conns, Client(c) PROVE KeepsOwed'
<1>1. main' = main /\ target' = target /\ owed' = owed
  BY DEF Client, mainVars
<1>2. conn[c] \in Connection /\ Keeps(conn[c], owed[c]) /\ conn \in [Conns -> Connection]
  BY DEF IInv, TypeOK, KeepsOwed
<1>3. ASSUME NEW q \in Connection, conn' = [conn EXCEPT ![c] = q],
             q.handler = conn[c].handler, q.busy = conn[c].busy,
             q.pending = conn[c].pending, q.answered = conn[c].answered
      PROVE  KeepsOwed'
  <2>1. Keeps(q, owed[c])
    BY <1>2, <1>3 DEF Keeps
  <2>2. q.answered >= conn[c].answered
    BY <1>2, <1>3, SMT DEF Connection
  <2> QED  BY <1>1, <1>3, <2>1, <2>2, LocalKeeps
<1>4. CASE conn[c].socket = "none" /\ conn' = [conn EXCEPT ![c].socket = "backlog"]
  <2> DEFINE q == [conn[c] EXCEPT !.socket = "backlog"]
  <2>1. conn' = [conn EXCEPT ![c] = q]
    BY <1>4
  <2>2. q \in Connection
    BY <1>2, Zenon DEF Connection
  <2>q. /\ q.handler = conn[c].handler /\ q.busy = conn[c].busy
        /\ q.pending = conn[c].pending /\ q.answered = conn[c].answered
    BY <1>2, SMT DEF Connection
  <2> HIDE DEF q
  <2> QED  BY <1>3, <2>1, <2>2, <2>q
<1>5. ASSUME NEW n \in 1 .. conn[c].toSend,
             conn' = [conn EXCEPT ![c].toSend = @ - n, ![c].inbox = @ + n]
      PROVE  KeepsOwed'
  <2> DEFINE q == [conn[c] EXCEPT !.toSend = @ - n, !.inbox = @ + n]
  <2>1. conn' = [conn EXCEPT ![c] = q]
    BY <1>5
  <2>2. conn[c].toSend - n \in Nat /\ conn[c].inbox + n \in Nat
    BY <1>2, SMT DEF Connection
  <2>3. q \in Connection
    BY <1>2, <2>2, Zenon DEF Connection
  <2>q. /\ q.handler = conn[c].handler /\ q.busy = conn[c].busy
        /\ q.pending = conn[c].pending /\ q.answered = conn[c].answered
    BY <1>2, SMT DEF Connection
  <2> HIDE DEF q
  <2> QED  BY <1>3, <2>1, <2>3, <2>q
<1>6. CASE conn[c].unread > 0 /\ conn' = [conn EXCEPT ![c].unread = @ - 1]
  <2> DEFINE q == [conn[c] EXCEPT !.unread = @ - 1]
  <2>1. conn' = [conn EXCEPT ![c] = q]
    BY <1>6
  <2>2. q \in Connection
    BY <1>2, <1>6, ShutdownAssumption, SMT DEF Connection
  <2>q. /\ q.handler = conn[c].handler /\ q.busy = conn[c].busy
        /\ q.pending = conn[c].pending /\ q.answered = conn[c].answered
    BY <1>2, SMT DEF Connection
  <2> HIDE DEF q
  <2> QED  BY <1>3, <2>1, <2>2, <2>q
<1>7. CASE conn' = [conn EXCEPT ![c].left = TRUE]
  <2> DEFINE q == [conn[c] EXCEPT !.left = TRUE]
  <2>1. conn' = [conn EXCEPT ![c] = q]
    BY <1>7
  <2>2. q \in Connection
    BY <1>2, Zenon DEF Connection
  <2>q. /\ q.handler = conn[c].handler /\ q.busy = conn[c].busy
        /\ q.pending = conn[c].pending /\ q.answered = conn[c].answered
    BY <1>2, SMT DEF Connection
  <2> HIDE DEF q
  <2> QED  BY <1>3, <2>1, <2>2, <2>q
<1> QED  BY <1>4, <1>5, <1>6, <1>7 DEF Client

\* The main goroutine opens and closes sockets, and notes what is owed.
LEMMA MainKeeps ==
    ASSUME IInv, KeepsOwed, Main \/ Timer PROVE KeepsOwed'
<1>1. /\ conn \in [Conns -> Connection]
      /\ \A c \in Conns : conn[c] \in Connection /\ Keeps(conn[c], owed[c]) /\ ConnOK(conn[c])
  BY DEF IInv, TypeOK, TrackingOK, KeepsOwed
<1>2. ASSUME NEW c \in Conns, Accept(c) PROVE KeepsOwed'
  <2> DEFINE q == [conn[c] EXCEPT !.socket = "open", !.handler = "top"]
  <2>1. conn' = [conn EXCEPT ![c] = q] /\ main' = main /\ target' = target /\ owed' = owed
        /\ conn[c].handler = "none"
    BY <1>1, <1>2 DEF Accept, mainVars, ConnOK
  <2>2. q \in Connection
    BY <1>1, Zenon DEF Connection
  <2>3. q.handler = "top" /\ q.pending = conn[c].pending /\ q.answered = conn[c].answered
    BY <1>1, SMT DEF Connection
  <2> HIDE DEF q
  <2>4. Keeps(q, owed[c])
    BY <1>1, <2>1, <2>3 DEF Keeps
  <2>5. q.answered >= conn[c].answered /\ conn[c].handler \notin Leaving
    BY <1>1, <2>1, <2>3, SMT DEF Connection, Leaving
  <2> QED  BY <2>1, <2>2, <2>4, <2>5, LocalKeeps
<1>3. CASE AcceptErr
  <2>1. conn' = conn /\ main' = "drain"
        /\ \A c \in Conns : owed'[c] = IF conn[c].busy
                THEN conn[c].answered + conn[c].pending \div CmdLen ELSE 0
    BY <1>3 DEF AcceptErr
  <2>2. ASSUME NEW c \in Conns PROVE Keeps(conn[c], owed'[c])
    <3>1. conn[c].pending \in Nat /\ conn[c].answered \in Nat
      BY <1>1 DEF Connection
    <3>2. /\ conn[c].pending \div CmdLen \in Nat
          /\ conn[c].pending < CmdLen => conn[c].pending \div CmdLen = 0
      BY <3>1, OneCommandLess
    <3> QED  BY <1>1, <2>1, <3>1, <3>2, SMT DEF Keeps
  <2>3. (\A c \in Conns : Keeps(conn[c], owed[c]))'
    BY <2>1, <2>2 DEF Keeps
  <2> QED  BY <2>1, <2>3 DEF KeepsOwed
<1>4. ASSUME NEW c \in Conns, ScanIdle(c) PROVE KeepsOwed'
  <2>1. conn' = conn /\ owed' = owed /\ main' = "close" /\ target' = c /\ ~ conn[c].busy
    BY <1>4 DEF ScanIdle
  <2>2. conn[c].handler \notin Leaving => conn[c].answered >= owed[c]
    BY <1>1, <2>1 DEF Keeps, Connection, Leaving
  <2>3. (\A x \in Conns : Keeps(conn[x], owed[x]))'
    BY <1>1, <2>1 DEF Keeps
  <2> QED  BY <2>1, <2>2, <2>3 DEF KeepsOwed
<1>5. ASSUME NEW c \in Conns, conn' = [conn EXCEPT ![c].socket = "closed"],
             owed' = owed, main' # "close"
      PROVE  KeepsOwed'
  <2> DEFINE q == [conn[c] EXCEPT !.socket = "closed"]
  <2>1. \A x \in Conns : conn'[x] = IF x = c THEN q ELSE conn[x]
    BY <1>1, <1>5
  <2>2. /\ q.handler = conn[c].handler /\ q.pending = conn[c].pending
        /\ q.answered = conn[c].answered /\ q.busy = conn[c].busy
    BY <1>1, SMT DEF Connection
  <2> HIDE DEF q
  <2>3. Keeps(q, owed[c])
    BY <1>1, <2>2 DEF Keeps
  <2>4. (\A x \in Conns : Keeps(conn[x], owed[x]))'
    BY <1>1, <1>5, <2>1, <2>3 DEF Keeps
  <2> QED  BY <1>5, <2>4 DEF KeepsOwed
<1>6. ASSUME conn' = conn, owed' = owed, main' # "close" \/ (main' = main /\ target' = target)
      PROVE  KeepsOwed'
  <2>1. (\A x \in Conns : Keeps(conn[x], owed[x]))'
    BY <1>1, <1>6 DEF Keeps
  <2> QED  BY <1>6, <2>1 DEF KeepsOwed
<1>7. CASE CloseIdleConn
  BY <1>5, <1>7 DEF CloseIdleConn, IInv, TypeOK
<1>8. ASSUME NEW c \in Conns, ForceClose(c) PROVE KeepsOwed'
  BY <1>5, <1>8 DEF ForceClose, mainVars
<1>9. CASE \/ StartScan \/ ScanEnd \/ Check \/ ForceEnd \/ Wait \/ Deadline \/ GraceOver
           \/ \E c \in Conns : ScanBusy(c)
  BY <1>6, <1>9 DEF StartScan, ScanEnd, Check, ForceEnd, Wait, Deadline, GraceOver, ScanBusy
<1> QED
  BY <1>2, <1>3, <1>4, <1>7, <1>8, <1>9 DEF Main, Timer

LEMMA NextKeeps == IInv /\ KeepsOwed /\ [Next]_vars => KeepsOwed'
<1> SUFFICES ASSUME IInv, KeepsOwed, [Next]_vars PROVE KeepsOwed'
  OBVIOUS
<1>1. CASE CloseListener \/ Cancel \/ UNCHANGED vars
  <2>1. conn' = conn /\ owed' = owed /\ main' = main /\ target' = target
    BY <1>1 DEF CloseListener, Cancel, vars, mainVars
  <2> QED  BY <2>1 DEF KeepsOwed, Keeps
<1> QED  BY <1>1, HandlerKeeps, ClientKeeps, MainKeeps DEF Next

\* A batch that was marked busy when the drain began has got all its answers
\* when closeIdle closes its connection, for batches of any length and however
\* the drain's scan meets the handlers (server.go:441-473).
THEOREM StartedBatchIsAnswered == Spec => StartedBatchAnswered
<1>1. Init => KeepsOwed
  <2> SUFFICES ASSUME Init PROVE KeepsOwed
    OBVIOUS
  <2>1. ASSUME NEW c \in Conns PROVE Keeps(conn[c], owed[c])
    BY <2>1, ShutdownAssumption, SMT DEF Init, Fresh, Keeps
  <2> QED  BY <2>1 DEF Init, KeepsOwed
<1>2. Spec => []KeepsOwed
  BY <1>1, Invariance, NextKeeps, PTL DEF Spec
<1>3. ASSUME IInv, KeepsOwed, Next, NEW c \in Conns, main = "close",
             conn[c].handler # "return", conn[c].socket = "open", conn'[c].socket = "closed"
      PROVE  conn[c].answered >= owed[c]
  <2>1. conn \in [Conns -> Connection] /\ ConnOK(conn[c]) /\ conn[c].handler \notin Leaving
    BY <1>3, SMT DEF IInv, TypeOK, TrackingOK, ConnOK, Leaving
  <2>t. conn \in [Conns -> Connection]
    BY <1>3 DEF IInv, TypeOK
  <2>2. ASSUME NEW x \in Conns, Handler(x), ~ DeferClose(x) PROVE conn'[c].socket = conn[c].socket
    <3>1. CASE SetIdle(x)
      BY <2>t, <3>1, SMT DEF SetIdle, Connection
    <3>2. CASE ReadErr(x)
      BY <2>t, <3>2, SMT DEF ReadErr, Connection
    <3>3. CASE SetBusy(x)
      BY <2>t, <3>3, SMT DEF SetBusy, Connection
    <3>4. CASE Execute(x)
      BY <2>t, <3>4, SMT DEF Execute, Connection
    <3>5. CASE Malformed(x)
      BY <2>t, <3>5, SMT DEF Malformed, Connection
    <3>6. CASE Incomplete(x)
      BY <2>t, <3>6, SMT DEF Incomplete, Connection
    <3>7. CASE WriteReply(x)
      BY <2>t, <3>7, SMT DEF WriteReply, Connection
    <3>8. CASE WriteErr(x)
      BY <2>t, <3>8, SMT DEF WriteErr, Connection
    <3>9. CASE DeferRemove(x)
      BY <2>t, <3>9, SMT DEF DeferRemove, Connection
    <3>10. CASE DeferDone(x)
      BY <2>t, <3>10, SMT DEF DeferDone, Connection
    <3>11. CASE ReadData(x)
      BY <2>t, <3>11, SMT DEF ReadData, Connection
    <3> QED  BY <2>2, <3>1, <3>2, <3>3, <3>4, <3>5, <3>6, <3>7, <3>8, <3>9, <3>10, <3>11 DEF Handler
  <2>a. ASSUME NEW x \in Conns, DeferClose(x) PROVE conn'[c].socket = conn[c].socket
    BY <1>3, <2>1, <2>a, SMT DEF DeferClose, At
  <2>b. ASSUME NEW x \in Conns, Client(x) PROVE conn'[c].socket # "closed"
    <3>1. CASE conn' = [conn EXCEPT ![x].socket = "backlog"]
      BY <1>3, <2>t, <3>1, SMT DEF Connection
    <3>2. CASE conn' = [conn EXCEPT ![x].left = TRUE]
      BY <1>3, <2>t, <3>2, SMT DEF Connection
    <3>3. CASE conn' = [conn EXCEPT ![x].unread = @ - 1]
      BY <1>3, <2>t, <3>3, SMT DEF Connection
    <3>4. ASSUME NEW n \in 1 .. conn[x].toSend,
                 conn' = [conn EXCEPT ![x].toSend = @ - n, ![x].inbox = @ + n]
          PROVE  conn'[c].socket # "closed"
      BY <1>3, <2>t, <3>4, SMT DEF Connection
    <3> QED  BY <2>b, <3>1, <3>2, <3>3, <3>4 DEF Client
  <2>3. CASE CloseIdleConn
    <3>1. c = target
      BY <1>3, <2>1, <2>3 DEF CloseIdleConn
    <3> QED  BY <1>3, <2>1, <3>1 DEF KeepsOwed
  <2>4. CASE (Main /\ ~ CloseIdleConn) \/ Timer \/ CloseListener \/ Cancel
    <3>1. conn' = conn
      BY <1>3, <2>4 DEF Main, Timer, CloseListener, Cancel, AcceptErr, StartScan, ScanEnd, Check,
         ForceEnd, Wait, Accept, ScanBusy, ScanIdle, ForceClose, Deadline, GraceOver
    <3> QED  BY <1>3, <3>1
  <2> QED  BY <1>3, <2>2, <2>a, <2>b, <2>3, <2>4 DEF Next
<1>4. IInv /\ KeepsOwed /\ [Next]_vars =>
        [\A c \in Conns :
          /\ main = "close" /\ conn[c].handler # "return"
          /\ conn[c].socket = "open" /\ conn'[c].socket = "closed"
          => conn[c].answered >= owed[c]]_vars
  BY <1>3
<1> QED  BY <1>2, <1>4, Invariance, PTL DEF Spec, StartedBatchAnswered

-----------------------------------------------------------------------------
(* The worker pool                                                           *)

Queued  == {jobs[i] : i \in DOMAIN jobs}
Held    == {holds[w] : w \in Workers} \ {NoConn}
Started == served \union UNION {running[w] \union unwinding[w] : w \in Workers}

PoolTypeOK ==
    /\ waiting \subseteq Conns /\ submit \in Conns \union {NoConn}
    /\ jobs \in Seq(Conns) /\ holds \in [Workers -> Conns \union {NoConn}]
    /\ slots \in [Workers -> Nat] /\ served \subseteq Conns
    /\ running \in [Workers -> SUBSET Conns] /\ unwinding \in [Workers -> SUBSET Conns]

\* Nobody is in two stages, nor twice in one.
OnePlace ==
    /\ waiting \cap (Queued \union Held \union Started) = {} /\ submit \notin waiting
    /\ submit \notin Queued \union Held \union Started
    /\ Queued \cap (Held \union Started) = {}
    /\ Held \cap Started = {}
    /\ \A i, j \in DOMAIN jobs : jobs[i] = jobs[j] => i = j
    /\ \A v, w \in Workers : holds[v] = holds[w] /\ holds[v] # NoConn => v = w
    /\ \A w \in Workers : running[w] \cap unwinding[w] = {}

PoolIInv == PoolTypeOK /\ OnePlace /\ SlotsCountHandlers

LEMMA PoolInitially == PoolInit => PoolIInv
<1> SUFFICES ASSUME PoolInit PROVE PoolIInv
  OBVIOUS
<1>1. PoolTypeOK
  BY PoolAssumption DEF PoolInit, PoolTypeOK
<1>2. OnePlace
  BY PoolAssumption DEF PoolInit, OnePlace, Queued, Held, Started
<1>3. SlotsCountHandlers
  BY FS_EmptySet, PoolAssumption DEF PoolInit, SlotsCountHandlers
<1> QED  BY <1>1, <1>2, <1>3 DEF PoolIInv

LEMMA PoolTypesStep == PoolTypeOK /\ SlotsCountHandlers /\ [PoolNext]_poolVars => PoolTypeOK'
<1> SUFFICES ASSUME PoolTypeOK, SlotsCountHandlers, [PoolNext]_poolVars PROVE PoolTypeOK'
  OBVIOUS
<1> USE ConnectionsAssumption, PoolAssumption DEF PoolTypeOK
<1>1. CASE AcceptLoop
  <2>1. ASSUME NEW c \in Conns, AcceptForPool(c) PROVE PoolTypeOK'
    BY <2>1 DEF AcceptForPool
  <2>2. CASE Submit
    <3>1. submit \in Conns
      BY <2>2 DEF Submit
    <3>2. Append(jobs, submit) \in Seq(Conns)
      BY <3>1
    <3> QED  BY <2>2, <3>2 DEF Submit
  <2> QED  BY <1>1, <2>1, <2>2 DEF AcceptLoop
<1>2. ASSUME NEW w \in Workers, Receive(w) PROVE PoolTypeOK'
  BY <1>2 DEF Receive
<1>3. ASSUME NEW w \in Workers, HandOver(w) PROVE PoolTypeOK'
  BY <1>3 DEF HandOver
<1>4. ASSUME NEW w \in Workers, Start(w) PROVE PoolTypeOK'
  BY <1>4 DEF Start
<1>5. ASSUME NEW w \in Workers, NEW c \in Conns, Returns(w, c) PROVE PoolTypeOK'
  BY <1>5 DEF Returns
<1>6. ASSUME NEW w \in Workers, NEW c \in Conns, Release(w, c) PROVE PoolTypeOK'
  <2>1. IsFiniteSet(running[w] \union unwinding[w]) /\ c \in running[w] \union unwinding[w]
    BY <1>6, FS_Subset DEF Release
  <2>2. slots[w] # 0
    BY <2>1, FS_EmptySet DEF SlotsCountHandlers
  <2> QED  BY <1>6, <2>2 DEF Release
<1>7. ASSUME NEW c \in Conns, Connect(c) PROVE PoolTypeOK'
  BY <1>7 DEF Connect
<1>8. CASE UNCHANGED poolVars
  BY <1>8 DEF poolVars
<1> QED
  BY <1>1, <1>2, <1>3, <1>4, <1>5, <1>6, <1>7, <1>8 DEF PoolNext, Worker

LEMMA OnePlaceStep == PoolTypeOK /\ OnePlace /\ [PoolNext]_poolVars => OnePlace'
<1> SUFFICES ASSUME PoolTypeOK, OnePlace, [PoolNext]_poolVars PROVE OnePlace'
  OBVIOUS
<1> USE ConnectionsAssumption, PoolAssumption DEF PoolTypeOK
<1>1. CASE Submit
  <2>1. Queued' = Queued \union {submit} /\ submit' = NoConn
    <3>1. jobs' = Append(jobs, submit) /\ submit \in Conns /\ submit' = NoConn
      BY <1>1 DEF Submit
    <3>2. /\ DOMAIN jobs' = 1 .. Len(jobs) + 1 /\ jobs'[Len(jobs) + 1] = submit
          /\ Len(jobs) \in Nat /\ DOMAIN jobs = 1 .. Len(jobs)
      BY <3>1
    <3>3. \A i \in DOMAIN jobs : i \in DOMAIN jobs' /\ jobs'[i] = jobs[i]
      BY <3>1
    <3>4. \A i \in DOMAIN jobs' : i = Len(jobs) + 1 \/ i \in DOMAIN jobs
      BY <3>2
    <3>5. Len(jobs) + 1 \in DOMAIN jobs'
      BY <3>2
    <3>6. submit \in Queued'
      BY <3>2, <3>5, ZenonT(40) DEF Queued
    <3>7. Queued \subseteq Queued'
      BY <3>3, ZenonT(40) DEF Queued
    <3>8. Queued' \subseteq Queued \union {submit}
      BY <3>2, <3>3, <3>4, ZenonT(40) DEF Queued
    <3> QED  BY <3>1, <3>6, <3>7, <3>8, ZenonT(40)
  <2>2. Held' = Held /\ Started' = Started /\ waiting' = waiting
    BY <1>1 DEF Submit, Held, Started
  <2>3. NoConn \notin Queued' \union Held' \union Started'
    BY <1>1, <2>1, <2>2 DEF Submit, Queued, Held, Started
  <2>4. \A i, j \in DOMAIN jobs' : jobs'[i] = jobs'[j] => i = j
    <3>1. jobs' = Append(jobs, submit) /\ submit \in Conns
      BY <1>1 DEF Submit
    <3>2. DOMAIN jobs' = 1 .. Len(jobs) + 1 /\ jobs'[Len(jobs) + 1] = submit
          /\ Len(jobs) \in Nat /\ DOMAIN jobs = 1 .. Len(jobs)
      BY <3>1
    <3>3. \A i \in DOMAIN jobs : jobs'[i] = jobs[i] /\ jobs'[i] # submit
      BY <3>1 DEF OnePlace, Queued
    <3>4. \A i \in DOMAIN jobs' : i = Len(jobs) + 1 \/ i \in DOMAIN jobs
      BY <3>2
    <3> QED  BY <3>2, <3>3, <3>4 DEF OnePlace
  <2> QED  BY <1>1, <2>1, <2>2, <2>3, <2>4 DEF Submit, OnePlace
<1>2. ASSUME NEW c \in Conns, AcceptForPool(c) PROVE OnePlace'
  <2>1. Queued' = Queued /\ Held' = Held /\ Started' = Started
    BY <1>2 DEF AcceptForPool, Queued, Held, Started
  <2> QED  BY <1>2, <2>1 DEF AcceptForPool, OnePlace
<1>3. ASSUME NEW w \in Workers, Receive(w) PROVE OnePlace'
  <2>1. /\ Queued = Queued' \union {Head(jobs)} /\ Head(jobs) \notin Queued'
        /\ \A i, j \in DOMAIN jobs' : jobs'[i] = jobs'[j] => i = j
    <3>1. jobs' = Tail(jobs) /\ jobs # <<>>
      BY <1>3 DEF Receive
    <3>2. /\ Len(jobs) \in Nat \ {0} /\ DOMAIN jobs = 1 .. Len(jobs) /\ Head(jobs) = jobs[1]
          /\ DOMAIN jobs' = 1 .. Len(jobs) - 1
      BY <3>1
    <3>3. \A i \in DOMAIN jobs' : jobs'[i] = jobs[i + 1] /\ i + 1 \in DOMAIN jobs
      BY <3>1, <3>2
    <3>4. \A i \in DOMAIN jobs : i = 1 \/ (i - 1 \in DOMAIN jobs' /\ jobs[i] = jobs'[i - 1])
      BY <3>2, <3>3
    <3>5. \A i \in DOMAIN jobs' : i + 1 # 1
      BY <3>2
    <3>6. Queued = Queued' \union {Head(jobs)}
      <4>1. Head(jobs) \in Queued /\ Queued' \subseteq Queued
        <5>1. 1 \in DOMAIN jobs
          BY <3>2
        <5>2. Head(jobs) \in Queued
          BY <5>1, <3>2 DEF Queued
        <5>3. ASSUME NEW x \in Queued' PROVE x \in Queued
          <6>1. PICK i \in DOMAIN jobs' : x = jobs'[i]
            BY <5>3 DEF Queued
          <6>2. x = jobs[i + 1] /\ i + 1 \in DOMAIN jobs
            BY <6>1, <3>3
          <6> QED  BY <6>2, Zenon DEF Queued
        <5> QED  BY <5>2, <5>3
      <4>2. Queued \subseteq Queued' \union {Head(jobs)}
        BY <3>2, <3>4 DEF Queued
      <4> QED  BY <4>1, <4>2
    <3>7. Head(jobs) \notin Queued'
      <4> SUFFICES ASSUME NEW i \in DOMAIN jobs', jobs'[i] = Head(jobs) PROVE FALSE
        BY ZenonT(40) DEF Queued
      <4> QED  BY <3>2, <3>3, <3>5, SMTT(30) DEF OnePlace
    <3>8. \A i, j \in DOMAIN jobs' : jobs'[i] = jobs'[j] => i = j
      <4> SUFFICES ASSUME NEW i \in DOMAIN jobs', NEW j \in DOMAIN jobs',
                          jobs'[i] = jobs'[j]
                   PROVE  i = j
        OBVIOUS
      <4>1. i + 1 = j + 1
        BY <3>3 DEF OnePlace
      <4> QED  BY <4>1, <3>2
    <3> QED  BY <3>6, <3>7, <3>8
  <2>2. Held' = Held \union {Head(jobs)}
    BY <1>3 DEF Receive, Held
  <2>3. Started' = Started /\ waiting' = waiting /\ submit' = submit
    BY <1>3 DEF Receive, Started
  <2>4. \A u, v \in Workers : holds'[u] = holds'[v] /\ holds'[u] # NoConn => u = v
    BY <1>3, <2>1 DEF Receive, OnePlace, Held
  <2> QED  BY <1>3, <2>1, <2>2, <2>3, <2>4 DEF Receive, OnePlace
<1>4. ASSUME NEW w \in Workers, HandOver(w) PROVE OnePlace'
  <2>1. Held' = Held \union {submit} /\ submit' = NoConn
    BY <1>4 DEF HandOver, Held
  <2>2. Queued' = Queued /\ Started' = Started /\ waiting' = waiting /\ jobs' = jobs
    BY <1>4 DEF HandOver, Queued, Started
  <2>3. NoConn \notin Queued \union Started
    BY DEF Queued, Started
  <2>4. \A u, v \in Workers : holds'[u] = holds'[v] /\ holds'[u] # NoConn => u = v
    BY <1>4 DEF HandOver, OnePlace, Held
  <2> QED  BY <1>4, <2>1, <2>2, <2>3, <2>4 DEF HandOver, OnePlace, Held
<1>5. ASSUME NEW w \in Workers, Start(w) PROVE OnePlace'
  <2>1. Held' = Held \ {holds[w]}
    BY <1>5 DEF Start, Held, OnePlace
  <2>2. Started' = Started \union {holds[w]}
    <3>1. \A v \in Workers : running'[v] \union unwinding'[v] =
              IF v = w THEN running[v] \union unwinding[v] \union {holds[w]}
                       ELSE running[v] \union unwinding[v]
      BY <1>5 DEF Start
    <3> QED  BY <1>5, <3>1 DEF Start, Started
  <2>3. Queued' = Queued /\ waiting' = waiting /\ submit' = submit /\ jobs' = jobs
    BY <1>5 DEF Start, Queued
  <2>4. holds[w] \in Held /\ holds[w] \notin running[w] \union unwinding[w]
    <3>1. holds[w] \in Held /\ running[w] \union unwinding[w] \subseteq Started
      BY <1>5 DEF Start, Held, Started
    <3> QED  BY <3>1 DEF OnePlace
  <2> QED  BY <1>5, <2>1, <2>2, <2>3, <2>4 DEF Start, OnePlace
<1>6. ASSUME NEW w \in Workers, NEW c \in Conns, Returns(w, c) PROVE OnePlace'
  <2>1. Started' = Started
    BY <1>6 DEF Returns, Started
  <2>2. Held' = Held /\ Queued' = Queued
    BY <1>6 DEF Returns, Held, Queued
  <2> QED  BY <1>6, <2>1, <2>2 DEF Returns, OnePlace
<1>7. ASSUME NEW w \in Workers, NEW c \in Conns, Release(w, c) PROVE OnePlace'
  <2>1. Started' \subseteq Started
    BY <1>7 DEF Release, Started
  <2>2. Held' = Held /\ Queued' = Queued
    BY <1>7 DEF Release, Held, Queued
  <2> QED  BY <1>7, <2>1, <2>2 DEF Release, OnePlace
<1>8. ASSUME NEW c \in Conns, Connect(c) PROVE OnePlace'
  <2>1. c \notin Queued \union Held \union Started /\ c # submit
    BY <1>8 DEF Connect, InPool, Queued, Held, Started
  <2>2. Held' = Held /\ Queued' = Queued /\ Started' = Started
    BY <1>8 DEF Connect, Held, Queued, Started
  <2> QED  BY <1>8, <2>1, <2>2 DEF Connect, OnePlace
<1>9. CASE UNCHANGED poolVars
  <2>1. Queued' = Queued /\ Held' = Held /\ Started' = Started
    BY <1>9 DEF poolVars, Queued, Held, Started
  <2> QED  BY <1>9, <2>1 DEF poolVars, OnePlace
<1> QED
  BY <1>1, <1>2, <1>3, <1>4, <1>5, <1>6, <1>7, <1>8, <1>9
  DEF PoolNext, AcceptLoop, Worker

LEMMA SlotsStep == PoolIInv /\ [PoolNext]_poolVars => SlotsCountHandlers'
<1> SUFFICES ASSUME PoolIInv, [PoolNext]_poolVars PROVE SlotsCountHandlers'
  OBVIOUS
<1> DEFINE H(w) == running[w] \union unwinding[w]
<1>0. \A w \in Workers : IsFiniteSet(H(w)) /\ Cardinality(H(w)) \in Nat
  BY ConnectionsAssumption, FS_Subset, FS_CardinalityType DEF PoolIInv, PoolTypeOK
<1>1. CASE UNCHANGED <<slots, running, unwinding>>
  BY <1>1 DEF PoolIInv, SlotsCountHandlers
<1>2. ASSUME NEW w \in Workers, Start(w) PROVE SlotsCountHandlers'
  <2>1. holds[w] \notin H(w)
    <3>1. holds[w] \in Held /\ H(w) \subseteq Started
      BY <1>2 DEF Start, Held, Started
    <3> QED  BY <3>1 DEF PoolIInv, OnePlace
  <2>2. H(w)' = H(w) \union {holds[w]} /\ \A v \in Workers \ {w} : H(v)' = H(v)
    BY <1>2 DEF Start, PoolIInv, PoolTypeOK
  <2>3. Cardinality(H(w)') = Cardinality(H(w)) + 1
    BY <1>0, <2>1, <2>2, FS_AddElement, ZenonT(40)
  <2>4. slots'[w] = slots[w] + 1 /\ slots[w] < ConnectionsPerWorker
        /\ slots[w] \in Nat /\ \A v \in Workers \ {w} : slots'[v] = slots[v]
    BY <1>2 DEF Start, PoolIInv, PoolTypeOK
  <2>5. slots[w] = Cardinality(H(w))
    BY DEF PoolIInv, SlotsCountHandlers
  <2>6. slots'[w] = Cardinality(H(w)') /\ slots'[w] <= ConnectionsPerWorker
    BY <2>3, <2>4, <2>5, PoolAssumption
  <2>7. \A v \in Workers \ {w} : slots'[v] = Cardinality(H(v)') /\ slots'[v] <= ConnectionsPerWorker
    BY <2>2, <2>4 DEF PoolIInv, SlotsCountHandlers
  <2> QED  BY <2>6, <2>7 DEF SlotsCountHandlers
<1>3. ASSUME NEW w \in Workers, NEW c \in Conns, Returns(w, c) PROVE SlotsCountHandlers'
  <2>1. \A v \in Workers : H(v)' = H(v)
    BY <1>3 DEF Returns, PoolIInv, PoolTypeOK
  <2> QED  BY <1>3, <2>1 DEF Returns, PoolIInv, SlotsCountHandlers
<1>4. ASSUME NEW w \in Workers, NEW c \in Conns, Release(w, c) PROVE SlotsCountHandlers'
  <2>1. H(w)' = H(w) \ {c} /\ \A v \in Workers \ {w} : H(v)' = H(v)
    BY <1>4 DEF Release, PoolIInv, PoolTypeOK, OnePlace
  <2>2. Cardinality(H(w)') = Cardinality(H(w)) - 1
    <3>1. c \in H(w) /\ IsFiniteSet(H(w))
      BY <1>0, <1>4 DEF Release
    <3> HIDE DEF H
    <3>2. Cardinality(H(w) \ {c}) = Cardinality(H(w)) - 1
      BY <3>1, FS_RemoveElement
    <3> QED  BY <2>1, <3>2
  <2>3. slots'[w] = slots[w] - 1 /\ slots[w] \in Nat
        /\ \A v \in Workers \ {w} : slots'[v] = slots[v]
    BY <1>4 DEF Release, PoolIInv, PoolTypeOK
  <2>4. slots[w] = Cardinality(H(w)) /\ slots[w] <= ConnectionsPerWorker
    BY DEF PoolIInv, SlotsCountHandlers
  <2>5. slots'[w] = Cardinality(H(w)') /\ slots'[w] <= ConnectionsPerWorker
    BY <2>2, <2>3, <2>4, PoolAssumption
  <2>6. \A v \in Workers \ {w} : slots'[v] = Cardinality(H(v)') /\ slots'[v] <= ConnectionsPerWorker
    BY <2>1, <2>3 DEF PoolIInv, SlotsCountHandlers
  <2> QED  BY <2>5, <2>6 DEF SlotsCountHandlers
<1> QED
  BY <1>1, <1>2, <1>3, <1>4
  DEF PoolNext, AcceptLoop, Submit, AcceptForPool, Worker, Receive, HandOver, Connect, poolVars

\* A connection is in one place at a time: no worker starts one twice.
THEOREM PoolInvariance == PoolSpec => []PoolIInv
<1>1. PoolIInv /\ [PoolNext]_poolVars => PoolIInv'
  BY PoolTypesStep, OnePlaceStep, SlotsStep DEF PoolIInv
<1> QED  BY PoolInitially, <1>1, PTL DEF PoolSpec

\* Every worker's slots count its handlers and are at most what is configured
\* (pool.go:27, :33), for any number of workers, slots and clients.
THEOREM SlotsAreExact == PoolSpec => []SlotsCountHandlers
<1>1. PoolIInv => SlotsCountHandlers
  BY DEF PoolIInv
<1> QED  BY <1>1, PoolInvariance, PTL
=============================================================================
