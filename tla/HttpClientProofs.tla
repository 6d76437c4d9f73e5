--------------------------- MODULE HttpClientProofs ---------------------------
(***************************************************************************)
(* Theorems about HttpClient, for any threads, sockets and limits: in      *)
(* every state socket_ is the only open connection, a request that writes  *)
(* or reads does so on it, and when it writes no answer to an earlier one  *)
(* is left there.                                                          *)
(***************************************************************************)
EXTENDS HttpClient, TLAPS

(* Where a thread writes to its socket, or reads. *)
Using == {"write", "head", "body", "trailer", "trailers"}
Places == Using \cup {"idle", "lock", "begin", "handle", "follow", "done", "unlock"}
Calls == [at : Places, strm : Sockets \cup {None}, left : Int, depth : Nat,
          answer : Answers \cup {NoAnswer}, ret : BOOLEAN]
Items == [part : {"continue", "body", "data", "last", "field", "end"}]
         \cup [part : {"head"}, answer : Answers]
Conns == [fd : {"free", "open", "shut"},
          asked : {"none", "part", "whole", "body", "chunks", "end"},
          owed : BOOLEAN, wire : Seq(Items), gone : BOOLEAN]

TypeOK ==
  /\ holder \in Threads \cup {None}
  /\ socket \in Sockets \cup {None}
  /\ inFlight \in Int
  /\ call \in [Threads -> Calls]
  /\ conn \in [Sockets -> Conns]

(* A thread has the mutex exactly while a send() is on its stack.          *)
Mutex ==
  \A t \in Threads :
    /\ call[t].depth > 0 <=> holder = t
    /\ At(t, "idle") => call[t].depth = 0
    /\ ~ At(t, "idle") /\ ~ At(t, "lock") => holder = t

(* The calls of send() on the holder's stack that are between their two    *)
(* uses of socket_mutex_ are counted.                                      *)
Counted ==
  /\ holder = None => inFlight = 0
  /\ \A t \in Threads : holder = t =>
       inFlight = (IF At(t, "begin") \/ At(t, "unlock") THEN call[t].depth - 1 ELSE call[t].depth)

(* socket_ is the one connection that is not closed. *)
OneOpen == \A s \in Sockets : conn[s].fd # "free" <=> s = socket

OwnStream ==
  \A t \in Threads : call[t].at \in Using =>
    call[t].strm = socket /\ socket # None

IInv == TypeOK /\ Mutex /\ Counted /\ OneOpen /\ OwnStream

------------------------------------------------------------------------------
LEMMA AnswerTypes ==
  /\ NoAnswer \in Answers \cup {NoAnswer}
  /\ \A a \in Answers : a.body \in {"none", "sized", "chunked", "rest"} /\ a.close \in BOOLEAN
BY DEF Answers, NoAnswer

LEMMA ConnTypes == Closed \in Conns /\ Fresh \in Conns /\ Closed.fd = "free" /\ Fresh.fd = "open"
<1>1. <<>> \in Seq(Items)
  OBVIOUS
<1>2. Closed \in Conns /\ Closed.fd = "free"
  BY <1>1 DEF Closed, Conns
<1>3. QED
  BY <1>1, <1>2 DEF Closed, Fresh, Conns

(* Closing socket_ leaves no connection open.                              *)
LEMMA ClosedAll ==
  ASSUME TypeOK, OneOpen
  PROVE  /\ Without(socket) \in [Sockets -> Conns]
         /\ \A s \in Sockets : Without(socket)[s].fd = "free"
BY ConnTypes DEF TypeOK, OneOpen, Without

LEMMA InitIInv == Init => IInv
<1> SUFFICES ASSUME Init PROVE IInv
  OBVIOUS
<1>1. Idle \in Calls /\ Idle.at = "idle" /\ Idle.depth = 0
  BY AnswerTypes DEF Idle, Calls, Places, Using
<1>2. TypeOK
  BY <1>1, ConnTypes DEF Init, TypeOK
<1>3. Mutex /\ Counted /\ OwnStream
  BY <1>1, ThreadAssumption DEF Init, Mutex, Counted, OwnStream, At, Using
<1>4. OneOpen
  BY ConnTypes, SocketAssumption DEF Init, OneOpen
<1>5. QED
  BY <1>2, <1>3, <1>4 DEF IInv

------------------------------------------------------------------------------
(* A step of a thread that leaves mutex, sockets and count alone, and goes *)
(* from one place within send_ to another.                                 *)
Middle == Using \cup {"handle", "follow", "done"}

LEMMA MoveOn ==
  ASSUME IInv, NEW t \in Threads, NEW c \in Calls,
         call' = [call EXCEPT ![t] = c],
         call[t].at \in Middle, c.at \in Middle, c.depth = call[t].depth, c.strm = call[t].strm,
         c.at \in Using => call[t].at \in Using,
         UNCHANGED <<holder, socket, inFlight>>,
         conn' \in [Sockets -> Conns],
         \A s \in Sockets : conn'[s].fd = conn[s].fd
  PROVE  IInv'
<1> USE DEF IInv
<1>1. TypeOK'
  BY DEF TypeOK
<1>2. call'[t] = c /\ \A u \in Threads \ {t} : call'[u] = call[u]
  BY DEF TypeOK
<1>3. Mutex'
  BY <1>2 DEF Mutex, At, Middle, Using
<1>4. Counted'
  BY <1>2 DEF Counted, At, Middle, Using
<1>5. OneOpen'
  BY DEF OneOpen
<1>6. OwnStream'
  BY <1>2 DEF OwnStream, At, Middle, Using
<1>7. QED
  BY <1>1, <1>3, <1>4, <1>5, <1>6

LEMMA WriteStep ==
  ASSUME IInv, NEW t \in Threads, Write(t) \/ FailWrite(t)
  PROVE  IInv'
<1> USE DEF IInv
<1> DEFINE s == call[t].strm
<1>1. At(t, "write") /\ call[t] \in Calls /\ s = socket /\ s \in Sockets /\ conn[s] \in Conns
  BY DEF Write, FailWrite, TypeOK, OwnStream, At, Using
<1>2. CASE Write(t)
  <2> DEFINE c == [call[t] EXCEPT !.at = "head"]
  <2>1. call' = [call EXCEPT ![t] = c]
    BY <1>2 DEF Write, GoTo
  <2>2. /\ conn' \in [Sockets -> Conns]
        /\ \A r \in Sockets : conn'[r].fd = conn[r].fd
    BY <1>1, <1>2 DEF Write, TypeOK, Conns
  <2>3. /\ c \in Calls /\ c.at = "head" /\ c.depth = call[t].depth /\ c.strm = call[t].strm
        /\ call[t].at = "write"
    BY <1>1 DEF Calls, Places, At, Using
  <2>4. UNCHANGED <<holder, socket, inFlight>>
    BY <1>2 DEF Write
  <2> HIDE DEF c
  <2>5. QED
    BY <2>1, <2>2, <2>3, <2>4, MoveOn DEF Middle, Using
<1>3. CASE FailWrite(t)
  <2> DEFINE c == [call[t] EXCEPT !.at = "done", !.ret = FALSE, !.answer = NoAnswer]
  <2>1. call' = [call EXCEPT ![t] = c]
    BY <1>3 DEF FailWrite, Return
  <2>2. /\ conn' \in [Sockets -> Conns]
        /\ \A r \in Sockets : conn'[r].fd = conn[r].fd
    <3>1. PICK asked \in {conn[s].asked, "part"} : conn' = [conn EXCEPT ![s].asked = asked]
      BY <1>3 DEF FailWrite
    <3>2. QED
      BY <1>1, <3>1 DEF TypeOK, Conns
  <2>3. /\ c \in Calls /\ c.at = "done" /\ c.depth = call[t].depth /\ c.strm = call[t].strm
        /\ call[t].at = "write"
    BY <1>1 DEF Calls, Places, At, Using
  <2>4. UNCHANGED <<holder, socket, inFlight>>
    BY <1>3 DEF FailWrite
  <2> HIDE DEF c
  <2>5. QED
    BY <2>1, <2>2, <2>3, <2>4, MoveOn DEF Middle, Using
<1>4. QED
  BY <1>2, <1>3

(* What is taken from a connection leaves it well typed, and open.         *)
LEMMA TakeTypes ==
  ASSUME IInv, NEW t \in Threads, call[t].at \in Using, NEW part, NEW place, TakeBody(t, part, place)
  PROVE  /\ call' = [call EXCEPT ![t] = [call[t] EXCEPT !.at = place]]
         /\ conn' \in [Sockets -> Conns]
         /\ \A r \in Sockets : conn'[r].fd = conn[r].fd
<1> DEFINE s == call[t].strm
<1>1. s \in Sockets /\ conn[s] \in Conns
  BY DEF IInv, TypeOK, OwnStream, Using
<1>2. conn[s].wire # <<>> /\ conn' = [conn EXCEPT ![s].wire = Tail(@)]
  BY DEF TakeBody
<1>3. Tail(conn[s].wire) \in Seq(Items)
  BY <1>1, <1>2 DEF Conns
<1>4. conn' \in [Sockets -> Conns] /\ \A r \in Sockets : conn'[r].fd = conn[r].fd
  BY <1>1, <1>2, <1>3 DEF IInv, TypeOK, Conns
<1>5. QED
  BY <1>4 DEF TakeBody, GoTo

LEMMA ReadStep ==
  ASSUME IInv, NEW t \in Threads, ReadHead(t) \/ ReadBody(t) \/ ReadTrailer(t) \/ FailRead(t)
  PROVE  IInv'
<1> USE DEF IInv
<1> DEFINE s == call[t].strm
<1>1. /\ call[t].at \in Using /\ call[t] \in Calls
      /\ s = socket /\ s \in Sockets /\ conn[s] \in Conns
  <2>1. call[t].at \in Using
    BY DEF ReadHead, ReadBody, ReadTrailer, EndLate, FailRead, At, Using
  <2>2. QED
    BY <2>1 DEF TypeOK, OwnStream, Using
<1>2. UNCHANGED <<holder, socket, inFlight>>
  BY DEF ReadHead, ReadBody, ReadTrailer, FailRead
<1>3. CASE ReadHead(t)
  <2>1. conn[s].wire # <<>> /\ conn' = [conn EXCEPT ![s].wire = Tail(@)]
    BY <1>3 DEF ReadHead
  <2>2. Tail(conn[s].wire) \in Seq(Items) /\ Head(conn[s].wire) \in Items
    BY <1>1, <2>1 DEF Conns
  <2>3. /\ conn' \in [Sockets -> Conns]
        /\ \A r \in Sockets : conn'[r].fd = conn[r].fd
    BY <1>1, <2>1, <2>2 DEF TypeOK, Conns
  <2>4. CASE UNCHANGED call
    <3>1. call' = [call EXCEPT ![t] = call[t]]
      BY <2>4 DEF TypeOK
    <3>2. QED
      BY <1>1, <1>2, <2>3, <3>1, MoveOn DEF Middle, Using
  <2>5. CASE ~ UNCHANGED call
    <3> DEFINE a == Head(conn[s].wire).answer
               c == [call[t] EXCEPT !.answer = a, !.at = IF a.body = "none" THEN "handle" ELSE "body"]
    <3>1. Head(conn[s].wire).part = "head" /\ call' = [call EXCEPT ![t] = c] /\ At(t, "head")
      BY <1>3, <2>5 DEF ReadHead
    <3>2. a \in Answers
      BY <2>2, <3>1 DEF Items
    <3>3. /\ c \in Calls /\ c.at \in {"handle", "body"}
          /\ c.depth = call[t].depth /\ c.strm = call[t].strm
      BY <1>1, <3>2 DEF Calls, Places, Using
    <3> HIDE DEF c
    <3>4. QED
      BY <1>1, <1>2, <2>3, <3>1, <3>3, MoveOn DEF Middle, Using
  <2>6. QED
    BY <2>4, <2>5
<1>4. CASE ReadBody(t) \/ ReadTrailer(t)
  <2>1. PICK place \in {"body", "trailer", "trailers", "handle"} :
          /\ call' = [call EXCEPT ![t] = [call[t] EXCEPT !.at = place]]
          /\ conn' \in [Sockets -> Conns]
          /\ \A r \in Sockets : conn'[r].fd = conn[r].fd
    <3>1. CASE \E part \in {"body", "data", "last", "field", "end"},
                  place \in {"body", "trailer", "trailers", "handle"} : TakeBody(t, part, place)
      BY <1>1, <3>1, TakeTypes
    <3>2. CASE GoTo(t, "handle") /\ UNCHANGED conn
      BY <3>2 DEF GoTo, TypeOK
    <3>3. QED
      BY <1>4, <3>1, <3>2 DEF ReadBody, ReadTrailer, TakeEnd, EndLate
  <2> DEFINE c == [call[t] EXCEPT !.at = place]
  <2>2. c \in Calls /\ c.at = place /\ c.depth = call[t].depth /\ c.strm = call[t].strm
    BY <1>1 DEF Calls, Places, Using
  <2>3. call' = [call EXCEPT ![t] = c]
    BY <2>1
  <2> HIDE DEF c
  <2>4. QED
    BY <1>1, <1>2, <2>1, <2>2, <2>3, MoveOn DEF Middle, Using
<1>5. CASE FailRead(t)
  <2> DEFINE c == [call[t] EXCEPT !.at = "done", !.ret = FALSE, !.answer = NoAnswer]
  <2>1. call' = [call EXCEPT ![t] = c] /\ conn' = conn
    BY <1>5 DEF FailRead, Return
  <2>2. c \in Calls /\ c.at = "done" /\ c.depth = call[t].depth /\ c.strm = call[t].strm
    BY <1>1 DEF Calls, Places, Using
  <2> HIDE DEF c
  <2>3. QED
    BY <1>1, <1>2, <2>1, <2>2, MoveOn DEF Middle, TypeOK, Using
<1>6. QED
  BY <1>3, <1>4, <1>5

------------------------------------------------------------------------------
(* A step that closes socket_, taken by the thread that has the mutex or,  *)
(* when there is none in flight, by any.                                   *)
LEMMA CloseStep ==
  ASSUME IInv, CloseSocket,
         \A u \in Threads : call'[u].at \notin Using
  PROVE  socket' = None /\ conn' \in [Sockets -> Conns] /\ OneOpen' /\ OwnStream'
<1>1. OneOpen' /\ socket' = None /\ conn' \in [Sockets -> Conns]
  BY ClosedAll, SocketAssumption DEF IInv, CloseSocket, OneOpen, TypeOK
<1>2. OwnStream'
  BY DEF OwnStream, At, Using
<1>3. QED
  BY <1>1, <1>2

(* Only the holder can be writing or reading. *)
LEMMA OthersOutside ==
  ASSUME Mutex, NEW t \in Threads, holder = t
  PROVE  \A u \in Threads \ {t} : call[u].at \in {"idle", "lock"}
BY DEF Mutex, At

LEMMA CallStep ==
  ASSUME IInv, NEW t \in Threads, Call(t)
  PROVE  IInv'
<1> USE DEF IInv
<1> DEFINE c == [call[t] EXCEPT !.at = "lock", !.left = MaxRedirects]
<1>1. call[t] \in Calls /\ call[t].at = "idle" /\ call' = [call EXCEPT ![t] = c]
  BY DEF Call, TypeOK, At
<1>2. c \in Calls /\ c.at = "lock" /\ c.depth = call[t].depth
  <2>1. MaxRedirects \in Int
    BY ClientLimitAssumption
  <2>2. QED
    BY <1>1, <2>1 DEF Calls, Places, Using
<1>3. UNCHANGED <<holder, socket, inFlight, conn>>
  BY DEF Call
<1> HIDE DEF c
<1>4. call'[t] = c /\ \A u \in Threads \ {t} : call'[u] = call[u]
  BY <1>1 DEF TypeOK
<1>5. TypeOK'
  BY <1>1, <1>2, <1>3 DEF TypeOK
<1>6. Mutex'
  BY <1>1, <1>2, <1>3, <1>4 DEF Mutex, At
<1>7. Counted'
  <2>1. holder # t
    BY <1>1 DEF Mutex, At
  <2>2. QED
    BY <1>3, <1>4, <2>1 DEF Counted, At
<1>8. OneOpen'
  BY <1>3 DEF OneOpen
<1>9. OwnStream'
  BY <1>2, <1>3, <1>4 DEF OwnStream, At, Using
<1>10. QED
  BY <1>5, <1>6, <1>7, <1>8, <1>9

LEMMA LockStep ==
  ASSUME IInv, NEW t \in Threads, Lock(t)
  PROVE  IInv'
<1> USE DEF IInv
<1> DEFINE c == [call[t] EXCEPT !.at = "begin", !.depth = @ + 1]
<1>1. /\ call[t] \in Calls /\ call[t].at = "lock" /\ call' = [call EXCEPT ![t] = c]
      /\ holder \in {None, t} /\ holder' = t
  BY DEF Lock, TypeOK, At
<1>2. c \in Calls /\ c.at = "begin" /\ c.depth = call[t].depth + 1 /\ call[t].depth \in Nat
  <2>1. call[t].depth \in Nat /\ call[t].depth + 1 \in Nat
    BY <1>1 DEF Calls
  <2>2. c \in Calls
    BY <1>1, <2>1 DEF Calls, Places, Using
  <2>3. c.at = "begin" /\ c.depth = call[t].depth + 1
    BY <1>1 DEF Calls
  <2>4. QED
    BY <2>1, <2>2, <2>3
<1>3. UNCHANGED <<socket, inFlight, conn>>
  BY DEF Lock
<1> HIDE DEF c
<1>4. call'[t] = c /\ \A u \in Threads \ {t} : call'[u] = call[u]
  BY <1>1 DEF TypeOK
<1>5. TypeOK'
  BY <1>1, <1>2, <1>3 DEF TypeOK
<1>6. t # None /\ \A u \in Threads : u # None
  BY ThreadAssumption
<1>7. Mutex'
  BY <1>1, <1>2, <1>4, <1>6 DEF Mutex, At
<1>8. Counted'
  <2>1. inFlight = call[t].depth
    <3>1. CASE holder = t
      BY <1>1, <3>1 DEF Counted, At
    <3>2. CASE holder = None
      BY <1>2, <1>6, <3>2 DEF Counted, Mutex
    <3>3. QED
      BY <1>1, <3>1, <3>2
  <2>2. QED
    BY <1>1, <1>2, <1>3, <1>4, <1>6, <2>1 DEF Counted, At
<1>9. OneOpen'
  BY <1>3 DEF OneOpen
<1>10. OwnStream'
  BY <1>2, <1>3, <1>4 DEF OwnStream, At, Using
<1>11. QED
  BY <1>5, <1>7, <1>8, <1>9, <1>10

(* The holder uses its connection, a new one or the old, or gives up.      *)
LEMMA BeginStep ==
  ASSUME IInv, NEW t \in Threads, Reuse(t) \/ Connect(t) \/ FailConnect(t)
  PROVE  IInv'
<1> USE DEF IInv
<1>1. call[t] \in Calls /\ call[t].at = "begin" /\ holder = t /\ holder' = t
  BY DEF Reuse, Connect, FailConnect, TypeOK, At, Mutex
<1>2. t # None
  BY ThreadAssumption
<1>3. ASSUME NEW s \in Sockets,
             call' = [call EXCEPT ![t] = [call[t] EXCEPT !.at = "write", !.strm = s]],
             socket' = s, inFlight' = inFlight + 1,
             conn' \in [Sockets -> Conns],
             \A r \in Sockets : conn'[r].fd # "free" <=> r = s
      PROVE  IInv'
  <2> DEFINE c == [call[t] EXCEPT !.at = "write", !.strm = s]
  <2>1. c \in Calls /\ c.at = "write" /\ c.depth = call[t].depth /\ c.strm = s
    BY <1>1 DEF Calls, Places, Using
  <2> HIDE DEF c
  <2>2. call'[t] = c /\ \A u \in Threads \ {t} : call'[u] = call[u]
    BY <1>3 DEF TypeOK, c
  <2>3. TypeOK'
    BY <1>1, <1>3, <2>1 DEF TypeOK, c
  <2>4. Mutex'
    BY <1>1, <2>1, <2>2 DEF Mutex, At
  <2>5. Counted'
    BY <1>1, <1>2, <1>3, <2>1, <2>2 DEF Counted, At, TypeOK, Calls
  <2>6. OneOpen'
    BY <1>3 DEF OneOpen
  <2>7. OwnStream'
    BY <1>1, <1>3, <2>1, <2>2, OthersOutside, SocketAssumption DEF OwnStream, At, Using
  <2>8. QED
    BY <2>3, <2>4, <2>5, <2>6, <2>7
<1>4. CASE Reuse(t)
  <2>1. socket \in Sockets
    BY <1>4 DEF Reuse, Usable, TypeOK
  <2>2. QED
    BY <1>3, <1>4, <2>1 DEF Reuse, TypeOK, OneOpen
<1>5. CASE Connect(t)
  <2>1. PICK s \in Sockets :
          /\ conn' = [Without(socket) EXCEPT ![s] = Fresh]
          /\ socket' = s
          /\ call' = [call EXCEPT ![t].at = "write", ![t].strm = s]
    BY <1>5 DEF Connect
  <2>2. /\ conn' \in [Sockets -> Conns]
        /\ \A r \in Sockets : conn'[r].fd # "free" <=> r = s
    BY <2>1, ClosedAll, ConnTypes
  <2>3. inFlight' = inFlight + 1
    BY <1>5 DEF Connect
  <2>4. call' = [call EXCEPT ![t] = [call[t] EXCEPT !.at = "write", !.strm = s]]
    BY <2>1 DEF TypeOK
  <2>5. QED
    BY <1>3, <2>1, <2>2, <2>3, <2>4
<1>6. CASE FailConnect(t)
  <2> DEFINE c == [call[t] EXCEPT !.at = "unlock", !.ret = FALSE, !.answer = NoAnswer]
  <2>1. call' = [call EXCEPT ![t] = c] /\ inFlight' = inFlight /\ CloseSocket
    BY <1>6 DEF FailConnect, Return
  <2>2. c \in Calls /\ c.at = "unlock" /\ c.depth = call[t].depth
    BY <1>1 DEF Calls, Places, Using
  <2> HIDE DEF c
  <2>3. call'[t] = c /\ \A u \in Threads \ {t} : call'[u] = call[u]
    BY <2>1 DEF TypeOK
  <2>4. \A u \in Threads : call'[u].at \notin Using
    BY <1>1, <2>2, <2>3, OthersOutside DEF Using
  <2>5. socket' = None /\ conn' \in [Sockets -> Conns] /\ OneOpen' /\ OwnStream'
    BY <2>1, <2>4, CloseStep
  <2>6. TypeOK'
    BY <1>1, <2>1, <2>2, <2>5 DEF TypeOK
  <2>7. Mutex'
    BY <1>1, <2>2, <2>3 DEF Mutex, At
  <2>8. Counted'
    BY <1>1, <1>2, <2>1, <2>2, <2>3 DEF Counted, At
  <2>9. QED
    BY <2>5, <2>6, <2>7, <2>8
<1>7. QED
  BY <1>4, <1>5, <1>6

(* The peer is done with: the connection may be closed, and redirects      *)
(* followed.                                                               *)
LEMMA HandleStep ==
  ASSUME IInv, NEW t \in Threads, Handle(t)
  PROVE  IInv'
<1> USE DEF IInv
<1> DEFINE c == [call[t] EXCEPT !.at = "follow"]
<1>1. /\ call[t] \in Calls /\ call[t].at = "handle" /\ holder = t
      /\ UNCHANGED <<holder, inFlight>> /\ call' = [call EXCEPT ![t] = c]
  BY DEF Handle, GoTo, TypeOK, At, Mutex
<1>2. c \in Calls /\ c.at = "follow" /\ c.depth = call[t].depth /\ c.strm = call[t].strm
  BY <1>1 DEF Calls, Places, Using
<1> HIDE DEF c
<1>3. call'[t] = c /\ \A u \in Threads \ {t} : call'[u] = call[u]
  BY <1>1 DEF TypeOK
<1>4. CASE UNCHANGED <<conn, socket>>
  BY <1>1, <1>2, <1>4, MoveOn DEF Middle, TypeOK, Using
<1>5. CASE CloseSocket
  <2>1. \A u \in Threads : call'[u].at \notin Using
    BY <1>1, <1>2, <1>3, OthersOutside DEF Using
  <2>2. socket' = None /\ conn' \in [Sockets -> Conns] /\ OneOpen' /\ OwnStream'
    BY <1>5, <2>1, CloseStep
  <2>3. TypeOK'
    BY <1>1, <1>2, <2>2 DEF TypeOK
  <2>4. Mutex' /\ Counted'
    BY <1>1, <1>2, <1>3 DEF Mutex, Counted, At
  <2>5. QED
    BY <2>2, <2>3, <2>4
<1>6. QED
  BY <1>4, <1>5 DEF Handle

LEMMA FollowStep ==
  ASSUME IInv, NEW t \in Threads, Follow(t)
  PROVE  IInv'
<1> USE DEF IInv
<1>1. /\ call[t] \in Calls /\ call[t].at = "follow" /\ holder = t
      /\ UNCHANGED <<holder, socket, inFlight, conn>>
  BY DEF Follow, TypeOK, At, Mutex
<1>2. CASE \E ret \in BOOLEAN : Return(t, ret, "done")
  <2>1. PICK ret \in BOOLEAN : call' = [call EXCEPT ![t].at = "done", ![t].ret = ret, ![t].answer = NoAnswer]
    BY <1>2 DEF Return
  <2> DEFINE c == [call[t] EXCEPT !.at = "done", !.ret = ret, !.answer = NoAnswer]
  <2>2. call' = [call EXCEPT ![t] = c]
    BY <2>1
  <2>3. c \in Calls /\ c.at = "done" /\ c.depth = call[t].depth /\ c.strm = call[t].strm
    BY <1>1 DEF Calls, Places, Using
  <2> HIDE DEF c
  <2>4. QED
    BY <1>1, <2>2, <2>3, MoveOn DEF Middle, TypeOK, Using
<1>3. CASE RedirectHere(t)
  <2> DEFINE c == [call[t] EXCEPT !.at = "lock", !.left = @ - 1, !.answer = NoAnswer]
  <2>1. call' = [call EXCEPT ![t] = c]
    BY <1>3 DEF RedirectHere
  <2>2. call[t].left - 1 \in Int
    BY <1>1 DEF Calls
  <2>3. c \in Calls
    BY <1>1, <2>2 DEF Calls, Places, Using
  <2>4. c.at = "lock" /\ c.depth = call[t].depth
    BY <1>1 DEF Calls
  <2> HIDE DEF c
  <2>5. call'[t] = c /\ \A u \in Threads \ {t} : call'[u] = call[u]
    BY <2>1 DEF TypeOK
  <2>6. TypeOK'
    BY <1>1, <2>1, <2>3 DEF TypeOK
  <2>7. Mutex' /\ Counted'
    BY <1>1, <2>4, <2>5 DEF Mutex, Counted, At
  <2>8. OneOpen' /\ OwnStream'
    BY <1>1, <2>4, <2>5 DEF OneOpen, OwnStream, At, Using
  <2>9. QED
    BY <2>6, <2>7, <2>8
<1>4. QED
  BY <1>2, <1>3 DEF Follow, RedirectElsewhere

LEMMA FinishStep ==
  ASSUME IInv, NEW t \in Threads, Finish(t)
  PROVE  IInv'
<1> USE DEF IInv
<1> DEFINE c == [call[t] EXCEPT !.at = "unlock"]
<1>1. /\ call[t] \in Calls /\ call[t].at = "done" /\ holder = t /\ holder' = t
      /\ inFlight' = inFlight - 1 /\ call' = [call EXCEPT ![t] = c]
  BY DEF Finish, GoTo, TypeOK, At, Mutex
<1>2. c \in Calls /\ c.at = "unlock" /\ c.depth = call[t].depth /\ c.depth \in Nat
  BY <1>1 DEF Calls, Places, Using
<1> HIDE DEF c
<1>3. call'[t] = c /\ \A u \in Threads \ {t} : call'[u] = call[u]
  BY <1>1 DEF TypeOK
<1>4. \A u \in Threads : call'[u].at \notin Using
  BY <1>1, <1>2, <1>3, OthersOutside DEF Using
<1>5. socket' \in Sockets \cup {None} /\ conn' \in [Sockets -> Conns] /\ OneOpen' /\ OwnStream'
  <2>1. CASE UNCHANGED <<conn, socket>>
    BY <1>4, <2>1 DEF TypeOK, OneOpen, OwnStream, At, Using
  <2>2. CASE CloseSocket
    BY <1>4, <2>2, CloseStep
  <2>3. QED
    BY <2>1, <2>2 DEF Finish
<1>6. TypeOK'
  BY <1>1, <1>2, <1>5 DEF TypeOK
<1>7. Mutex'
  BY <1>1, <1>2, <1>3 DEF Mutex, At
<1>8. Counted'
  <2>1. t # None
    BY ThreadAssumption
  <2>2. QED
    BY <1>1, <1>2, <1>3, <2>1 DEF Counted, At
<1>9. QED
  BY <1>5, <1>6, <1>7, <1>8

LEMMA UnlockStep ==
  ASSUME IInv, NEW t \in Threads, Unlock(t)
  PROVE  IInv'
<1> USE DEF IInv
<1>1. /\ call[t] \in Calls /\ call[t].at = "unlock" /\ holder = t
      /\ UNCHANGED <<socket, inFlight, conn>>
  BY DEF Unlock, TypeOK, At, Mutex
<1>2. call[t].depth \in Nat /\ call[t].depth > 0 /\ inFlight = call[t].depth - 1 /\ t # None
  BY <1>1, ThreadAssumption DEF Calls, Counted, Mutex, At
<1>3. CASE call[t].depth = 1
  <2>1. holder' = None /\ call' = [call EXCEPT ![t] = Idle]
    BY <1>3 DEF Unlock
  <2>2. Idle \in Calls /\ Idle.at = "idle" /\ Idle.depth = 0
    BY AnswerTypes DEF Idle, Calls, Places, Using
  <2>3. call'[t] = Idle /\ \A u \in Threads \ {t} : call'[u] = call[u]
    BY <2>1 DEF TypeOK
  <2>4. TypeOK'
    BY <1>1, <2>1, <2>2 DEF TypeOK
  <2>5. \A u \in Threads : u # None
    BY ThreadAssumption
  <2>6. Mutex'
    BY <1>1, <2>1, <2>2, <2>3, <2>5 DEF Mutex, At
  <2>7. Counted'
    BY <1>1, <1>2, <1>3, <2>1, <2>5 DEF Counted, At
  <2>8. OneOpen' /\ OwnStream'
    BY <1>1, <2>2, <2>3 DEF OneOpen, OwnStream, At, Using
  <2>9. QED
    BY <2>4, <2>6, <2>7, <2>8
<1>4. CASE call[t].depth # 1
  <2> DEFINE c == [call[t] EXCEPT !.at = "done", !.depth = @ - 1]
  <2>1. holder' = holder /\ call' = [call EXCEPT ![t] = c]
    BY <1>4 DEF Unlock
  <2>2. call[t].depth - 1 \in Nat
    BY <1>2
  <2>3. c \in Calls
    BY <1>1, <2>2 DEF Calls, Places, Using
  <2>4. c.at = "done" /\ c.depth = call[t].depth - 1
    BY <1>1 DEF Calls
  <2> HIDE DEF c
  <2>5. call'[t] = c /\ \A u \in Threads \ {t} : call'[u] = call[u]
    BY <2>1 DEF TypeOK
  <2>6. TypeOK'
    BY <1>1, <2>1, <2>3 DEF TypeOK
  <2>7. Mutex'
    BY <1>1, <1>2, <1>4, <2>1, <2>4, <2>5 DEF Mutex, At
  <2>8. Counted'
    BY <1>1, <1>2, <2>1, <2>4, <2>5 DEF Counted, At
  <2>9. OneOpen' /\ OwnStream'
    BY <1>1, <2>4, <2>5 DEF OneOpen, OwnStream, At, Using
  <2>10. QED
    BY <2>6, <2>7, <2>8, <2>9
<1>5. QED
  BY <1>3, <1>4

------------------------------------------------------------------------------
(* stop() closes socket_ only when there is no request in flight, and then *)
(* nobody writes or reads.                                                 *)
LEMMA StopStep ==
  ASSUME IInv, Stop
  PROVE  IInv'
<1> USE DEF IInv
<1>1. UNCHANGED <<holder, inFlight, call>>
  BY DEF Stop
<1>2. Mutex' /\ Counted'
  BY <1>1 DEF Mutex, Counted, At
<1>3. CASE inFlight > 0
  <2>1. /\ conn' = [s \in Sockets |-> IF s = socket THEN [conn[s] EXCEPT !.fd = "shut"] ELSE conn[s]]
        /\ socket' = socket
    BY <1>3 DEF Stop
  <2>2. TypeOK' /\ OneOpen'
    BY <1>1, <2>1 DEF TypeOK, OneOpen, Conns
  <2>3. OwnStream'
    BY <1>1, <2>1 DEF OwnStream, At, Using
  <2>4. QED
    BY <1>2, <2>2, <2>3
<1>4. CASE ~ (inFlight > 0)
  <2>1. CloseSocket
    BY <1>4 DEF Stop
  <2>2. ASSUME NEW u \in Threads, call[u].at \in Using
        PROVE  FALSE
    <3>1. holder = u /\ call[u].depth > 0 /\ inFlight = call[u].depth
      BY <2>2 DEF Mutex, Counted, At, Using
    <3>2. QED
      BY <1>4, <3>1
  <2>3. socket' = None /\ conn' \in [Sockets -> Conns] /\ OneOpen' /\ OwnStream'
    BY <1>1, <2>1, <2>2, CloseStep
  <2>4. TypeOK'
    BY <1>1, <2>3 DEF TypeOK
  <2>5. QED
    BY <1>2, <2>3, <2>4
<1>5. QED
  BY <1>3, <1>4

(* Peers open and close nothing. *)
LEMMA PeerStep ==
  ASSUME IInv, Peer
  PROVE  IInv'
<1> USE DEF IInv
<1>1. UNCHANGED <<holder, socket, inFlight, call>>
  BY DEF Peer
<1>2. /\ conn' \in [Sockets -> Conns]
      /\ \A r \in Sockets : conn'[r].fd = conn[r].fd
  <2>1. PICK s \in Sockets : Does(s)
    BY DEF Peer
  <2>2. conn[s] \in Conns
    BY DEF TypeOK
  <2>3. ASSUME NEW item \in Items, NEW asked \in {"none", "part", "whole", "body", "chunks", "end"},
               NEW owed \in BOOLEAN, Sends(s, item, asked, owed)
        PROVE  <1>2
    <3>1. Append(conn[s].wire, item) \in Seq(Items)
      BY <2>2 DEF Conns
    <3>2. conn' = [conn EXCEPT ![s].wire = Append(@, item), ![s].asked = asked, ![s].owed = owed]
      BY <2>3 DEF Sends
    <3>3. QED
      BY <2>2, <3>1, <3>2 DEF TypeOK, Conns
  <2>4. CASE Continue(s)
    BY <2>3, <2>4 DEF Continue, Items
  <2>5. CASE AnswerHead(s)
    <3>1. PICK a \in Answers : Sends(s, [part |-> "head", answer |-> a], Remainder(a), FALSE)
      BY <2>5 DEF AnswerHead
    <3>2. [part |-> "head", answer |-> a] \in Items
      BY DEF Items
    <3>3. Remainder(a) \in {"none", "body", "chunks", "end"}
      BY AnswerTypes DEF Remainder
    <3>4. QED
      BY <2>3, <3>1, <3>2, <3>3
  <2>6. CASE AnswerBody(s)
    BY <2>3, <2>6 DEF AnswerBody, Items
  <2>7. CASE SendData(s)
    BY <2>3, <2>7 DEF SendData, Items
  <2>8. CASE SendLast(s)
    BY <2>3, <2>8 DEF SendLast, Items
  <2>9. CASE SendField(s) \/ SendEnd(s)
    <3>1. conn[s].asked \in {"none", "part", "whole", "body", "chunks", "end"}
      BY <2>2 DEF Conns
    <3>2. QED
      BY <2>3, <2>9, <3>1 DEF SendField, SendEnd, Items
  <2>10. CASE Leave(s)
    <3>1. PICK wire \in {conn[s].wire, <<>>} :
            conn' = [conn EXCEPT ![s].gone = TRUE, ![s].asked = "none", ![s].owed = FALSE,
                                 ![s].wire = wire]
      BY <2>10 DEF Leave
    <3>2. wire \in Seq(Items)
      <4>1. <<>> \in Seq(Items) /\ conn[s].wire \in Seq(Items)
        BY <2>2 DEF Conns
      <4>2. QED
        BY <4>1
    <3>3. QED
      BY <2>2, <3>1, <3>2 DEF TypeOK, Conns
  <2>11. QED
    BY <2>1, <2>4, <2>5, <2>6, <2>7, <2>8, <2>9, <2>10 DEF Does
<1>3. TypeOK' /\ Mutex' /\ Counted'
  BY <1>1, <1>2 DEF TypeOK, Mutex, Counted, At
<1>4. OneOpen' /\ OwnStream'
  BY <1>1, <1>2 DEF OneOpen, OwnStream, At, Using
<1>5. QED
  BY <1>3, <1>4

LEMMA NextIInv == IInv /\ [Next]_vars => IInv'
<1> SUFFICES ASSUME IInv, [Next]_vars PROVE IInv'
  OBVIOUS
<1>1. CASE UNCHANGED vars
  BY <1>1 DEF vars, settings, bounds, IInv, TypeOK, Mutex, Counted, OneOpen, OwnStream, At, Using
<1>2. ASSUME NEW t \in Threads, Call(t) \/ Step(t) PROVE IInv'
  BY <1>2, CallStep, LockStep, BeginStep, WriteStep, ReadStep, HandleStep, FollowStep,
     FinishStep, UnlockStep DEF Step
<1>3. QED
  BY <1>1, <1>2, StopStep, PeerStep DEF Next

(* Every state of the client is well typed. *)
THEOREM TypeCorrect == Spec => []TypeOK
<1>1. IInv => TypeOK
  BY DEF IInv
<1>2. QED
  BY <1>1, InitIInv, NextIInv, PTL DEF Spec

(* While a request writes or reads, its socket is socket_ and is not       *)
(* closed, whatever other threads call and whenever they call stop(); and  *)
(* every connection but that of socket_ has been closed.                   *)
THEOREM RequestsOwnSockets == Spec => []SocketsOwned
<1>1. IInv => SocketsOwned
  BY DEF IInv, TypeOK, OneOpen, OwnStream, SocketsOwned, At, Using
<1>2. QED
  BY <1>1, InitIInv, NextIInv, PTL DEF Spec

------------------------------------------------------------------------------
(* What ends an answer: a head without a body, a body, a last chunk.       *)
Final(item) ==
  \/ item.part = "head" /\ item.answer.body = "none"
  \/ item.part \in {"body", "last"}

(* After the end of an answer come only the lines that end a chunked body, *)
(* until the next request.                                                 *)
Orderly(c) ==
  \A i \in 1 .. Len(c.wire) : Final(c.wire[i]) =>
    c.asked = "none" /\ \A j \in i + 1 .. Len(c.wire) : Stale(c.wire[j])

AllStale(c) == \A i \in 1 .. Len(c.wire) : Stale(c.wire[i])

(* Between requests nothing else is there, or the connection has ended.    *)
Settled(c) ==
  /\ AllStale(c)
  /\ c.asked = "none" \/ (c.wire = <<>> /\ (c.gone \/ c.fd = "shut"))

(* What holds of a connection when the holder of the mutex is in call c:   *)
(* only a request that reads a head or body, or has failed, has an answer. *)
Fits(d, c) ==
  /\ Orderly(d)
  /\ c.at = "write" => AllStale(d) /\ d.asked = "none"
  /\ c.at = "done" /\ c.ret => Settled(d)
  /\ c.at \notin {"write", "head", "body", "done"} => Settled(d)

Exchange ==
  socket # None =>
    /\ holder = None => Orderly(conn[socket]) /\ Settled(conn[socket])
    /\ \A t \in Threads : holder = t => Fits(conn[socket], call[t])

LEMMA StaleOrderly ==
  ASSUME NEW d, AllStale(d)
  PROVE  Orderly(d)
BY DEF AllStale, Orderly, Stale, Final

------------------------------------------------------------------------------
(* The steps of a peer, as they change the connection from d to e: it      *)
(* sends an item, or leaves.                                               *)
Sent(d, e, item) ==
  /\ d.fd = "open" /\ ~ d.gone
  /\ e.fd = d.fd /\ e.gone = d.gone /\ e.wire = Append(d.wire, item)
  /\ \/ d.asked # "none" /\ (Final(item) => e.asked = "none")
     \/ Stale(item) /\ e.asked = d.asked

Left(d, e) == e.fd = d.fd /\ e.gone /\ e.asked = "none" /\ e.wire \in {d.wire, <<>>}

LEMMA PeerOn ==
  ASSUME TypeOK, Peer, NEW s \in Sockets
  PROVE  \/ conn'[s] = conn[s]
         \/ \E item \in Items : Sent(conn[s], conn'[s], item)
         \/ Left(conn[s], conn'[s])
<1>1. PICK r \in Sockets : Does(r)
  BY DEF Peer
<1>2. conn[r] \in Conns
  BY DEF TypeOK
<1>3. ASSUME r # s PROVE conn'[s] = conn[s]
  BY <1>1, <1>3 DEF Does, Continue, AnswerHead, AnswerBody, SendData, SendLast, SendField, SendEnd,
     Leave, Sends, TypeOK
<1>4. ASSUME NEW item \in Items, NEW asked, NEW owed, Sends(r, item, asked, owed),
             \/ conn[r].asked # "none" /\ (Final(item) => asked = "none")
             \/ Stale(item) /\ asked = conn[r].asked
      PROVE  Sent(conn[r], conn'[r], item)
  BY <1>2, <1>4 DEF Sends, Sent, TypeOK, Conns
<1>5. CASE \/ Continue(r) \/ AnswerBody(r) \/ SendData(r) \/ SendLast(r)
           \/ SendField(r) \/ SendEnd(r)
  <2>1. PICK part \in {"continue", "body", "data", "last", "field", "end"},
             asked \in {"none", "part", "whole", "body", "chunks", "end"}, owed \in BOOLEAN :
          /\ Sends(r, [part |-> part], asked, owed)
          /\ \/ conn[r].asked # "none" /\ (part \in {"body", "last"} => asked = "none")
             \/ part \in {"field", "end"} /\ asked = conn[r].asked
    BY <1>2, <1>5 DEF Continue, Asked, AnswerBody, SendData, SendLast, SendField, SendEnd, TypeOK, Conns
  <2>2. [part |-> part] \in Items
    BY DEF Items
  <2>3. [part |-> part].part = part
    OBVIOUS
  <2>4. QED
    BY <1>3, <1>4, <2>1, <2>2, <2>3 DEF Final, Stale
<1>6. CASE AnswerHead(r)
  <2>1. PICK a \in Answers : Sends(r, [part |-> "head", answer |-> a], Remainder(a), FALSE)
    BY <1>6 DEF AnswerHead
  <2> DEFINE item == [part |-> "head", answer |-> a]
  <2>2. item \in Items /\ item.part = "head" /\ item.answer = a
    BY DEF Items
  <2>3. conn[r].asked # "none"
    BY <1>6 DEF AnswerHead, Asked
  <2>4. Final(item) => Remainder(a) = "none"
    BY <2>2 DEF Final, Remainder
  <2> HIDE DEF item
  <2>5. Sends(r, item, Remainder(a), FALSE)
    BY <2>1 DEF item
  <2>6. QED
    BY <1>3, <1>4, <2>2, <2>3, <2>4, <2>5
<1>7. CASE Leave(r)
  <2>1. PICK wire \in {conn[r].wire, <<>>} :
          conn' = [conn EXCEPT ![r].gone = TRUE, ![r].asked = "none", ![r].owed = FALSE,
                               ![r].wire = wire]
    BY <1>7 DEF Leave
  <2>2. QED
    BY <1>2, <1>3, <2>1 DEF Left, TypeOK, Conns
<1>8. QED
  BY <1>1, <1>5, <1>6, <1>7 DEF Does

(* A peer answers what was asked and nothing else.                         *)
LEMMA PeerKeeps ==
  ASSUME NEW d \in Conns, NEW e, Orderly(d),
         (\E item \in Items : Sent(d, e, item)) \/ Left(d, e)
  PROVE  /\ Orderly(e)
         /\ Settled(d) => Settled(e)
         /\ AllStale(d) /\ d.asked = "none" => AllStale(e) /\ e.asked = "none"
<1>1. CASE Left(d, e)
  BY <1>1 DEF Left, Orderly, Settled, AllStale
<1>2. ASSUME NEW item \in Items, Sent(d, e, item)
      PROVE  /\ Orderly(e)
             /\ Settled(d) => Settled(e)
             /\ AllStale(d) /\ d.asked = "none" => AllStale(e) /\ e.asked = "none"
  <2> DEFINE n == Len(d.wire)
  <2>1. d.wire \in Seq(Items) /\ n \in Nat
    BY DEF Conns
  <2>2. /\ Len(e.wire) = n + 1 /\ e.wire[n + 1] = item
        /\ \A i \in 1 .. n : e.wire[i] = d.wire[i]
    BY <1>2, <2>1 DEF Sent
  <2>3. AllStale(d) /\ Stale(item) => AllStale(e)
    BY <2>1, <2>2 DEF AllStale
  <2>4. Settled(d) => d.asked = "none"
    BY <1>2 DEF Settled, Sent
  <2>5. Stale(item) => ~ Final(item)
    BY DEF Stale, Final
  <2>6. ASSUME NEW i \in 1 .. n + 1, Final(e.wire[i])
        PROVE  e.asked = "none" /\ \A j \in i + 1 .. n + 1 : Stale(e.wire[j])
    <3>1. CASE i = n + 1
      BY <1>2, <2>1, <2>2, <2>5, <2>6, <3>1 DEF Sent
    <3>2. CASE i \in 1 .. n
      <4>1. d.asked = "none" /\ \A j \in i + 1 .. n : Stale(d.wire[j])
        BY <2>2, <2>6, <3>2 DEF Orderly
      <4>2. Stale(item) /\ e.asked = "none"
        BY <1>2, <4>1 DEF Sent
      <4>3. \A j \in i + 1 .. n : j \in 1 .. n
        BY <2>1, <3>2
      <4>4. \A j \in i + 1 .. n + 1 : j = n + 1 \/ j \in i + 1 .. n
        BY <2>1, <3>2
      <4>5. QED
        BY <2>2, <4>1, <4>2, <4>3, <4>4
    <3>3. QED
      BY <2>1, <3>1, <3>2
  <2>7. Orderly(e)
    BY <2>2, <2>6 DEF Orderly
  <2>8. d.asked = "none" => Stale(item) /\ e.asked = "none"
    BY <1>2 DEF Sent
  <2>9. QED
    BY <2>3, <2>4, <2>7, <2>8 DEF Settled
<1>3. QED
  BY <1>1, <1>2

LEMMA PeerExchange ==
  ASSUME IInv, Exchange, Peer
  PROVE  Exchange'
<1>1. UNCHANGED <<holder, socket, call>>
  BY DEF Peer
<1> SUFFICES ASSUME socket # None
             PROVE  /\ holder = None => Orderly(conn'[socket]) /\ Settled(conn'[socket])
                    /\ \A t \in Threads : holder = t => Fits(conn'[socket], call[t])
  BY <1>1 DEF Exchange, Fits, Orderly, AllStale, Settled
<1>2. socket \in Sockets /\ conn[socket] \in Conns
  BY DEF IInv, TypeOK
<1>3. CASE conn'[socket] = conn[socket]
  BY <1>3 DEF Exchange
<1>4. CASE (\E item \in Items : Sent(conn[socket], conn'[socket], item))
           \/ Left(conn[socket], conn'[socket])
  BY <1>2, <1>4, PeerKeeps DEF Exchange, Fits
<1>5. QED
  BY <1>2, <1>3, <1>4, PeerOn DEF IInv

(* A step of the holder, whatever it does to its connection.               *)
LEMMA HolderExchange ==
  ASSUME IInv, NEW t \in Threads, NEW c, holder' = t, call' = [call EXCEPT ![t] = c],
         socket' # None => Fits(conn'[socket'], c)
  PROVE  Exchange'
<1>1. call'[t] = c /\ t # None
  BY ThreadAssumption DEF IInv, TypeOK
<1> QED
  BY <1>1 DEF Exchange, Fits, Orderly, AllStale, Settled

(* A step that neither the holder takes nor its connection sees.           *)
LEMMA OthersExchange ==
  ASSUME Exchange, UNCHANGED <<holder, socket, conn>>,
         \A u \in Threads : holder = u => call'[u] = call[u]
  PROVE  Exchange'
BY DEF Exchange, Fits, Orderly, AllStale, Settled

LEMMA HolderFits ==
  ASSUME IInv, Exchange, NEW t \in Threads, call[t].at \notin {"idle", "lock"}
  PROVE  /\ holder = t /\ call[t] \in Calls
         /\ socket # None => socket \in Sockets /\ conn[socket] \in Conns /\ Fits(conn[socket], call[t])
BY DEF IInv, TypeOK, Mutex, At, Exchange

LEMMA CallExchange ==
  ASSUME IInv, Exchange, NEW t \in Threads, Call(t)
  PROVE  Exchange'
<1>1. holder # t
  BY DEF IInv, Mutex, Call, At
<1> QED
  BY <1>1, OthersExchange DEF Call, IInv, TypeOK

LEMMA LockExchange ==
  ASSUME IInv, Exchange, NEW t \in Threads, Lock(t)
  PROVE  Exchange'
<1> DEFINE c == [call[t] EXCEPT !.at = "begin", !.depth = @ + 1]
<1>1. call' = [call EXCEPT ![t] = c] /\ holder' = t /\ UNCHANGED <<socket, conn>>
  BY DEF Lock
<1>2. call[t].at = "lock" /\ c.at = "begin"
  BY DEF Lock, At, IInv, TypeOK, Calls
<1> HIDE DEF c
<1>3. socket # None => Orderly(conn[socket]) /\ Settled(conn[socket])
  BY <1>2 DEF Lock, Exchange, Fits
<1>4. socket' # None => Fits(conn'[socket'], c)
  BY <1>1, <1>2, <1>3 DEF Fits
<1> QED
  BY <1>1, <1>4, HolderExchange

(* A connection that is used again has no answer to a request before on    *)
(* it: is_socket_alive has seen that it has not ended.                     *)
LEMMA BeginExchange ==
  ASSUME IInv, Exchange, NEW t \in Threads, Reuse(t) \/ Connect(t) \/ FailConnect(t)
  PROVE  Exchange'
<1>1. call[t].at = "begin" /\ holder' = holder
  BY DEF Reuse, Connect, FailConnect, At
<1>2. holder' = t /\ call[t] \in Calls
  BY <1>1, HolderFits
<1>3. ASSUME NEW s \in Sockets, socket' = s, AllStale(conn'[s]) /\ conn'[s].asked = "none",
             call' = [call EXCEPT ![t] = [call[t] EXCEPT !.at = "write", !.strm = s]]
      PROVE  Exchange'
  <2> DEFINE c == [call[t] EXCEPT !.at = "write", !.strm = s]
  <2>1. c.at = "write" /\ call' = [call EXCEPT ![t] = c]
    BY <1>2, <1>3 DEF Calls
  <2> HIDE DEF c
  <2>2. Fits(conn'[socket'], c)
    BY <1>3, <2>1, StaleOrderly DEF Fits
  <2> QED
    BY <1>2, <2>1, <2>2, HolderExchange
<1>4. CASE Reuse(t)
  <2>1. socket \in Sockets /\ Alive(socket) /\ socket' = socket /\ conn' = conn
    BY <1>4 DEF Reuse, Usable, IInv, TypeOK
  <2>2. Settled(conn[socket])
    BY <1>1, <2>1, HolderFits, SocketAssumption DEF Fits
  <2>3. AllStale(conn'[socket]) /\ conn'[socket].asked = "none"
    BY <2>1, <2>2 DEF Settled, Alive
  <2>4. call' = [call EXCEPT ![t] = [call[t] EXCEPT !.at = "write", !.strm = socket]]
    BY <1>4 DEF Reuse, IInv, TypeOK
  <2> QED
    BY <1>3, <2>1, <2>3, <2>4
<1>5. CASE Connect(t)
  <2>1. PICK s \in Sockets :
          /\ conn' = [Without(socket) EXCEPT ![s] = Fresh]
          /\ socket' = s
          /\ call' = [call EXCEPT ![t].at = "write", ![t].strm = s]
    BY <1>5 DEF Connect
  <2>2. conn'[s] = Fresh
    BY <2>1 DEF Without
  <2>3. AllStale(conn'[s]) /\ conn'[s].asked = "none"
    BY <2>2 DEF Fresh, Closed, AllStale
  <2>4. call' = [call EXCEPT ![t] = [call[t] EXCEPT !.at = "write", !.strm = s]]
    BY <2>1 DEF IInv, TypeOK
  <2> QED
    BY <1>3, <2>1, <2>3, <2>4
<1>6. CASE FailConnect(t)
  <2> DEFINE c == [call[t] EXCEPT !.at = "unlock", !.ret = FALSE, !.answer = NoAnswer]
  <2>1. call' = [call EXCEPT ![t] = c] /\ socket' = None
    BY <1>6 DEF FailConnect, Return, CloseSocket
  <2> QED
    BY <1>2, <2>1, HolderExchange
<1> QED
  BY <1>4, <1>5, <1>6

LEMMA WriteExchange ==
  ASSUME IInv, Exchange, NEW t \in Threads, Write(t) \/ FailWrite(t)
  PROVE  Exchange'
<1>1. call[t].at = "write" /\ UNCHANGED <<holder, socket>> /\ call[t].strm = socket /\ socket # None
  BY DEF Write, FailWrite, At, IInv, OwnStream, Using
<1>2. /\ holder' = t /\ call[t] \in Calls /\ socket \in Sockets
      /\ conn[socket] \in Conns /\ conn \in [Sockets -> Conns] /\ Fits(conn[socket], call[t])
  BY <1>1, HolderFits DEF IInv, TypeOK
<1>3. AllStale(conn[socket])
  BY <1>1, <1>2 DEF Fits
<1>4. CASE Write(t)
  <2> DEFINE c == [call[t] EXCEPT !.at = "head"]
  <2>1. call' = [call EXCEPT ![t] = c] /\ c.at = "head"
    BY <1>2, <1>4 DEF Write, GoTo, Calls
  <2> HIDE DEF c
  <2>2. conn'[socket].wire = conn[socket].wire
    BY <1>1, <1>2, <1>4 DEF Write, Conns
  <2>3. Orderly(conn'[socket])
    BY <1>3, <2>2, StaleOrderly DEF AllStale
  <2>4. Fits(conn'[socket'], c)
    BY <1>1, <2>1, <2>3 DEF Fits
  <2> QED
    BY <1>2, <2>1, <2>4, HolderExchange
<1>5. CASE FailWrite(t)
  <2> DEFINE c == [call[t] EXCEPT !.at = "done", !.ret = FALSE, !.answer = NoAnswer]
  <2>1. call' = [call EXCEPT ![t] = c] /\ c.at = "done" /\ ~ c.ret
    BY <1>2, <1>5 DEF FailWrite, Return, Calls
  <2> HIDE DEF c
  <2>2. conn'[socket].wire = conn[socket].wire
    BY <1>1, <1>2, <1>5 DEF FailWrite, Conns
  <2>3. Orderly(conn'[socket])
    BY <1>3, <2>2, StaleOrderly DEF AllStale
  <2>4. Fits(conn'[socket'], c)
    BY <1>1, <2>1, <2>3 DEF Fits
  <2> QED
    BY <1>2, <2>1, <2>4, HolderExchange
<1> QED
  BY <1>4, <1>5

(* Once the end of an answer is taken, only stale lines are left.          *)
LEMMA TakenFirst ==
  ASSUME NEW d \in Conns, NEW e, Orderly(d), d.wire # <<>>,
         e.wire = Tail(d.wire), e.asked = d.asked, e.gone = d.gone, e.fd = d.fd
  PROVE  /\ Orderly(e)
         /\ Final(Head(d.wire)) => Settled(e)
         /\ Settled(d) => Settled(e)
<1> DEFINE n == Len(d.wire)
<1>1. d.wire \in Seq(Items) /\ n \in Nat /\ n # 0 /\ Head(d.wire) = d.wire[1]
  BY DEF Conns
<1>2. Len(e.wire) = n - 1 /\ \A i \in 1 .. n - 1 : e.wire[i] = d.wire[i + 1]
  BY <1>1
<1>3. \A i \in 1 .. n - 1 : i + 1 \in 1 .. n /\ i + 1 \in 2 .. n
  BY <1>1
<1>4. Orderly(e)
  <2> SUFFICES ASSUME NEW i \in 1 .. n - 1, Final(e.wire[i])
               PROVE  e.asked = "none" /\ \A j \in i + 1 .. n - 1 : Stale(e.wire[j])
    BY <1>2 DEF Orderly
  <2>1. d.asked = "none" /\ \A j \in i + 2 .. n : Stale(d.wire[j])
    <3>1. Final(d.wire[i + 1]) /\ i + 1 \in 1 .. n /\ (i + 1) + 1 = i + 2
      BY <1>1, <1>2, <1>3
    <3>2. QED
      BY <3>1 DEF Orderly
  <2>2. \A j \in i + 1 .. n - 1 : j \in 1 .. n - 1 /\ j + 1 \in i + 2 .. n
    BY <1>1
  <2>3. QED
    BY <1>2, <2>1, <2>2
<1>5. ASSUME Final(Head(d.wire)) PROVE Settled(e)
  <2>1. 1 \in 1 .. n /\ 1 + 1 = 2
    BY <1>1
  <2>2. d.asked = "none" /\ \A j \in 2 .. n : Stale(d.wire[j])
    BY <1>1, <1>5, <2>1 DEF Orderly
  <2>3. QED
    BY <1>2, <1>3, <2>2 DEF Settled, AllStale
<1>6. ASSUME Settled(d) PROVE Settled(e)
  <2>1. AllStale(e)
    BY <1>2, <1>3, <1>6 DEF Settled, AllStale
  <2>2. QED
    BY <1>6, <2>1 DEF Settled
<1>7. QED
  BY <1>4, <1>5, <1>6

LEMMA ReadExchange ==
  ASSUME IInv, Exchange, NEW t \in Threads,
         ReadHead(t) \/ ReadBody(t) \/ ReadTrailer(t) \/ FailRead(t)
  PROVE  Exchange'
<1>1. /\ call[t].at \in {"head", "body", "trailer", "trailers"} /\ UNCHANGED <<holder, socket>>
      /\ call[t].strm = socket /\ socket # None
  <2>1. call[t].at \in {"head", "body", "trailer", "trailers"} /\ UNCHANGED <<holder, socket>>
    BY DEF ReadHead, ReadBody, ReadTrailer, EndLate, FailRead, At
  <2> QED
    BY <2>1 DEF IInv, OwnStream, Using
<1>2. /\ holder' = t /\ call[t] \in Calls /\ socket \in Sockets
      /\ conn[socket] \in Conns /\ conn \in [Sockets -> Conns] /\ Fits(conn[socket], call[t])
  BY <1>1, HolderFits DEF IInv, TypeOK
<1> DEFINE d == conn[socket]
           e == conn'[socket]
<1>3. Orderly(d) /\ (call[t].at \in {"trailer", "trailers"} => Settled(d))
  BY <1>2 DEF Fits
(* A step that takes the first item. *)
<1>4. ASSUME d.wire # <<>>, conn' = [conn EXCEPT ![socket].wire = Tail(@)]
      PROVE  /\ Orderly(e)
             /\ Final(Head(d.wire)) => Settled(e)
             /\ Settled(d) => Settled(e)
  <2>1. e.wire = Tail(d.wire) /\ e.asked = d.asked /\ e.gone = d.gone /\ e.fd = d.fd
    BY <1>2, <1>4 DEF Conns
  <2> HIDE DEF d, e
  <2>2. d \in Conns
    BY <1>2 DEF d
  <2> QED
    BY <1>3, <1>4, <2>1, <2>2, TakenFirst
(* ... and goes on at place. *)
<1>5. ASSUME NEW place \in {"body", "trailer", "trailers", "handle"}, GoTo(t, place), Orderly(e),
             place = "body" \/ Settled(e)
      PROVE  Exchange'
  <2> DEFINE c == [call[t] EXCEPT !.at = place]
  <2>1. call' = [call EXCEPT ![t] = c] /\ c.at = place
    BY <1>2, <1>5 DEF GoTo, Calls
  <2> HIDE DEF c
  <2>2. Fits(conn'[socket'], c)
    BY <1>1, <1>5, <2>1 DEF Fits
  <2> QED
    BY <1>2, <2>1, <2>2, HolderExchange
<1>6. CASE ReadHead(t)
  <2> DEFINE h == Head(d.wire)
             c == [call[t] EXCEPT !.answer = h.answer,
                                  !.at = IF h.answer.body = "none" THEN "handle" ELSE "body"]
  <2>1. Orderly(e) /\ (Final(h) => Settled(e)) /\ call[t].at = "head"
    BY <1>1, <1>4, <1>6 DEF ReadHead, At
  <2>2. CASE UNCHANGED call
    <3>1. call' = [call EXCEPT ![t] = call[t]]
      BY <2>2 DEF IInv, TypeOK
    <3>2. Fits(conn'[socket'], call[t])
      BY <1>1, <2>1 DEF Fits
    <3> QED
      BY <1>2, <3>1, <3>2, HolderExchange
  <2>3. CASE h.part = "head" /\ call' = [call EXCEPT ![t] = c]
    <3>1. c.at = IF h.answer.body = "none" THEN "handle" ELSE "body"
      BY <1>2 DEF Calls
    <3> HIDE DEF c
    <3>2. Fits(conn'[socket'], c)
      BY <1>1, <2>1, <2>3, <3>1 DEF Fits, Final
    <3> QED
      BY <1>2, <2>3, <3>2, HolderExchange
  <2> QED
    BY <1>1, <1>6, <2>2, <2>3 DEF ReadHead
<1>7. CASE ReadBody(t)
  <2>1. CASE TakeBody(t, "data", "body")
    BY <1>1, <1>4, <1>5, <2>1 DEF TakeBody
  <2>2. CASE TakeBody(t, "body", "handle") \/ TakeBody(t, "last", "trailer")
    <3>1. Final(Head(d.wire)) /\ Orderly(e) /\ Settled(e)
      BY <1>1, <1>4, <2>2 DEF TakeBody, Final
    <3> QED
      BY <1>5, <2>2, <3>1 DEF TakeBody
  <2>3. CASE TakeEnd(t)
    <3>1. d.wire = <<>> /\ (d.gone \/ d.fd = "shut") /\ e = d /\ GoTo(t, "handle")
      BY <1>1, <2>3 DEF TakeEnd
    <3>2. Settled(e)
      BY <3>1 DEF Settled, AllStale
    <3> QED
      BY <1>3, <1>5, <3>1, <3>2
  <2> QED
    BY <1>7, <2>1, <2>2, <2>3 DEF ReadBody
<1>8. CASE ReadTrailer(t)
  <2>1. Settled(d)
    BY <1>3, <1>8 DEF ReadTrailer, EndLate, At
  <2>2. CASE EndLate(t)
    BY <1>3, <1>5, <2>1, <2>2 DEF EndLate
  <2>3. CASE TakeBody(t, "field", "trailers") \/ TakeBody(t, "end", "handle")
    <3>1. Orderly(e) /\ Settled(e)
      BY <1>1, <1>4, <2>1, <2>3 DEF TakeBody
    <3> QED
      BY <1>5, <2>3, <3>1 DEF TakeBody
  <2> QED
    BY <1>8, <2>2, <2>3 DEF ReadTrailer
<1>9. CASE FailRead(t)
  <2> DEFINE c == [call[t] EXCEPT !.at = "done", !.ret = FALSE, !.answer = NoAnswer]
  <2>1. call' = [call EXCEPT ![t] = c] /\ c.at = "done" /\ ~ c.ret /\ conn' = conn
    BY <1>2, <1>9 DEF FailRead, Return, Calls
  <2> HIDE DEF c
  <2>2. Fits(conn'[socket'], c)
    BY <1>1, <1>3, <2>1 DEF Fits
  <2> QED
    BY <1>2, <2>1, <2>2, HolderExchange
<1> QED
  BY <1>6, <1>7, <1>8, <1>9

(* Between the answer and the next request no answer is on the connection,   *)
(* or it is closed.                                                        *)
LEMMA RestExchange ==
  ASSUME IInv, Exchange, NEW t \in Threads, Handle(t) \/ Follow(t) \/ Finish(t)
  PROVE  Exchange'
<1>1. call[t].at \in {"handle", "follow", "done"} /\ holder' = holder
  BY DEF Handle, Follow, Finish, At
<1>2. /\ holder' = t /\ call[t] \in Calls
      /\ socket # None => socket \in Sockets /\ Fits(conn[socket], call[t])
  BY <1>1, HolderFits
<1>3. ASSUME NEW c, call' = [call EXCEPT ![t] = c], c.at \in {"follow", "done", "lock", "unlock"},
             UNCHANGED <<socket, conn>>, call[t].at = "done" => call[t].ret
      PROVE  Exchange'
  <2>1. socket' # None => Orderly(conn'[socket']) /\ Settled(conn'[socket'])
    BY <1>1, <1>2, <1>3 DEF Fits
  <2>2. socket' # None => Fits(conn'[socket'], c)
    BY <1>3, <2>1 DEF Fits
  <2> QED
    BY <1>2, <1>3, <2>2, HolderExchange
<1>4. CASE Handle(t)
  <2> DEFINE c == [call[t] EXCEPT !.at = "follow"]
  <2>1. call' = [call EXCEPT ![t] = c] /\ c.at = "follow" /\ call[t].at = "handle"
    BY <1>2, <1>4 DEF Handle, GoTo, Calls, At
  <2> HIDE DEF c
  <2>2. socket' = None \/ UNCHANGED <<socket, conn>>
    BY <1>4 DEF Handle, CloseSocket
  <2> QED
    BY <1>2, <1>3, <2>1, <2>2, HolderExchange
<1>5. CASE Follow(t)
  <2>1. UNCHANGED <<socket, conn>> /\ call[t].at = "follow"
    BY <1>5 DEF Follow, At
  <2>2. CASE \E ret \in BOOLEAN : Return(t, ret, "done")
    <3>1. PICK ret \in BOOLEAN : call' = [call EXCEPT ![t].at = "done", ![t].ret = ret, ![t].answer = NoAnswer]
      BY <2>2 DEF Return
    <3> DEFINE c == [call[t] EXCEPT !.at = "done", !.ret = ret, !.answer = NoAnswer]
    <3>2. call' = [call EXCEPT ![t] = c] /\ c.at = "done"
      BY <1>2, <3>1 DEF Calls
    <3> HIDE DEF c
    <3> QED
      BY <1>3, <2>1, <3>2
  <2>3. CASE RedirectHere(t)
    <3> DEFINE c == [call[t] EXCEPT !.at = "lock", !.left = @ - 1, !.answer = NoAnswer]
    <3>1. call' = [call EXCEPT ![t] = c] /\ c.at = "lock"
      BY <1>2, <2>3 DEF RedirectHere, Calls
    <3> HIDE DEF c
    <3> QED
      BY <1>3, <2>1, <3>1
  <2> QED
    BY <1>5, <2>2, <2>3 DEF Follow, RedirectElsewhere
<1>6. CASE Finish(t)
  <2> DEFINE c == [call[t] EXCEPT !.at = "unlock"]
  <2>1. call' = [call EXCEPT ![t] = c] /\ c.at = "unlock"
    BY <1>2, <1>6 DEF Finish, GoTo, Calls
  <2> HIDE DEF c
  <2>2. socket' = None \/ (UNCHANGED <<socket, conn>> /\ call[t].ret)
    BY <1>6 DEF Finish, CloseSocket
  <2> QED
    BY <1>2, <1>3, <2>1, <2>2, HolderExchange
<1> QED
  BY <1>4, <1>5, <1>6

LEMMA UnlockExchange ==
  ASSUME IInv, Exchange, NEW t \in Threads, Unlock(t)
  PROVE  Exchange'
<1>1. call[t].at = "unlock" /\ UNCHANGED <<socket, conn>>
  BY DEF Unlock, At
<1>2. /\ holder = t /\ call[t] \in Calls
      /\ socket # None => Orderly(conn[socket]) /\ Settled(conn[socket])
  BY <1>1, HolderFits DEF Fits
<1>3. CASE call[t].depth = 1
  <2>1. holder' = None /\ \A u \in Threads : holder' # u
    BY <1>3, ThreadAssumption DEF Unlock
  <2> QED
    BY <1>1, <1>2, <2>1 DEF Exchange, Settled, Orderly, AllStale
<1>4. CASE call[t].depth # 1
  <2> DEFINE c == [call[t] EXCEPT !.at = "done", !.depth = @ - 1]
  <2>1. call' = [call EXCEPT ![t] = c] /\ c.at = "done" /\ holder' = t
    BY <1>2, <1>4 DEF Unlock, Calls
  <2> HIDE DEF c
  <2>2. socket' # None => Fits(conn'[socket'], c)
    BY <1>1, <1>2, <2>1 DEF Fits
  <2> QED
    BY <2>1, <2>2, HolderExchange
<1> QED
  BY <1>3, <1>4

(* A connection that is shut down keeps what is on it, and is not reused   *)
(* before that is read.                                                    *)
LEMMA StopExchange ==
  ASSUME IInv, Exchange, Stop
  PROVE  Exchange'
<1>1. CASE socket = None \/ ~ (inFlight > 0)
  <2>1. socket' = None
    BY <1>1 DEF Stop, CloseSocket
  <2> QED
    BY <2>1 DEF Exchange
<1>2. CASE socket # None /\ inFlight > 0
  <2>1. UNCHANGED <<holder, socket, call>> /\ socket \in Sockets /\ conn[socket] \in Conns
    BY <1>2 DEF Stop, IInv, TypeOK
  <2>2. conn'[socket] = [conn[socket] EXCEPT !.fd = "shut"]
    BY <1>2, <2>1 DEF Stop
  <2>3. /\ conn'[socket].fd = "shut" /\ conn'[socket].wire = conn[socket].wire
        /\ conn'[socket].asked = conn[socket].asked /\ conn'[socket].gone = conn[socket].gone
    BY <2>1, <2>2 DEF Conns
  <2>4. /\ Orderly(conn[socket]) => Orderly(conn'[socket])
        /\ Settled(conn[socket]) => Settled(conn'[socket])
        /\ AllStale(conn[socket]) => AllStale(conn'[socket])
    BY <2>3 DEF Orderly, Settled, AllStale
  <2>5. /\ holder = None => Orderly(conn'[socket]) /\ Settled(conn'[socket])
        /\ \A t \in Threads : holder = t => Fits(conn'[socket], call[t])
    BY <1>2, <2>3, <2>4 DEF Exchange, Fits
  <2> QED
    BY <2>1, <2>5 DEF Exchange, Fits, Orderly, Settled, AllStale
<1> QED
  BY <1>1, <1>2

(* A request is written to a connection on which no answer to an earlier   *)
(* one is left, whatever requests failed, were cancelled or stopped before *)
(* it, and however late the end of a chunked body came.                    *)
THEOREM RequestsAreFresh == Spec => []FreshExchange
<1>1. Init => Exchange
  BY DEF Init, Exchange
<1>2. IInv /\ Exchange /\ [Next]_vars => Exchange'
  <2> SUFFICES ASSUME IInv, Exchange, [Next]_vars PROVE Exchange'
    OBVIOUS
  <2>1. CASE UNCHANGED vars
    BY <2>1, OthersExchange DEF vars
  <2>2. ASSUME NEW t \in Threads, Call(t) \/ Step(t) PROVE Exchange'
    BY <2>2, CallExchange, LockExchange, BeginExchange, WriteExchange, ReadExchange, RestExchange,
       UnlockExchange DEF Step
  <2> QED
    BY <2>1, <2>2, StopExchange, PeerExchange DEF Next
<1>3. IInv /\ Exchange => FreshExchange
  <2> SUFFICES ASSUME IInv, Exchange, NEW t \in Threads, At(t, "write")
               PROVE  AllStale(conn[call[t].strm]) /\ conn[call[t].strm].asked = "none"
    BY DEF FreshExchange, AllStale
  <2>1. holder = t /\ call[t].strm = socket /\ socket # None
    BY DEF IInv, Mutex, OwnStream, At, Using
  <2> QED
    BY <2>1 DEF Exchange, Fits, At
<1> QED
  BY <1>1, <1>2, <1>3, InitIInv, NextIInv, PTL DEF Spec
=============================================================================
