------------------------------ MODULE HttpClient ------------------------------
(***************************************************************************)
(* httplib::ClientImpl: one client object that threads share.  send() lets *)
(* one call in at a time, with a recursive mutex, because a redirect makes *)
(* send() call itself; the connection is kept between calls if the program *)
(* asks for that; and stop() may be called by any thread at any time.      *)
(*                                                                         *)
(* socket_mutex_ is held for single steps only, and they are the steps     *)
(* below: also while it connects.  What a peer sends is cut into heads and *)
(* bodies; a body without a length comes in pieces, as chunks with a last  *)
(* one and trailer lines, or until the connection ends.                    *)
(***************************************************************************)
EXTENDS Integers, Sequences, FiniteSets

CONSTANTS
  Threads,       \* the threads that call Get, Post, ...
  Sockets,       \* the socket numbers of the process: a closed one is given again
  None,          \* INVALID_SOCKET, and no thread
  MaxRedirects,  \* redirect_count_ of a new request, 20 in the code
  MaxCalls,      \* bound: how many calls there are
  MaxStops,      \* bound: how often stop() is called
  MaxWire        \* bound: how much a peer has sent that is not read

ASSUME ThreadAssumption == IsFiniteSet(Threads) /\ None \notin Threads
ASSUME SocketAssumption == IsFiniteSet(Sockets) /\ None \notin Sockets
ASSUME ClientLimitAssumption == {MaxRedirects, MaxCalls, MaxStops, MaxWire} \subseteq Nat

(* Is the connection to be closed, how does the body end, where does it    *)
(* redirect to?  "nowhere" is a Location that cannot be read, or none.     *)
Answers ==
  [close : BOOLEAN, body : {"none", "sized", "chunked", "rest"},
   to : {"", "here", "there", "nowhere"}]
NoAnswer == [close |-> FALSE, body |-> "none", to |-> ""]

VARIABLES
  keepAlive,    \* keep_alive_
  follow,       \* follow_location_
  holder,       \* who has request_mutex_
  socket,       \* socket_
  inFlight,     \* socket_requests_in_flight_
  shouldClose,  \* socket_should_be_closed_when_request_is_done_
  call,         \* of each thread: where it is in send(), and its locals
  conn,         \* the connection behind each socket number
  calls,        \* how many calls there still are
  stops         \* how many calls of stop() there still are

settings == <<keepAlive, follow>>
bounds == <<calls, stops>>
vars == <<settings, holder, socket, inFlight, shouldClose, call, conn, bounds>>

(* depth counts the calls of send() on the stack, which differ in strm;    *)
(* ret is what the last of them to return returns; answer is forgotten     *)
(* when it has been followed or given up.                                  *)
Idle == [at |-> "idle", strm |-> None, left |-> 0, depth |-> 0, answer |-> NoAnswer, ret |-> FALSE]

(* asked: what the peer has of a request, and still owes of its answer;    *)
(* owed: has it still to end the chunked body of an answer?                *)
(* wire: what it has sent and is not read; gone: has it left?              *)
Closed == [fd |-> "free", asked |-> "none", owed |-> FALSE, wire |-> <<>>, gone |-> FALSE]
Fresh == [Closed EXCEPT !.fd = "open"]

Init ==
  /\ keepAlive \in BOOLEAN
  /\ follow \in BOOLEAN
  /\ holder = None
  /\ socket = None
  /\ inFlight = 0
  /\ shouldClose = FALSE
  /\ call = [t \in Threads |-> Idle]
  /\ conn = [s \in Sockets |-> Closed]
  /\ calls = MaxCalls
  /\ stops = MaxStops

------------------------------------------------------------------------------
At(t, place) == call[t].at = place
GoTo(t, place) == call' = [call EXCEPT ![t].at = place]
Return(t, value, place) ==
  call' = [call EXCEPT ![t].at = place, ![t].ret = value, ![t].answer = NoAnswer]

(* close_socket of socket_, which may be none.                             *)
Without(s) == [d \in Sockets |-> IF d = s THEN Closed ELSE conn[d]]
CloseSocket == conn' = Without(socket) /\ socket' = None

(* send(): a thread makes a request, and waits for the recursive mutex.    *)
Call(t) ==
  /\ At(t, "idle")
  /\ calls > 0
  /\ calls' = calls - 1
  /\ call' = [call EXCEPT ![t].at = "lock", ![t].left = MaxRedirects]
  /\ UNCHANGED <<settings, holder, socket, inFlight, shouldClose, conn, stops>>

Lock_Plain(t) ==
  /\ At(t, "lock")
  /\ holder = None
  /\ holder' = t
  /\ call' = [call EXCEPT ![t].at = "begin", ![t].depth = @ + 1]
  /\ UNCHANGED <<settings, socket, inFlight, shouldClose, conn, bounds>>
Lock(t) ==
  /\ At(t, "lock")
  /\ holder \in {None, t}
  /\ holder' = t
  /\ call' = [call EXCEPT ![t].at = "begin", ![t].depth = @ + 1]
  /\ UNCHANGED <<settings, socket, inFlight, shouldClose, conn, bounds>>

(* is_socket_alive: nothing can be read, or something other than the end.  *)
Alive(s) == conn[s].wire # <<>> \/ (conn[s].fd = "open" /\ ~ conn[s].gone)
Usable == socket # None /\ Alive(socket)

(* send_: the socket of the call before, if it is still alive ...          *)
Reuse(t) ==
  /\ At(t, "begin")
  /\ Usable
  /\ shouldClose' = FALSE
  /\ inFlight' = inFlight + 1
  /\ call' = [call EXCEPT ![t].at = "write", ![t].strm = socket]
  /\ UNCHANGED <<settings, holder, socket, conn, bounds>>

(* ... or a new one, for which the system may give the number of the old.  *)
Connect(t) ==
  /\ At(t, "begin")
  /\ ~ Usable
  /\ shouldClose' = FALSE
  /\ \E s \in Sockets :
       /\ Without(socket)[s].fd = "free"
       /\ conn' = [Without(socket) EXCEPT ![s] = Fresh]
       /\ socket' = s
       /\ call' = [call EXCEPT ![t].at = "write", ![t].strm = s]
  /\ inFlight' = inFlight + 1
  /\ UNCHANGED <<settings, holder, bounds>>

FailConnect(t) ==
  /\ At(t, "begin")
  /\ ~ Usable
  /\ shouldClose' = FALSE
  /\ CloseSocket
  /\ Return(t, FALSE, "unlock")
  /\ UNCHANGED <<settings, holder, inFlight, bounds>>

------------------------------------------------------------------------------
(* process_request: the request, line, headers and content.                *)
Write(t) ==
  /\ At(t, "write")
  /\ LET s == call[t].strm IN
       /\ conn[s].fd = "open"
       /\ conn' = [conn EXCEPT ![s].asked = IF conn[s].gone THEN @ ELSE "whole"]
  /\ GoTo(t, "head")
  /\ UNCHANGED <<settings, holder, socket, inFlight, shouldClose, bounds>>

(* An empty path, a content provider that gives up, a write that fails.    *)
FailWrite(t) ==
  /\ At(t, "write")
  /\ LET s == call[t].strm IN
       \E asked \in {conn[s].asked, "part"} :
         /\ asked = conn[s].asked \/ (conn[s].fd = "open" /\ ~ conn[s].gone)
         /\ conn' = [conn EXCEPT ![s].asked = asked]
  /\ Return(t, FALSE, "done")
  /\ UNCHANGED <<settings, holder, socket, inFlight, shouldClose, bounds>>

(* read_response_line and read_headers: "100 Continue" is not the answer,  *)
(* however often it comes.                                                 *)
ReadHead(t) ==
  /\ At(t, "head")
  /\ LET s == call[t].strm
         wire == conn[s].wire IN
       /\ wire # <<>>
       /\ conn' = [conn EXCEPT ![s].wire = Tail(@)]
       /\ \/ Head(wire).part = "continue" /\ UNCHANGED call
          \/ /\ Head(wire).part = "head"
             /\ LET answer == Head(wire).answer IN
                  call' = [call EXCEPT
                    ![t].answer = answer,
                    ![t].at = IF answer.body = "none" THEN "handle" ELSE "body"]
  /\ UNCHANGED <<settings, holder, socket, inFlight, shouldClose, bounds>>

(* read_content: the body has a length, or a last chunk, or is what comes  *)
(* before the end.                                                         *)
TakeBody(t, part, place) ==
  LET s == call[t].strm IN
    /\ conn[s].wire # <<>>
    /\ Head(conn[s].wire).part = part
    /\ conn' = [conn EXCEPT ![s].wire = Tail(@)]
    /\ GoTo(t, place)

TakeEnd(t) ==
  LET s == call[t].strm IN
    /\ conn[s].wire = <<>>
    /\ conn[s].gone \/ conn[s].fd = "shut"
    /\ GoTo(t, "handle")
    /\ UNCHANGED conn

ReadBody(t) ==
  /\ At(t, "body")
  /\ \/ call[t].answer.body = "sized" /\ TakeBody(t, "body", "handle")
     \/ call[t].answer.body \in {"chunked", "rest"} /\ TakeBody(t, "data", "body")
     \/ call[t].answer.body = "chunked" /\ TakeBody(t, "last", "trailer")
     \/ call[t].answer.body = "rest" /\ TakeEnd(t)
  /\ UNCHANGED <<settings, holder, socket, inFlight, shouldClose, bounds>>

(* After the last chunk come trailer lines and an empty one.  That nothing *)
(* comes in time, or the first line not as a whole, is a success; there is *)
(* no limit on lines that the answer's head has not announced.             *)
EndLate(t) == At(t, "trailer") /\ GoTo(t, "handle") /\ UNCHANGED conn

ReadTrailer(t) ==
  /\ \/ EndLate(t)
     \/ /\ At(t, "trailer") \/ At(t, "trailers")
        /\ TakeBody(t, "field", "trailers") \/ TakeBody(t, "end", "handle")
  /\ UNCHANGED <<settings, holder, socket, inFlight, shouldClose, bounds>>

(* The connection ends, the peer is silent until the timeout, what it has  *)
(* sent is no answer or a line too long, or the program's handler or       *)
(* receiver cancels it.                                                    *)
FailRead(t) ==
  /\ \/ call[t].at \in {"head", "body", "trailers"}
     \/ At(t, "trailer") /\ conn[call[t].strm].wire # <<>>
  /\ Return(t, FALSE, "done")
  /\ UNCHANGED <<settings, holder, socket, inFlight, shouldClose, conn, bounds>>

(* handle_request: the peer said that it closes the connection ...         *)
Handle(t) ==
  /\ At(t, "handle")
  /\ IF call[t].answer.close THEN CloseSocket ELSE UNCHANGED <<conn, socket>>
  /\ GoTo(t, "follow")
  /\ UNCHANGED <<settings, holder, inFlight, shouldClose, bounds>>

(* ... and redirect: there is a limit, and the Location must make sense.   *)
Redirects(t) == follow /\ call[t].answer.to # ""

Refuses(t) == call[t].left = 0 \/ call[t].answer.to = "nowhere"

(* To the same host with another send() of this client ...                 *)
RedirectHere(t) ==
  /\ call[t].answer.to = "here"
  /\ call' = [call EXCEPT ![t].at = "lock", ![t].left = @ - 1, ![t].answer = NoAnswer]

(* ... and to another one with a client of its own, made for the purpose.  *)
RedirectElsewhere(t) ==
  /\ call[t].answer.to = "there"
  /\ \E ret \in BOOLEAN : Return(t, ret, "done")

Follow(t) ==
  /\ At(t, "follow")
  /\ \/ ~ Redirects(t) /\ Return(t, TRUE, "done")
     \/ Redirects(t) /\ Refuses(t) /\ Return(t, FALSE, "done")
     \/ Redirects(t) /\ ~ Refuses(t) /\ (RedirectHere(t) \/ RedirectElsewhere(t))
  /\ UNCHANGED <<settings, holder, socket, inFlight, shouldClose, conn, bounds>>

(* The end of send_, and the close that it owes.                           *)
Finish_KeepFailed(t) ==
  /\ At(t, "done")
  /\ inFlight' = inFlight - 1
  /\ IF shouldClose \/ ~ keepAlive THEN CloseSocket ELSE UNCHANGED <<conn, socket>>
  /\ GoTo(t, "unlock")
  /\ UNCHANGED <<settings, holder, shouldClose, bounds>>
Finish_KeepStopped(t) ==
  /\ At(t, "done")
  /\ inFlight' = inFlight - 1
  /\ IF ~ keepAlive \/ ~ call[t].ret THEN CloseSocket ELSE UNCHANGED <<conn, socket>>
  /\ GoTo(t, "unlock")
  /\ UNCHANGED <<settings, holder, shouldClose, bounds>>
Finish(t) ==
  /\ At(t, "done")
  /\ inFlight' = inFlight - 1
  /\ IF shouldClose \/ ~ keepAlive \/ ~ call[t].ret
       THEN CloseSocket ELSE UNCHANGED <<conn, socket>>
  /\ GoTo(t, "unlock")
  /\ UNCHANGED <<settings, holder, shouldClose, bounds>>

(* send() returns, to the program or to the call whose redirect it is.     *)
Unlock(t) ==
  /\ At(t, "unlock")
  /\ IF call[t].depth = 1
       THEN holder' = None /\ call' = [call EXCEPT ![t] = Idle]
       ELSE /\ call' = [call EXCEPT ![t].at = "done", ![t].depth = @ - 1]
            /\ UNCHANGED holder
  /\ UNCHANGED <<settings, socket, inFlight, shouldClose, conn, bounds>>

(* stop(), of any thread: with a request in flight it shuts the connection *)
(* down, but leaves it to the request to close the socket.                 *)
Stop_Close ==
  /\ stops > 0
  /\ stops' = stops - 1
  /\ CloseSocket
  /\ UNCHANGED <<settings, holder, inFlight, shouldClose, call, calls>>
Stop ==
  /\ stops > 0
  /\ stops' = stops - 1
  /\ IF inFlight > 0
       THEN /\ conn' = [s \in Sockets |-> IF s = socket THEN [conn[s] EXCEPT !.fd = "shut"]
                                                        ELSE conn[s]]
            /\ shouldClose' = TRUE
            /\ UNCHANGED socket
       ELSE CloseSocket /\ UNCHANGED shouldClose
  /\ UNCHANGED <<settings, holder, inFlight, call, calls>>

------------------------------------------------------------------------------
(* The peer of a connection answers requests and nothing else, one after   *)
(* the other, and leaves when it likes; what it has sent may then be lost. *)
(* What comes after a shutdown is not received: it resets the connection.  *)
Sends(s, item, asked, owed) ==
  /\ conn[s].fd = "open"
  /\ ~ conn[s].gone
  /\ Len(conn[s].wire) < MaxWire
  /\ conn' = [conn EXCEPT ![s].wire = Append(@, item), ![s].asked = asked, ![s].owed = owed]

Asked(s) == conn[s].asked = "whole" /\ ~ conn[s].owed

Continue(s) == Asked(s) /\ Sends(s, [part |-> "continue"], "whole", FALSE)

(* What a head leaves the peer to send: nothing, a body, chunks, or pieces *)
(* until it leaves.                                                        *)
Remainder(answer) ==
  CASE answer.body = "none" -> "none"
    [] answer.body = "sized" -> "body"
    [] answer.body = "chunked" -> "chunks"
    [] answer.body = "rest" -> "end"

AnswerHead(s) ==
  /\ Asked(s)
  /\ \E answer \in Answers :
       Sends(s, [part |-> "head", answer |-> answer], Remainder(answer), FALSE)

AnswerBody(s) == conn[s].asked = "body" /\ Sends(s, [part |-> "body"], "none", FALSE)

SendData(s) ==
  conn[s].asked \in {"chunks", "end"} /\ Sends(s, [part |-> "data"], conn[s].asked, FALSE)

(* A peer may leave out the empty line that ends a chunked body.           *)
SendLast(s) ==
  /\ conn[s].asked = "chunks"
  /\ \E owed \in BOOLEAN : Sends(s, [part |-> "last"], "none", owed)

SendField(s) == conn[s].owed /\ Sends(s, [part |-> "field"], conn[s].asked, TRUE)
SendEnd(s) == conn[s].owed /\ Sends(s, [part |-> "end"], conn[s].asked, FALSE)

Leave(s) ==
  /\ conn[s].fd # "free"
  /\ ~ conn[s].gone
  /\ \E wire \in {conn[s].wire, <<>>} :
       conn' = [conn EXCEPT ![s].gone = TRUE, ![s].asked = "none", ![s].owed = FALSE,
                            ![s].wire = wire]

Does(s) ==
  \/ Continue(s) \/ AnswerHead(s) \/ AnswerBody(s) \/ SendData(s)
  \/ SendLast(s) \/ SendField(s) \/ SendEnd(s) \/ Leave(s)

Peer ==
  /\ \E s \in Sockets : Does(s)
  /\ UNCHANGED <<settings, holder, socket, inFlight, shouldClose, call, bounds>>

------------------------------------------------------------------------------
(* What a thread does once it has called. *)
Step(t) ==
  \/ Lock(t) \/ Reuse(t) \/ Connect(t) \/ FailConnect(t)
  \/ Write(t) \/ FailWrite(t) \/ ReadHead(t) \/ ReadBody(t) \/ ReadTrailer(t)
  \/ FailRead(t)
  \/ Handle(t) \/ Follow(t) \/ Finish(t) \/ Unlock(t)

Next == (\E t \in Threads : Call(t) \/ Step(t)) \/ Stop \/ Peer

(* Threads go on: connects, reads and writes have timeouts.  Peers need    *)
(* not, and nobody needs to call.                                          *)
Spec == Init /\ [][Next]_vars /\ \A t \in Threads : WF_vars(Step(t))

------------------------------------------------------------------------------
(* The socket of a request is not closed while its thread reads or writes  *)
(* it: its number may be given to another connection.  And no connection   *)
(* is left open that the client does not know of.                          *)
SocketsOwned ==
  /\ \A t \in Threads : call[t].at \in {"write", "head", "body", "trailer", "trailers"} =>
       call[t].strm = socket /\ conn[socket].fd # "free"
  /\ \A s \in Sockets : conn[s].fd # "free" => s = socket

(* A request is written to a connection on which no answer to an earlier   *)
(* one is left or still to come, so that a head that is read then is the   *)
(* head of its own answer: a request that failed, was cancelled or stopped *)
(* may leave part of an answer behind.  Only the lines after the last      *)
(* chunk of an earlier body may be there, if they came too late: they are  *)
(* no head, and the request fails.                                         *)
Stale(item) == item.part \in {"field", "end"}

FreshExchange ==
  \A t \in Threads : At(t, "write") =>
    LET c == conn[call[t].strm] IN
      c.asked = "none" /\ \A i \in 1 .. Len(c.wire) : Stale(c.wire[i])

(* A connection that stop() has shut down is closed in the end, by the     *)
(* request that uses it or by the one its redirect makes, although that    *)
(* one takes back the flag that stop() has set.  Its number may be that of *)
(* a new connection at once.                                               *)
ShutIsClosed ==
  \A s \in Sockets : conn[s].fd = "shut" ~> conn[s].fd # "shut"

(* Every call returns, however often peers redirect and whoever holds the  *)
(* mutex, unless a peer goes on for ever with what the code sets no limit  *)
(* to: interim answers, the body of an answer and lines after the last     *)
(* chunk.  A call that waits for the mutex of such a one waits for ever.   *)
GoesOn == Peer /\ \E s \in Sockets : Continue(s) \/ SendData(s) \/ SendField(s)

CallsEnd == (\A t \in Threads : At(t, "lock") ~> At(t, "idle")) \/ []<><<GoesOn>>_vars
==============================================================================
