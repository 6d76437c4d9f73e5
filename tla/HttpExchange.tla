----------------------------- MODULE HttpExchange -----------------------------
(***************************************************************************)
(* One connection of httplib::Server: process_server_socket_core, which    *)
(* calls process_request while the connection is kept alive, and with it   *)
(* the reading of request line, headers and content, routing and writing.  *)
(*                                                                         *)
(* What a client sends is cut into pieces: request lines, header blocks,   *)
(* units of content and trailer lines.  process_request reads through a    *)
(* SocketStream of its own, whose buffer takes what there is, also of the  *)
(* next request, and is thrown away with it.                               *)
(***************************************************************************)
EXTENDS Integers, Sequences, FiniteSets

CONSTANTS
  Scripts,       \* the sequences of requests a client may send
  Patience,      \* does the client await each answer?  A set of BOOLEANs
  KeepAliveMax,  \* keep_alive_max_count_, 100 in the code
  PayloadMax,    \* payload_max_length_, in units of content
  Expectations,  \* what expect_100_continue_handler_ returns; 100 without one
  Bodies,        \* the kinds of body that handlers give their answers
  MaxAhead       \* bound: pieces on the wire when a trailer line is sent

(* A request, as far as the server tells requests apart *)
Requests == [
  method : {"GET", "HEAD", "POST", "DELETE", "TRACE"},
  line : BOOLEAN,     \* does parse_request_line accept the line?
  head : {"ok", "bad", "uri", "accept", "range"},  \* what is wrong with target and headers
  connection : {"keep", "close", "old"},  \* "old" is HTTP/1.0 without Keep-Alive
  expect : BOOLEAN,   \* Expect: 100-continue
  framing : {"none", "length", "chunked", "invalid"},
  size : Nat,         \* units of content
  media : {"plain", "form", "refused", "garbled"},  \* a form is urlencoded and over its limit
  early : BOOLEAN,    \* is it for a pre-routing or a file handler?
  match : BOOLEAN]    \* is there a handler for it?

ASSUME ScriptAssumption == Scripts \subseteq Seq(Requests)
ASSUME ExchangeAssumption ==
  /\ Patience \subseteq BOOLEAN
  /\ KeepAliveMax \in Nat \ {0}
  /\ PayloadMax \in Nat
  /\ Expectations \subseteq {100, 403, 417}
  /\ Bodies \subseteq {"whole", "provided"}
  /\ MaxAhead \in Nat

VARIABLES
  script,     \* the requests this client sends
  patient,    \* does it await each answer?
  sent,       \* the requests whose sending has begun
  unsent,     \* the pieces of the last of them that are still to be sent
  gone,       \* has the client closed the connection?
  wire,       \* pieces sent and not read
  buffer,     \* read_buff_ of the SocketStream
  pc,         \* where the worker is
  left,       \* count of process_server_socket_core
  current,    \* the request that is processed; 0 is none
  mixed,      \* has the line being read begun with content?
  got,        \* units of its content read
  stopping,   \* is svr_sock_ invalid?
  answers,    \* history: the answers sent
  continued,  \* history: requests for which "100 Continue" was sent
  lost,       \* history: requests thrown away with a buffer
  blemish     \* history: was content left unread, or the end of it late?

client == <<script, patient, sent, unsent, gone>>
worker == <<pc, left, current, mixed, got>>
history == <<answers, continued, lost, blemish>>
vars == <<client, wire, buffer, worker, stopping, history>>

R == script[current]

(* The pieces of the i-th request *)
Piece(kind, i) == [kind |-> kind, of |-> i]
Units(kind, n, i) == [j \in 1 .. n |-> Piece(kind, i)]
Lines(i) ==
  CASE ~ script[i].line -> <<Piece("line", i), Piece("rest", i)>>
    [] script[i].head = "bad" -> <<Piece("line", i), Piece("head", i), Piece("rest", i)>>
    [] OTHER -> <<Piece("line", i), Piece("head", i)>>
Content(i) ==
  CASE script[i].framing = "chunked" -> Units("chunk", script[i].size, i)
                                          \o <<Piece("last", i), Piece("end", i)>>
    [] script[i].framing = "none" -> <<>>
    [] OTHER -> Units("data", script[i].size, i)

Init ==
  /\ script \in Scripts
  /\ patient \in Patience
  /\ sent = 0
  /\ unsent = <<>>
  /\ gone = FALSE
  /\ wire = <<>>
  /\ buffer = <<>>
  /\ pc = "alive"
  /\ left = KeepAliveMax
  /\ current = 0
  /\ mixed = FALSE
  /\ got = 0
  /\ stopping = FALSE
  /\ answers = <<>>
  /\ continued = {}
  /\ lost = {}
  /\ blemish = {}

------------------------------------------------------------------------------
(* The client: it may stop anywhere and for ever.                          *)
NextRequest ==
  /\ ~ gone
  /\ pc # "closed"
  /\ unsent = <<>>
  /\ sent < Len(script)
  /\ patient => Len(answers) >= sent
  /\ sent' = sent + 1
  /\ unsent' = Lines(sent + 1) \o Content(sent + 1)
  /\ UNCHANGED <<script, patient, gone, wire, buffer, worker, stopping, history>>

AwaitsContinue ==
  /\ sent > 0
  /\ script[sent].expect
  /\ unsent # <<>>
  /\ Head(unsent).kind \in {"data", "chunk", "last"}
  /\ sent \notin continued
  /\ \A k \in DOMAIN answers : answers[k].to # sent

SendPiece ==
  /\ ~ gone
  /\ pc # "closed"
  /\ unsent # <<>>
  /\ ~ AwaitsContinue
  /\ wire' = Append(wire, Head(unsent))
  /\ unsent' = Tail(unsent)
  /\ UNCHANGED <<script, patient, sent, gone, buffer, worker, stopping, history>>

(* Before the empty line at the end of chunked content it may send trailer *)
(* lines, as many as it likes.                                             *)
SendField ==
  /\ ~ gone
  /\ pc # "closed"
  /\ unsent # <<>>
  /\ Head(unsent).kind = "end"
  /\ Len(wire) < MaxAhead
  /\ wire' = Append(wire, Piece("field", Head(unsent).of))
  /\ UNCHANGED <<script, patient, sent, unsent, gone, buffer, worker, stopping, history>>

Leave ==
  /\ ~ gone
  /\ gone' = TRUE
  /\ UNCHANGED <<script, patient, sent, unsent, wire, buffer, worker, stopping, history>>

Stop ==
  /\ ~ stopping
  /\ stopping' = TRUE
  /\ UNCHANGED <<client, wire, buffer, worker, history>>

------------------------------------------------------------------------------
(* SocketStream::read: what is buffered, or what has arrived, or a failure *)
(* when the connection is at its end or nothing arrives in time.           *)
Reading == pc \in {"line", "head", "content", "trailer", "trailers"}

Fill ==
  /\ Reading
  /\ buffer = <<>>
  /\ \E n \in 1 .. Len(wire) :
       /\ buffer' = SubSeq(wire, 1, n)
       /\ wire' = SubSeq(wire, n + 1, Len(wire))
  /\ UNCHANGED <<client, worker, stopping, history>>

Silence == buffer = <<>> /\ wire = <<>>

(* expect_content, and the method whose content is not read without a      *)
(* length.                                                                 *)
ExpectsContent ==
  \/ R.method \in {"POST", "DELETE"}
  \/ R.size > 0 /\ R.framing = "length"
  \/ R.framing = "chunked"
Unmeasured == R.method = "DELETE" /\ R.framing \in {"none", "chunked"}

(* The end of process_request: its buffer goes, and the loop goes on.      *)
Leftover == {i \in DOMAIN script : \E k \in DOMAIN buffer : buffer[k] = Piece("line", i)}
LeftUnread == Content(current) # <<>> /\ (R.early \/ ~ ExpectsContent \/ Unmeasured)

Return(ret, closed) ==
  /\ buffer' = <<>>
  /\ current' = 0
  /\ mixed' = FALSE
  /\ got' = 0
  /\ lost' = lost \cup Leftover
  /\ blemish' = blemish \cup
       (IF current # 0 /\ LeftUnread THEN {"unread"} ELSE {})
  /\ IF ret /\ ~ closed /\ left > 1
       THEN pc' = "alive" /\ left' = left - 1
       ELSE pc' = "closed" /\ UNCHANGED left

(* write_response_core: whether the answer says "Connection: close", and   *)
(* whether all of its body is written.  A provider that fails makes the    *)
(* write fail; one that is cut short because the server stops does not.    *)
(* The answer to a HEAD has no body.                                       *)
Written_Careless(body) ==
  {[cut |-> FALSE, ret |-> TRUE]} \cup
  (IF body = "provided" /\ R.method # "HEAD" THEN {[cut |-> TRUE, ret |-> TRUE]} ELSE {})
Written(body) ==
  {[cut |-> FALSE, ret |-> TRUE]} \cup
  (IF body = "provided" /\ R.method # "HEAD"
     THEN {[cut |-> TRUE, ret |-> stopping], [cut |-> TRUE, ret |-> FALSE]} ELSE {})

SaysClose(status, asked) == left = 1 \/ asked \/ status >= 400

Closing == current # 0 /\ R.connection # "keep" /\ R.head # "uri"

Respond(status, body, closed) ==
  \E w \in Written(body), ok \in BOOLEAN :
    /\ ~ ok => gone
    /\ answers' = Append(answers,
         [to |-> current, status |-> status, cut |-> w.cut,
          close |-> SaysClose(status, current # 0 /\ R.connection = "close")])
    /\ Return(w.ret /\ ok, closed)

------------------------------------------------------------------------------
(* keep_alive *)
Awake ==
  /\ pc = "alive"
  /\ wire # <<>> \/ gone
  /\ pc' = "line"
  /\ UNCHANGED <<client, wire, buffer, left, current, mixed, got, stopping, history>>

GiveUp ==
  /\ pc = "alive"
  /\ stopping \/ wire = <<>>
  /\ pc' = "closed"
  /\ UNCHANGED <<client, wire, buffer, left, current, mixed, got, stopping, history>>

(* getline, and parse_request_line: content has no end of line, and makes  *)
(* one line of itself and what follows it.                                 *)
ReadLine ==
  /\ pc = "line"
  /\ buffer # <<>>
  /\ LET p == Head(buffer) IN
       \/ /\ p.kind = "data"
          /\ mixed' = TRUE
          /\ buffer' = Tail(buffer)
          /\ UNCHANGED <<pc, left, current, got, history>>
       \/ /\ p.kind = "line" /\ script[p.of].line /\ ~ mixed
          /\ current' = p.of
          /\ pc' = "head"
          /\ buffer' = Tail(buffer)
          /\ UNCHANGED <<left, mixed, got, history>>
       \/ /\ p.kind # "data"
          /\ p.kind # "line" \/ ~ script[p.of].line \/ mixed
          /\ Respond(400, "whole", FALSE)
          /\ UNCHANGED continued
  /\ UNCHANGED <<client, wire, stopping>>

(* At the end of the connection an unfinished line is no request line.     *)
NoLine ==
  /\ pc = "line"
  /\ Silence
  /\ IF gone /\ mixed THEN Respond(400, "whole", FALSE)
                      ELSE Return(FALSE, TRUE) /\ UNCHANGED answers
  /\ UNCHANGED <<client, wire, stopping, continued>>

(* read_headers, and what process_request looks at next.                   *)
HeadStatus == CASE R.head = "bad" -> 400 [] R.head = "uri" -> 414
                [] R.head = "accept" -> 400 [] R.head = "range" -> 416 [] OTHER -> 200

BadHead ==
  /\ pc = "head"
  /\ buffer # <<>> \/ Silence
  /\ IF Silence THEN Respond(400, "whole", FALSE)
                ELSE R.head # "ok" /\ Respond(HeadStatus, "whole", Closing /\ R.head # "bad")
  /\ UNCHANGED <<client, wire, stopping, continued>>

(* Expect, and the beginning of routing.  A handler for Expect may refuse  *)
(* the request, or have 417 written and the request go on.                 *)
Route ==
  /\ pc' = IF ~ R.early /\ ExpectsContent THEN "content" ELSE "dispatch"
  /\ buffer' = Tail(buffer)
  /\ UNCHANGED <<left, current, mixed, got, lost>>

HeadRead == pc = "head" /\ buffer # <<>> /\ R.head = "ok"

ReadHead_Announce ==
  /\ HeadRead
  /\ ~ R.expect
  /\ answers' = Append(answers, [to |-> current, status |-> 200, cut |-> FALSE, close |-> FALSE])
  /\ Route
  /\ UNCHANGED <<client, wire, stopping, continued, blemish>>
ReadHead ==
  /\ HeadRead
  /\ ~ R.expect
  /\ Route
  /\ UNCHANGED <<client, wire, stopping, answers, continued, blemish>>

Expect_Late ==
  /\ HeadRead
  /\ R.expect
  /\ Route
  /\ continued' = IF ExpectsContent THEN continued ELSE continued \cup {current}
  /\ UNCHANGED <<client, wire, stopping, answers, blemish>>
Expect ==
  /\ HeadRead
  /\ R.expect
  /\ \/ /\ 100 \in Expectations
        /\ continued' = continued \cup {current}
        /\ Route
        /\ UNCHANGED <<answers, blemish>>
     \/ /\ 417 \in Expectations
        /\ answers' = Append(answers, [to |-> current, status |-> 417, cut |-> FALSE, close |-> FALSE])
        /\ Route
        /\ UNCHANGED <<continued, blemish>>
     \/ /\ 403 \in Expectations
        /\ Respond(403, "whole", TRUE)
        /\ UNCHANGED continued
  /\ UNCHANGED <<client, wire, stopping>>

------------------------------------------------------------------------------
(* read_content: what cannot be decoded is not read, nor that of a DELETE  *)
(* without a length; content of a known length is read, or skipped if it   *)
(* is too long; ...                                                        *)
ContentIs(framing) == pc = "content" /\ R.framing = framing
Done == pc' = "dispatch" /\ UNCHANGED <<left, current, mixed, got, history>>
Reject(status) == Respond(status, "whole", Closing) /\ UNCHANGED continued
Take == buffer # <<>> /\ buffer' = Tail(buffer)

RejectContent ==
  /\ pc = "content"
  /\ \/ R.media = "garbled" /\ Reject(400)
     \/ R.media = "refused" /\ ~ Unmeasured /\ Reject(415)
     \/ R.media \in {"plain", "form"} /\ R.framing = "invalid" /\ Reject(400)
  /\ UNCHANGED <<client, wire, stopping>>

SkipContent ==
  /\ pc = "content"
  /\ R.media # "garbled"
  /\ Unmeasured
  /\ Done
  /\ UNCHANGED <<client, wire, buffer, stopping>>

Readable == R.media \in {"plain", "form"} /\ ~ Unmeasured /\ R.framing # "invalid"

ReadLength_Short ==
  /\ ContentIs("length")
  /\ Readable
  /\ \/ got + 1 < R.size /\ Take /\ got' = got + 1 /\ UNCHANGED <<pc, left, current, mixed, history>>
     \/ got + 1 >= R.size /\ R.size <= PayloadMax /\ Done /\ UNCHANGED buffer
     \/ got + 1 >= R.size /\ R.size > PayloadMax /\ Reject(413)
     \/ got < R.size /\ Silence /\ Reject(IF R.size > PayloadMax THEN 413 ELSE 400)
  /\ UNCHANGED <<client, wire, stopping>>
ReadLength ==
  /\ ContentIs("length")
  /\ Readable
  /\ \/ got < R.size /\ Take /\ got' = got + 1 /\ UNCHANGED <<pc, left, current, mixed, history>>
     \/ got = R.size /\ R.size <= PayloadMax /\ Done /\ UNCHANGED buffer
     \/ got = R.size /\ R.size > PayloadMax /\ Reject(413)
     \/ got < R.size /\ Silence /\ Reject(IF R.size > PayloadMax THEN 413 ELSE 400)
  /\ UNCHANGED <<client, wire, stopping>>

(* ... chunks are read up to the one of size 0, or until there are too     *)
(* many; ...                                                               *)
ReadChunks_Patient ==
  /\ ContentIs("chunked")
  /\ Readable
  /\ buffer # <<>>
  /\ \/ /\ Head(buffer).kind = "chunk"
        /\ \/ got < PayloadMax /\ Take /\ got' = got + 1
              /\ UNCHANGED <<pc, left, current, mixed, history>>
           \/ got = PayloadMax /\ Reject(413)
     \/ /\ Head(buffer).kind = "last"
        /\ Take
        /\ pc' = "trailer"
        /\ UNCHANGED <<left, current, mixed, got, history>>
  /\ UNCHANGED <<client, wire, stopping>>
ReadChunks ==
  /\ ContentIs("chunked")
  /\ Readable
  /\ \/ /\ buffer # <<>>
        /\ Head(buffer).kind = "chunk"
        /\ \/ got < PayloadMax /\ Take /\ got' = got + 1
              /\ UNCHANGED <<pc, left, current, mixed, history>>
           \/ got = PayloadMax /\ Reject(413)
     \/ /\ buffer # <<>>
        /\ Head(buffer).kind = "last"
        /\ Take
        /\ pc' = "trailer"
        /\ UNCHANGED <<left, current, mixed, got, history>>
     \/ Silence /\ Reject(400)
  /\ UNCHANGED <<client, wire, stopping>>

(* ... behind it come trailer lines and an empty one.  That there is none  *)
(* is a success; that there is no more is a failure, and so is a line too  *)
(* long or one too many of those that the head has announced.  There is no *)
(* limit on others; ...                                                    *)
TakeTrailer(kind, place) ==
  /\ Take
  /\ Head(buffer).kind = kind
  /\ pc' = place
  /\ UNCHANGED <<left, current, mixed, got, history>>

MissTrailer ==
  /\ pc = "trailer"
  /\ Silence
  /\ pc' = "dispatch"
  /\ blemish' = blemish \cup {"late"}
  /\ UNCHANGED <<buffer, left, current, mixed, got, answers, continued, lost>>

ReadTrailer ==
  /\ pc \in {"trailer", "trailers"}
  /\ \/ TakeTrailer("field", "trailers")
     \/ TakeTrailer("end", "dispatch")
     \/ MissTrailer
     \/ buffer # <<>> /\ Head(buffer).kind = "field" /\ Reject(400)
     \/ pc = "trailers" /\ Silence /\ Reject(400)
  /\ UNCHANGED <<client, wire, stopping>>

(* ... and without either, everything up to the end of the connection.     *)
ReadAll ==
  /\ ContentIs("none")
  /\ Readable
  /\ \/ got < PayloadMax /\ Take /\ got' = got + 1 /\ UNCHANGED <<pc, left, current, mixed, history>>
     \/ got = PayloadMax /\ buffer # <<>> /\ Reject(413)
     \/ Silence /\ gone /\ Done /\ UNCHANGED buffer
     \/ Silence /\ ~ gone /\ Reject(400)
  /\ UNCHANGED <<client, wire, stopping>>

(* The handler: an early one, one that matches the path, or none; it may   *)
(* throw, and it chooses status and body.  A form that was read, and is    *)
(* too long for one, has none.                                             *)
LongForm == R.media = "form" /\ ~ R.early /\ ExpectsContent /\ ~ Unmeasured

Dispatch ==
  /\ pc = "dispatch"
  /\ IF LongForm THEN Respond(413, "whole", Closing)
     ELSE IF R.early \/ (R.match /\ R.method # "TRACE")
       THEN \E status \in {200, 416, 500, 503}, body \in Bodies :
              Respond(status, IF status = 416 THEN "whole" ELSE body, Closing)
       ELSE Respond(IF R.method = "TRACE" THEN 400 ELSE 404, "whole", Closing)
  /\ UNCHANGED <<client, wire, stopping, continued>>

------------------------------------------------------------------------------
ReadContent ==
  RejectContent \/ SkipContent \/ ReadLength \/ ReadChunks \/ ReadTrailer \/ ReadAll
Worker ==
  \/ Awake \/ GiveUp \/ Fill \/ ReadLine \/ NoLine \/ BadHead \/ ReadHead
  \/ Expect \/ ReadContent \/ Dispatch
Client == NextRequest \/ SendPiece \/ SendField \/ Leave

Next == Client \/ Stop \/ Worker

Spec == Init /\ [][Next]_vars

(* The worker runs, and every read ends, by its time limit if need be.     *)
FairSpec == Spec /\ WF_vars(Worker)

------------------------------------------------------------------------------
(* A client that awaits each answer gets, as its k-th answer, that to its  *)
(* k-th request, and none of its requests is thrown away with what was     *)
(* read ahead, as long as none was answered with an error, had content     *)
(* that is not read (for an early handler, the chunks of a DELETE, or what *)
(* a GET has of a length that is no number), or ended late.                *)
ErrorBefore(k) == \E j \in DOMAIN answers : j < k /\ answers[j].status >= 400
InStep ==
  patient /\ blemish = {} =>
    /\ ErrorBefore(Len(answers) + 1) \/ lost = {}
    /\ \A k \in DOMAIN answers :
         ErrorBefore(k) \/ answers[k].to = (IF script[k].line THEN k ELSE 0)

(* Whatever the client does, answers are in the order of the requests, and *)
(* no request is answered twice, but for one that was answered with 417;   *)
(* 0 stands for what is no request.                                        *)
AnswersInOrder ==
  \A j, k \in DOMAIN answers :
    j < k /\ answers[j].status # 417 /\ answers[j].to # 0 /\ answers[k].to # 0 => answers[j].to < answers[k].to

(* An answer that says "close" is the last one, unless it is an error; and *)
(* so is one whose body is cut short, unless stop() cut it: what a client  *)
(* takes for the rest of that body would be the next answer.               *)
LastIsLast ==
  \A k \in DOMAIN answers : k < Len(answers) =>
    /\ answers[k].close => answers[k].status >= 400
    /\ answers[k].cut => stopping

(* Server and client never wait for each other: not the one for content    *)
(* and the other for the permission to send it; and as long as nothing     *)
(* went wrong, not the one for anything and the other for the answer to    *)
(* all that it has sent, but for content that only the end of the          *)
(* connection ends, for which the server waits until its time limit.       *)
AwaitsAnswer == patient /\ unsent = <<>> /\ Len(answers) < sent
AwaitsPiece ==
  /\ pc = "alive" \/ Reading
  /\ Silence
  /\ pc = "content" => Readable /\ ~ (R.framing = "length" /\ got = R.size)

NoMutualWait ==
  /\ pc = "content" /\ Readable /\ AwaitsContinue => current # sent
  /\ blemish = {} /\ ~ ErrorBefore(Len(answers) + 1) /\ AwaitsAnswer /\ AwaitsPiece =>
       pc = "content" /\ R.framing = "none"

(* Whatever else the client sends or does not send, the worker is done     *)
(* with the connection in the end, unless the client sends trailer lines   *)
(* for ever.                                                               *)
ConversationEnds == <>(pc = "closed") \/ []<><<SendField>>_vars
==============================================================================
