-------------------------- MODULE HttpExchangeProofs --------------------------
(***************************************************************************)
(* What is proved of HttpExchange, for all requests, limits and numbers of *)
(* trailer lines: a client that awaits its answers gets the k-th to its    *)
(* k-th request, answers are in order, one that announces the end is the   *)
(* last, and server and client never wait for each other.                  *)
(***************************************************************************)
EXTENDS HttpExchange, TLAPS, SequenceTheorems

Kinds == {"line", "rest", "head", "data", "chunk", "last", "field", "end"}
Pieces == [kind : Kinds, of : Nat]
Answers == [to : Nat, status : Nat, cut : BOOLEAN, close : BOOLEAN]
InContent == {"content", "trailer", "trailers", "dispatch"}

TypeOK ==
  /\ script \in Seq(Requests)
  /\ patient \in BOOLEAN
  /\ sent \in 0 .. Len(script)
  /\ unsent \in Seq(Pieces)
  /\ gone \in BOOLEAN
  /\ wire \in Seq(Pieces)
  /\ buffer \in Seq(Pieces)
  /\ pc \in {"alive", "line", "head", "closed"} \cup InContent
  /\ left \in 1 .. KeepAliveMax
  /\ current \in 0 .. sent
  /\ mixed \in BOOLEAN
  /\ got \in Nat
  /\ stopping \in BOOLEAN
  /\ answers \in Seq(Answers)

(* What is known of the request that is processed, by where the worker is. *)
Stage ==
  /\ current # 0 <=> pc \in {"head"} \cup InContent
  /\ current # 0 => R.line
  /\ pc \in InContent => R.head = "ok"
  /\ pc = "content" => ~ R.early /\ ExpectsContent
  /\ pc \in {"trailer", "trailers"} =>
       ~ R.early /\ ExpectsContent /\ ~ Unmeasured /\ R.framing = "chunked"
  /\ pc \in {"alive", "closed"} => buffer = <<>>
  /\ pc \in {"alive", "line", "head"} => got = 0

(* What the client has begun to send and the worker has not taken yet. *)
Stream == (buffer \o wire) \o unsent

(* It is in the order of the requests, whose first piece is the line. *)
StreamOrder ==
  /\ \A i \in 1 .. Len(Stream) : Stream[i].of \in 1 .. sent
  /\ \A i, j \in 1 .. Len(Stream) : i < j =>
       /\ Stream[i].of <= Stream[j].of
       /\ Stream[j].kind = "line" => Stream[i].of < Stream[j].of

(* Lines that come are those of requests after any that was read, ... *)
LinesAhead ==
  \A i \in 1 .. Len(Stream) : Stream[i].kind = "line" =>
    /\ current < Stream[i].of
    /\ \A k \in DOMAIN answers : answers[k].to < Stream[i].of

(* ... and those are answered, all but the last once. *)
AnsweredOnce ==
  \A k \in DOMAIN answers :
    /\ answers[k].to <= sent
    /\ current # 0 => answers[k].to <= current
    /\ current # 0 /\ (pc = "head" \/ answers[k].status # 417) => answers[k].to < current

OrderInv == StreamOrder /\ LinesAhead /\ AnsweredOnce /\ AnswersInOrder

(* LastIsLast, and while the connection is open it holds of all answers. *)
Lasting ==
  \A k \in DOMAIN answers : k < Len(answers) \/ pc # "closed" =>
    /\ answers[k].close => answers[k].status >= 400
    /\ answers[k].cut => stopping

(* A client that waits for permission to send content has been answered. *)
Permitted ==
  pc \in InContent /\ R.expect =>
    current \in continued \/ \E k \in DOMAIN answers : answers[k].to = current

(* As long as nothing went wrong, a client that awaits each answer is at   *)
(* the request that the worker is at, which has taken so much of it.       *)
Clean ==
  /\ patient
  /\ blemish = {}
  /\ \A k \in DOMAIN answers : answers[k].status < 400

(* After chunks there may be any number of trailer lines before the last   *)
(* piece.                                                                  *)
Whole(i) == Lines(i) \o Content(i)
Remains(s, w, taken, fields) ==
  /\ Len(s) = Len(w) - taken + fields
  /\ \A i \in 1 .. Len(s) :
       s[i] = IF taken + i < Len(w) THEN w[taken + i]
              ELSE IF i < Len(s) THEN Piece("field", w[1].of)
              ELSE w[Len(w)]
Rest(taken) ==
  \E fields \in Nat :
    /\ fields = 0 \/ script[sent].framing = "chunked"
    /\ Remains(Stream, Whole(sent), taken, fields)

Progress ==
  /\ pc \in {"alive", "line"} => Rest(0)
  /\ pc = "head" => Rest(1)
  /\ pc = "content" => Rest(2 + got) /\ (R.framing = "chunked" => got <= R.size)
  /\ pc \in {"trailer", "trailers"} => Rest(Len(Whole(sent)) - 1)
  /\ pc = "dispatch" => LeftUnread \/ Stream = <<>>

Synchrony ==
  /\ lost = {}
  /\ \A k \in DOMAIN answers : k <= Len(script) /\ script[k].line /\ answers[k].to = k
  /\ pc # "closed" =>
       /\ ~ mixed
       /\ \/ sent = Len(answers) /\ Stream = <<>> /\ current = 0
          \/ sent = Len(answers) + 1 /\ current \in {0, sent} /\ Progress

IInv ==
  /\ TypeOK /\ Stage
  /\ OrderInv
  /\ Lasting /\ Permitted
  /\ Clean => Synchrony
  /\ InStep

------------------------------------------------------------------------------
(* The steps of the worker, by what they do to stream and answers.         *)
NotALine ==
  \/ mixed
  \/ buffer # <<>> /\ (Head(buffer).kind = "line" => ~ script[Head(buffer).of].line)
Answering ==
  /\ pc \in {"line", "head"} \cup InContent
  /\ \E status \in Nat, body \in {"whole", "provided"}, closed \in BOOLEAN :
       /\ Respond(status, body, closed)
       /\ status >= 400 \/ (pc = "dispatch" /\ closed = Closing)
  /\ pc = "line" => NotALine
  /\ UNCHANGED <<client, wire, stopping, continued>>

Hangup ==
  /\ pc = "line"
  /\ Return(FALSE, TRUE)
  /\ UNCHANGED <<client, wire, stopping, answers, continued>>
  /\ buffer = <<>>

Skip ==
  /\ pc = "line"
  /\ Take
  /\ Head(buffer).kind = "data"
  /\ mixed' = TRUE
  /\ UNCHANGED <<client, wire, pc, left, current, got, stopping, history>>

Begin ==
  /\ pc = "line"
  /\ Take
  /\ Head(buffer).kind = "line" /\ script[Head(buffer).of].line /\ ~ mixed
  /\ current' = Head(buffer).of
  /\ pc' = "head"
  /\ UNCHANGED <<client, wire, left, mixed, got, stopping, history>>

Refusal == [to |-> current, status |-> 417, cut |-> FALSE, close |-> FALSE]
Proceed ==
  /\ HeadRead
  /\ Route
  /\ answers' \in {answers, Append(answers, Refusal)}
  /\ R.expect => current \in continued' \/ answers' = Append(answers, Refusal)
  /\ UNCHANGED <<client, wire, stopping, blemish>>

Unit ==
  /\ pc = "content" /\ Take /\ got' = got + 1
  /\ \/ R.framing = "none"
     \/ R.framing = "length" /\ got < R.size
     \/ R.framing = "chunked" /\ Head(buffer).kind = "chunk"
  /\ UNCHANGED <<client, wire, pc, left, current, mixed, stopping, history>>

LastChunk ==
  /\ ContentIs("chunked") /\ Readable
  /\ Take /\ Head(buffer).kind = "last" /\ pc' = "trailer"
  /\ UNCHANGED <<client, wire, left, current, mixed, got, stopping, history>>

Complete ==
  /\ pc = "content" /\ pc' = "dispatch"
  /\ (R.framing = "length" /\ got = R.size) \/ R.framing = "none" \/ Unmeasured
  /\ UNCHANGED <<client, wire, buffer, left, current, mixed, got, stopping, history>>

ReadTrailing ==
  /\ pc \in {"trailer", "trailers"}
  /\ TakeTrailer("field", "trailers") \/ TakeTrailer("end", "dispatch") \/ MissTrailer
  /\ UNCHANGED <<client, wire, stopping>>

Step ==
  \/ NextRequest \/ SendPiece \/ SendField \/ Leave \/ Stop \/ Awake \/ GiveUp \/ Fill
  \/ Answering \/ Hangup \/ Skip \/ Begin \/ Proceed \/ Unit \/ LastChunk \/ Complete
  \/ ReadTrailing

(* Every step is one of these. *)
LEMMA Normal ==
  ASSUME TypeOK, Stage, Next
  PROVE  Step
<1> USE DEF Step
<1>0. current # 0 => R \in Requests
  BY DEF TypeOK, R
<1>12. ASSUME NEW status \in Nat, status >= 400, NEW closed \in BOOLEAN,
              pc \in {"line", "head"} \cup InContent, Respond(status, "whole", closed),
              pc = "line" => NotALine,
              UNCHANGED <<client, wire, stopping, continued>>
       PROVE  Answering
  <2>1. \E body \in {"whole", "provided"} :
          /\ Respond(status, body, closed)
          /\ status >= 400 \/ (pc = "dispatch" /\ closed = Closing)
    BY <1>12, Zenon
  <2> QED
    BY <1>12, <2>1, Zenon DEF Answering
<1>13. 400 \in Nat /\ 400 >= 400 /\ 403 \in Nat /\ 403 >= 400 /\ TRUE \in BOOLEAN /\ FALSE \in BOOLEAN
  OBVIOUS
<1>1. ASSUME ReadLine PROVE Step
  <2>0. buffer # <<>>
    BY <1>1 DEF ReadLine
  <2>1. CASE Head(buffer).kind = "data" /\ mixed' = TRUE /\ buffer' = Tail(buffer)
             /\ UNCHANGED <<pc, left, current, got, history>>
    BY <1>1, <2>1 DEF ReadLine, Skip, Take
  <2>2. CASE /\ Head(buffer).kind = "line" /\ script[Head(buffer).of].line /\ ~ mixed
             /\ current' = Head(buffer).of /\ pc' = "head" /\ buffer' = Tail(buffer)
             /\ UNCHANGED <<left, mixed, got, history>>
    BY <1>1, <2>2 DEF ReadLine, Begin, Take
  <2>3. CASE /\ Head(buffer).kind = "line" => (~ script[Head(buffer).of].line \/ mixed)
             /\ Respond(400, "whole", FALSE) /\ UNCHANGED continued
    <3>1. /\ pc \in {"line", "head"} \cup InContent
          /\ pc = "line" => NotALine
          /\ UNCHANGED <<client, wire, stopping, continued>>
      BY <1>1, <2>0, <2>3 DEF ReadLine, NotALine
    <3>2. Answering
      BY <1>12, <1>13, <2>3, <3>1, Zenon
    <3> QED
      BY <3>2
  <2> QED
    BY <1>1, <2>1, <2>2, <2>3, Zenon DEF ReadLine
<1>2. ASSUME NoLine PROVE Step
  <2>1. /\ pc \in {"line", "head"} \cup InContent /\ buffer = <<>>
        /\ UNCHANGED <<client, wire, stopping, continued>>
    BY <1>2 DEF NoLine, Silence
  <2>2. CASE mixed /\ Respond(400, "whole", FALSE)
    <3>1. Answering
      BY <1>12, <1>13, <2>1, <2>2, Zenon DEF NotALine
    <3> QED
      BY <3>1
  <2>3. CASE Return(FALSE, TRUE) /\ UNCHANGED answers
    BY <1>2, <2>1, <2>3 DEF NoLine, Hangup
  <2> QED
    BY <1>2, <2>2, <2>3 DEF NoLine
<1>3. ASSUME BadHead PROVE Step
  <2>1. CASE Silence
    <3>1. /\ pc \in {"line", "head"} \cup InContent /\ pc # "line"
          /\ UNCHANGED <<client, wire, stopping, continued>>
          /\ Respond(400, "whole", FALSE)
      BY <1>3, <2>1 DEF BadHead
    <3>2. Answering
      BY <1>12, <1>13, <3>1, Zenon
    <3> QED
      BY <3>2
  <2>2. CASE ~ Silence
    <3>1. R.head # "ok" /\ R \in Requests
      BY <1>0, <1>3, <2>2 DEF BadHead, Stage
    <3>2. HeadStatus \in Nat /\ HeadStatus >= 400
      BY <3>1 DEF HeadStatus, Requests
    <3> HIDE DEF HeadStatus
    <3>3. (Closing /\ R.head # "bad") \in BOOLEAN
      OBVIOUS
    <3> QED
      BY <1>3, <1>12, <2>2, <3>2, <3>3 DEF BadHead
  <2> QED
    BY <2>1, <2>2
<1>4. ASSUME ReadHead PROVE Step
  BY <1>4 DEF ReadHead, Proceed
<1>5. ASSUME Expect PROVE Step
  <2>1. CASE continued' = continued \cup {current} /\ Route /\ UNCHANGED <<answers, blemish>>
    BY <1>5, <2>1 DEF Expect, Proceed
  <2>2. CASE answers' = Append(answers, Refusal) /\ Route /\ UNCHANGED <<continued, blemish>>
    BY <1>5, <2>2 DEF Expect, Proceed, Refusal
  <2>3. CASE Respond(403, "whole", TRUE) /\ UNCHANGED continued
    <3>1. /\ pc \in {"line", "head"} \cup InContent /\ pc # "line"
          /\ UNCHANGED <<client, wire, stopping, continued>>
      BY <1>5, <2>3 DEF Expect, HeadRead
    <3>2. Answering
      BY <1>12, <1>13, <2>3, <3>1, Zenon
    <3> QED
      BY <3>2
  <2> QED
    BY <1>5, <2>1, <2>2, <2>3 DEF Expect, Refusal
<1>6. ASSUME NEW status \in {400, 413, 415}, pc \in InContent \ {"dispatch"}, Reject(status),
             UNCHANGED <<client, wire, stopping>>
      PROVE  Answering
  <2>1. Closing \in BOOLEAN
    BY DEF Closing
  <2> QED
    BY <1>6, <1>12, <2>1 DEF Reject, InContent
<1>7. ASSUME RejectContent \/ SkipContent PROVE Step
  BY <1>6, <1>7 DEF RejectContent, SkipContent, Done, Complete, InContent
<1>8. ASSUME ReadLength PROVE Step
  BY <1>6, <1>8 DEF ReadLength, ContentIs, Unit, Done, Complete, InContent
<1>9. ASSUME ReadChunks PROVE Step
  BY <1>6, <1>9 DEF ReadChunks, ContentIs, Unit, LastChunk, Take, InContent
<1>10. ASSUME ReadAll PROVE Step
  BY <1>6, <1>10 DEF ReadAll, ContentIs, Unit, Done, Complete, InContent
<1>14. ASSUME ReadTrailer PROVE Step
  BY <1>6, <1>14 DEF ReadTrailer, ReadTrailing, InContent
<1>11. ASSUME Dispatch PROVE Step
  <2>0. Closing \in BOOLEAN
    BY DEF Closing
  <2>1. ASSUME NEW status \in Nat, NEW body \in {"whole", "provided"}, Respond(status, body, Closing)
        PROVE  Answering
    BY <1>11, <2>0, <2>1 DEF Dispatch, Answering, InContent
  <2>2. \A body \in Bodies : body \in {"whole", "provided"}
    BY ExchangeAssumption
  <2> QED
    BY <1>11, <2>1, <2>2 DEF Dispatch
<1> QED
  BY <1>1, <1>2, <1>3, <1>4, <1>5, <1>7, <1>8, <1>9, <1>10, <1>11, <1>14
     DEF Next, Client, Worker, ReadContent

(* What an answer says, and how process_request returns with it. *)
LEMMA Response ==
  ASSUME TypeOK, Stage, NEW status \in Nat, NEW body, NEW closed \in BOOLEAN,
         Respond(status, body, closed)
  PROVE  \E a \in Answers :
           /\ answers' = Append(answers, a)
           /\ a.to = current /\ a.status = status
           /\ a.close => status >= 400 \/ left = 1 \/ (current # 0 /\ R.connection = "close")
           /\ pc' = "closed" \/ (pc' = "alive" /\ ~ closed /\ left > 1 /\ (a.cut => stopping))
           /\ left' \in 1 .. KeepAliveMax
           /\ buffer' = <<>> /\ current' = 0 /\ mixed' = FALSE /\ got' = 0
           /\ lost' = lost \cup Leftover
           /\ blemish' = blemish \cup (IF current # 0 /\ LeftUnread THEN {"unread"} ELSE {})
<1> DEFINE asked == current # 0 /\ R.connection = "close"
<1>1. PICK w \in Written(body), ok \in BOOLEAN :
        /\ answers' = Append(answers, [to |-> current, status |-> status, cut |-> w.cut,
                                       close |-> SaysClose(status, asked)])
        /\ Return(w.ret /\ ok, closed)
  BY DEF Respond
<1> DEFINE a == [to |-> current, status |-> status, cut |-> w.cut, close |-> SaysClose(status, asked)]
<1>2. w.cut \in BOOLEAN /\ w.ret \in BOOLEAN /\ (w.cut /\ w.ret => stopping)
  <2>1. w \in {[cut |-> FALSE, ret |-> TRUE],
               [cut |-> TRUE, ret |-> stopping], [cut |-> TRUE, ret |-> FALSE]}
    BY DEF Written
  <2>2. stopping \in BOOLEAN
    BY DEF TypeOK
  <2>3. \/ w.cut = FALSE /\ w.ret = TRUE
        \/ w.cut = TRUE /\ w.ret = stopping
        \/ w.cut = TRUE /\ w.ret = FALSE
    BY <2>1
  <2> QED
    BY <2>2, <2>3, Zenon
<1>3. SaysClose(status, asked) \in BOOLEAN
  BY DEF SaysClose
<1>4. SaysClose(status, asked) => status >= 400 \/ left = 1 \/ asked
  BY DEF SaysClose
<1>5. a \in Answers
  BY <1>2, <1>3 DEF TypeOK, Answers
<1>6. \/ pc' = "closed" /\ left' = left
      \/ pc' = "alive" /\ w.ret /\ ~ closed /\ left > 1 /\ left' = left - 1
  BY <1>1, <1>2, Zenon DEF Return
<1>7. left' \in 1 .. KeepAliveMax
  BY <1>6, ExchangeAssumption DEF TypeOK
<1>8. /\ buffer' = <<>> /\ current' = 0 /\ mixed' = FALSE /\ got' = 0
      /\ lost' = lost \cup Leftover
      /\ blemish' = blemish \cup (IF current # 0 /\ LeftUnread THEN {"unread"} ELSE {})
  BY <1>1 DEF Return
<1> QED
  <2>1. a.to = current /\ a.status = status /\ a.cut = w.cut /\ a.close = SaysClose(status, asked)
    OBVIOUS
  <2>2. answers' = Append(answers, a)
    BY <1>1
  <2> HIDE DEF a
  <2> QED
    BY <1>2, <1>4, <1>5, <1>6, <1>7, <1>8, <2>1, <2>2, Zenon
------------------------------------------------------------------------------
LEMMA Concatenated ==
  ASSUME NEW s \in Seq(Pieces), NEW t \in Seq(Pieces)
  PROVE  /\ s \o t \in Seq(Pieces)
         /\ Len(s) \in Nat /\ Len(t) \in Nat
         /\ Len(s \o t) = Len(s) + Len(t)
         /\ \A i \in 1 .. Len(s) : (s \o t)[i] = s[i]
         /\ \A i \in 1 .. Len(t) : (s \o t)[Len(s) + i] = t[i]
         /\ \A i \in 1 .. Len(s) + Len(t) :
              i \in 1 .. Len(s) \/ \E j \in 1 .. Len(t) : i = Len(s) + j
<1>1. Len(s) \in Nat /\ Len(t) \in Nat
  BY LenProperties
<1>2. /\ s \o t \in Seq(Pieces)
      /\ Len(s \o t) = Len(s) + Len(t)
      /\ \A i \in 1 .. Len(s) + Len(t) : (s \o t)[i] = IF i <= Len(s) THEN s[i] ELSE t[i - Len(s)]
  BY ConcatProperties
<1>3. \A i \in 1 .. Len(t) : (s \o t)[Len(s) + i] = t[i]
  BY <1>1, <1>2
<1>4. \A i \in 1 .. Len(s) : (s \o t)[i] = s[i]
  BY <1>1, <1>2
<1>5. ASSUME NEW i \in 1 .. Len(s) + Len(t), i \notin 1 .. Len(s)
      PROVE  \E j \in 1 .. Len(t) : i = Len(s) + j
  <2>1. i - Len(s) \in 1 .. Len(t) /\ i = Len(s) + (i - Len(s))
    BY <1>1, <1>5
  <2> QED
    BY <2>1
<1> QED
  BY <1>1, <1>2, <1>3, <1>4, <1>5, Zenon

(* What the content of a request consists of. *)
LEMMA ContentParts ==
  ASSUME TypeOK, NEW i \in 1 .. Len(script)
  PROVE  /\ Content(i) \in Seq(Pieces)
         /\ \A j \in 1 .. Len(Content(i)) :
              /\ Content(i)[j].of = i /\ Content(i)[j].kind # "line"
              /\ Content(i)[j].kind = "end" =>
                   j = Len(Content(i)) /\ script[i].framing = "chunked"
         /\ script[i].framing = "none" => Len(Content(i)) = 0
         /\ script[i].framing = "length" => Len(Content(i)) = script[i].size
         /\ script[i].framing = "chunked" =>
              /\ Len(Content(i)) = script[i].size + 2
              /\ \A j \in 1 .. script[i].size : Content(i)[j].kind = "chunk"
              /\ Content(i)[script[i].size + 1].kind = "last"
              /\ Content(i)[script[i].size + 2].kind = "end"
<1> DEFINE n == script[i].size
<1>1. script[i] \in Requests /\ i \in Nat
  BY DEF TypeOK
<1>2. n \in Nat /\ script[i].framing \in {"none", "length", "chunked", "invalid"}
  BY <1>1 DEF Requests
<1> HIDE DEF n
<1>3. ASSUME NEW kind \in Kinds
      PROVE  /\ Units(kind, n, i) \in Seq(Pieces)
             /\ Len(Units(kind, n, i)) = n
             /\ \A j \in 1 .. n : Units(kind, n, i)[j] = Piece(kind, i)
  <2>1. Piece(kind, i) \in Pieces
    BY <1>1 DEF Piece, Pieces
  <2>2. Units(kind, n, i) \in [1 .. n -> Pieces]
    BY <2>1 DEF Units
  <2>3. Units(kind, n, i) \in Seq(Pieces)
    BY <1>2, <2>2, SeqDef
  <2>4. Len(Units(kind, n, i)) = n
    BY <1>2, <2>2, <2>3, LenProperties
  <2> QED
    BY <2>3, <2>4 DEF Units
<1>4. CASE script[i].framing = "none"
  BY <1>4 DEF Content
<1>5. CASE script[i].framing \in {"length", "invalid"}
  <2>1. Content(i) = Units("data", n, i)
    BY <1>5 DEF Content, n
  <2> QED
    BY <1>3, <1>5, <2>1 DEF Piece, Kinds, n
<1>6. CASE script[i].framing = "chunked"
  <2> DEFINE U == Units("chunk", n, i)
             E == <<Piece("last", i), Piece("end", i)>>
  <2>1. Content(i) = U \o E
    BY <1>6 DEF Content, n
  <2>2. E \in Seq(Pieces) /\ Len(E) = 2 /\ E[1] = Piece("last", i) /\ E[2] = Piece("end", i)
    BY <1>1 DEF Piece, Pieces, Kinds
  <2>3. U \in Seq(Pieces) /\ Len(U) = n /\ \A j \in 1 .. n : U[j] = Piece("chunk", i)
    BY <1>3 DEF Kinds
  <2> HIDE DEF U, E
  <2>4. /\ U \o E \in Seq(Pieces)
        /\ Len(U \o E) = n + 2
        /\ \A j \in 1 .. n : (U \o E)[j] = Piece("chunk", i)
        /\ (U \o E)[n + 1] = Piece("last", i) /\ (U \o E)[n + 2] = Piece("end", i)
    <3>1. /\ U \o E \in Seq(Pieces)
          /\ Len(U \o E) = n + 2
          /\ \A j \in 1 .. n : (U \o E)[j] = U[j]
          /\ \A j \in 1 .. 2 : (U \o E)[n + j] = E[j]
      <4>1. /\ U \o E \in Seq(Pieces)
            /\ Len(U \o E) = Len(U) + Len(E)
            /\ \A j \in 1 .. Len(U) : (U \o E)[j] = U[j]
            /\ \A j \in 1 .. Len(E) : (U \o E)[Len(U) + j] = E[j]
        BY <2>2, <2>3, Concatenated
      <4>2. Len(U) = n /\ Len(E) = 2
        BY <2>2, <2>3
      <4> QED
        BY <4>1, <4>2, Zenon
    <3>2. 1 \in 1 .. 2 /\ 2 \in 1 .. 2
      OBVIOUS
    <3> QED
      BY <2>2, <2>3, <3>1, <3>2
  <2>5. \A j \in 1 .. n + 2 : j \in 1 .. n \/ j = n + 1 \/ j = n + 2
    BY <1>2
  <2>6. \A kind \in Kinds : Piece(kind, i).kind = kind /\ Piece(kind, i).of = i
    BY DEF Piece
  <2>7. script[i].size = n
    BY DEF n
  <2> QED
    BY <1>6, <2>1, <2>4, <2>5, <2>6, <2>7 DEF Kinds
<1> QED
  BY <1>2, <1>4, <1>5, <1>6

(* A request begins with its line; without errors the content is behind    *)
(* line and header block.                                                  *)
LEMMA RequestParts ==
  ASSUME TypeOK, NEW i \in 1 .. Len(script)
  PROVE  /\ Whole(i) \in Seq(Pieces)
         /\ Len(Whole(i)) >= 2
         /\ Whole(i)[1].kind = "line"
         /\ \A j \in 1 .. Len(Whole(i)) :
              /\ Whole(i)[j].of = i
              /\ Whole(i)[j].kind = "line" => j = 1
              /\ Whole(i)[j].kind = "end" => j = Len(Whole(i)) /\ script[i].framing = "chunked"
         /\ script[i].framing = "chunked" => Whole(i)[Len(Whole(i))].kind = "end"
         /\ script[i].line /\ script[i].head = "ok" =>
              /\ Len(Whole(i)) = 2 + Len(Content(i))
              /\ \A j \in 1 .. Len(Content(i)) : Whole(i)[2 + j] = Content(i)[j]
<1> DEFINE C == Content(i)
           L == Lines(i)
<1> DEFINE chunked == script[i].framing = "chunked"
<1>1. /\ C \in Seq(Pieces)
      /\ \A j \in 1 .. Len(C) : /\ C[j].of = i /\ C[j].kind # "line"
                                /\ C[j].kind = "end" => j = Len(C) /\ chunked
      /\ chunked => Len(C) >= 2 /\ C[Len(C)].kind = "end"
  <2>1. script[i] \in Requests
    BY DEF TypeOK
  <2>2. script[i].size \in Nat
    BY <2>1 DEF Requests
  <2> QED
    BY <2>2, ContentParts
<1>2. /\ L \in Seq(Pieces) /\ Len(L) >= 2 /\ L[1].kind = "line"
      /\ \A j \in 1 .. Len(L) : L[j].of = i /\ (L[j].kind = "line" => j = 1) /\ L[j].kind # "end"
  <2>1. i \in Nat
    BY DEF TypeOK
  <2>2. \A kind \in Kinds :
          Piece(kind, i) \in Pieces /\ Piece(kind, i).kind = kind /\ Piece(kind, i).of = i
    BY <2>1 DEF Piece, Pieces
  <2> DEFINE p == Piece("line", i)  h == Piece("head", i)  r == Piece("rest", i)
  <2>3. L \in {<<p, r>>, <<p, h>>, <<p, h, r>>}
    BY DEF Lines
  <2>4. /\ p \in Pieces /\ h \in Pieces /\ r \in Pieces
        /\ p.of = i /\ h.of = i /\ r.of = i
        /\ p.kind = "line" /\ h.kind = "head" /\ r.kind = "rest"
    BY <2>2 DEF Kinds
  <2> HIDE DEF p, h, r, L
  <2>5. CASE L = <<p, r>>
    BY <2>4, <2>5
  <2>6. CASE L = <<p, h>>
    BY <2>4, <2>6
  <2>7. CASE L = <<p, h, r>>
    BY <2>4, <2>7
  <2> QED
    BY <2>3, <2>5, <2>6, <2>7
<1>3. script[i].line /\ script[i].head = "ok" => Len(L) = 2
  BY DEF Lines
<1> HIDE DEF C, L, chunked
<1>4. /\ L \o C \in Seq(Pieces)
      /\ Len(L) \in Nat /\ Len(C) \in Nat
      /\ Len(L \o C) = Len(L) + Len(C)
      /\ \A j \in 1 .. Len(L) : (L \o C)[j] = L[j]
      /\ \A j \in 1 .. Len(C) : (L \o C)[Len(L) + j] = C[j]
      /\ \A j \in 1 .. Len(L) + Len(C) : j \in 1 .. Len(L) \/ \E k \in 1 .. Len(C) : j = Len(L) + k
  BY <1>1, <1>2, Concatenated
<1>5. Whole(i) = L \o C /\ Content(i) = C
  BY DEF Whole, L, C
<1>6. \A j \in 1 .. Len(L) + Len(C) :
        /\ (L \o C)[j].of = i
        /\ (L \o C)[j].kind = "line" => j = 1
        /\ (L \o C)[j].kind = "end" => j = Len(L) + Len(C) /\ chunked
  <2> TAKE j \in 1 .. Len(L) + Len(C)
  <2>1. CASE j \in 1 .. Len(L)
    BY <1>2, <1>4, <2>1
  <2>2. ASSUME NEW k \in 1 .. Len(C), j = Len(L) + k
        PROVE  /\ (L \o C)[j].of = i /\ (L \o C)[j].kind # "line"
               /\ (L \o C)[j].kind = "end" => j = Len(L) + Len(C) /\ chunked
    BY <1>1, <1>4, <2>2
  <2> QED
    BY <1>4, <2>1, <2>2
<1>7. (L \o C)[1].kind = "line" /\ Len(L \o C) >= 2
  BY <1>2, <1>4
<1>9. chunked => (L \o C)[Len(L \o C)].kind = "end"
  BY <1>1, <1>4
<1>10. Len(L \o C) = Len(L) + Len(C)
  BY <1>4
<1>11. chunked <=> script[i].framing = "chunked"
  BY DEF chunked
<1>8. Len(L) = 2 => Len(L \o C) = 2 + Len(C) /\ \A j \in 1 .. Len(C) : (L \o C)[2 + j] = C[j]
  BY <1>4
<1>12. \A j \in 1 .. Len(L \o C) :
         /\ (L \o C)[j].of = i
         /\ (L \o C)[j].kind = "line" => j = 1
         /\ (L \o C)[j].kind = "end" => j = Len(L \o C) /\ chunked
  BY <1>6, <1>10, Zenon
<1>13. /\ L \o C \in Seq(Pieces)
       /\ script[i].line /\ script[i].head = "ok" =>
            Len(L \o C) = 2 + Len(C) /\ \A j \in 1 .. Len(C) : (L \o C)[2 + j] = C[j]
  BY <1>3, <1>4, <1>8, Zenon
<1> QED
  BY <1>5, <1>7, <1>9, <1>11, <1>12, <1>13, Zenon

------------------------------------------------------------------------------
(* How the steps move the stream.                                          *)
LEMMA Joined ==
  ASSUME NEW b \in Seq(Pieces), NEW w \in Seq(Pieces), NEW u \in Seq(Pieces)
  PROVE  /\ (b \o w) \o u \in Seq(Pieces)
         /\ Len((b \o w) \o u) = Len(b) + Len(w) + Len(u)
         /\ \A i \in 1 .. Len(b) + Len(w) + Len(u) :
              ((b \o w) \o u)[i] = IF i <= Len(b) THEN b[i]
                                   ELSE IF i <= Len(b) + Len(w) THEN w[i - Len(b)]
                                   ELSE u[i - (Len(b) + Len(w))]
<1>1. b \o w \in Seq(Pieces)
  BY Concatenated
<1> DEFINE s == b \o w
<1>2. /\ s \in Seq(Pieces)
      /\ Len(b) \in Nat /\ Len(w) \in Nat /\ Len(s) = Len(b) + Len(w)
      /\ \A i \in 1 .. Len(b) : s[i] = b[i]
      /\ \A i \in 1 .. Len(w) : s[Len(b) + i] = w[i]
  BY <1>1, Concatenated
<1> HIDE DEF s
<1>3. /\ s \o u \in Seq(Pieces) /\ Len(u) \in Nat
      /\ Len(s \o u) = Len(s) + Len(u)
      /\ \A i \in 1 .. Len(s) : (s \o u)[i] = s[i]
      /\ \A i \in 1 .. Len(u) : (s \o u)[Len(s) + i] = u[i]
  BY <1>2, Concatenated
<1> SUFFICES /\ s \o u \in Seq(Pieces)
             /\ Len(s \o u) = Len(b) + Len(w) + Len(u)
             /\ \A i \in 1 .. Len(b) + Len(w) + Len(u) :
                  (s \o u)[i] = IF i <= Len(b) THEN b[i]
                               ELSE IF i <= Len(b) + Len(w) THEN w[i - Len(b)]
                               ELSE u[i - (Len(b) + Len(w))]
  BY DEF s
<1>4. ASSUME NEW i \in 1 .. Len(b) + Len(w) + Len(u)
      PROVE  (s \o u)[i] = IF i <= Len(b) THEN b[i]
                          ELSE IF i <= Len(b) + Len(w) THEN w[i - Len(b)]
                          ELSE u[i - (Len(b) + Len(w))]
  <2>1. CASE i <= Len(b)
    BY <1>2, <1>3, <2>1
  <2>2. CASE i > Len(b) /\ i <= Len(b) + Len(w)
    <3>1. i - Len(b) \in 1 .. Len(w) /\ i = Len(b) + (i - Len(b)) /\ i \in 1 .. Len(s)
      BY <1>2, <2>2
    <3> QED
      BY <1>2, <1>3, <2>2, <3>1
  <2>3. CASE i > Len(b) + Len(w)
    <3>1. i - Len(s) \in 1 .. Len(u) /\ i = Len(s) + (i - Len(s))
      BY <1>2, <1>3, <2>3
    <3> QED
      BY <1>2, <1>3, <2>3, <3>1
  <2> QED
    BY <1>2, <1>3, <2>1, <2>2, <2>3
<1> QED
  BY <1>2, <1>3, <1>4

(* The first n pieces of it are gone. *)
Drops(n) ==
  /\ n <= Len(Stream)
  /\ Len(Stream') = Len(Stream) - n
  /\ \A i \in 1 .. Len(Stream') : Stream'[i] = Stream[n + i]

LEMMA StreamType ==
  ASSUME TypeOK
  PROVE  Stream \in Seq(Pieces) /\ Len(Stream) \in Nat
BY Joined, LenProperties DEF TypeOK, Stream

LEMMA StreamSame ==
  ASSUME TypeOK, UNCHANGED <<buffer, wire, unsent>>
  PROVE  Drops(0)
<1>1. Stream' = Stream
  BY DEF Stream
<1> QED
  BY <1>1, StreamType DEF Drops

LEMMA StreamSent ==
  ASSUME TypeOK, SendPiece
  PROVE  Drops(0)
<1> DEFINE b == buffer  w == wire  u == unsent  v == Append(wire, Head(unsent))  t == Tail(unsent)
<1>1. /\ b \in Seq(Pieces) /\ w \in Seq(Pieces) /\ u \in Seq(Pieces) /\ u # <<>>
      /\ Stream = (b \o w) \o u /\ Stream' = (b \o v) \o t
  BY DEF SendPiece, TypeOK, Stream
<1>2. /\ t \in Seq(Pieces) /\ Len(t) = Len(u) - 1 /\ \A i \in 1 .. Len(t) : t[i] = u[i + 1]
      /\ u[1] \in Pieces /\ Head(u) = u[1] /\ Len(u) > 0
  BY <1>1, HeadTailProperties
<1>3. /\ v \in Seq(Pieces) /\ Len(v) = Len(w) + 1 /\ v[Len(w) + 1] = u[1]
      /\ \A i \in 1 .. Len(w) : v[i] = w[i]
  BY <1>1, <1>2, AppendProperties
<1> HIDE DEF b, w, u, v, t
<1>4. Len(b) \in Nat /\ Len(w) \in Nat /\ Len(u) \in Nat
  BY <1>1, LenProperties
<1>5. /\ Len((b \o w) \o u) = Len(b) + Len(w) + Len(u)
      /\ \A i \in 1 .. Len(b) + Len(w) + Len(u) :
           ((b \o w) \o u)[i] = IF i <= Len(b) THEN b[i]
                                ELSE IF i <= Len(b) + Len(w) THEN w[i - Len(b)]
                                ELSE u[i - (Len(b) + Len(w))]
  BY <1>1, Joined
<1>6. /\ Len((b \o v) \o t) = Len(b) + Len(v) + Len(t)
      /\ \A i \in 1 .. Len(b) + Len(v) + Len(t) :
           ((b \o v) \o t)[i] = IF i <= Len(b) THEN b[i]
                                ELSE IF i <= Len(b) + Len(v) THEN v[i - Len(b)]
                                ELSE t[i - (Len(b) + Len(v))]
  BY <1>1, <1>2, <1>3, Joined
<1>7. \A i \in 1 .. Len(b) + Len(w) + Len(u) : ((b \o v) \o t)[i] = ((b \o w) \o u)[i]
  <2> TAKE i \in 1 .. Len(b) + Len(w) + Len(u)
  <2>1. CASE i <= Len(b)
    BY <1>2, <1>3, <1>4, <1>5, <1>6, <2>1
  <2>2. CASE i > Len(b) /\ i <= Len(b) + Len(w)
    <3>1. i - Len(b) \in 1 .. Len(w)
      BY <1>4, <2>2
    <3>2. ((b \o w) \o u)[i] = w[i - Len(b)]
      BY <1>4, <1>5, <2>2
    <3>3. ((b \o v) \o t)[i] = v[i - Len(b)]
      BY <1>2, <1>3, <1>4, <1>6, <2>2
    <3> QED
      BY <1>3, <3>1, <3>2, <3>3
  <2>3. CASE i = Len(b) + Len(w) + 1
    BY <1>2, <1>3, <1>4, <1>5, <1>6, <2>3
  <2>4. CASE i > Len(b) + Len(w) + 1
    <3>1. i - (Len(b) + Len(v)) \in 1 .. Len(t) /\ i - (Len(b) + Len(v)) + 1 = i - (Len(b) + Len(w))
      BY <1>2, <1>3, <1>4, <2>4
    <3>2. ((b \o v) \o t)[i] = t[i - (Len(b) + Len(v))]
      BY <1>2, <1>3, <1>4, <1>6, <2>4
    <3>3. ((b \o w) \o u)[i] = u[i - (Len(b) + Len(w))]
      BY <1>4, <1>5, <2>4
    <3> QED
      BY <1>2, <3>1, <3>2, <3>3
  <2> QED
    <3>1. \/ i <= Len(b) \/ (i > Len(b) /\ i <= Len(b) + Len(w))
          \/ i = Len(b) + Len(w) + 1 \/ i > Len(b) + Len(w) + 1
      BY <1>4
    <3> QED
      BY <2>1, <2>2, <2>3, <2>4, <3>1, Zenon
<1>8. Len((b \o v) \o t) = Len((b \o w) \o u)
  BY <1>2, <1>3, <1>4, <1>5, <1>6
<1> QED
  BY <1>1, <1>4, <1>5, <1>7, <1>8 DEF Drops

(* A trailer line goes before the last piece of the request. *)
LEMMA StreamInserted ==
  ASSUME TypeOK, SendField
  PROVE  \E q \in 1 .. Len(Stream) :
           /\ Stream[q].kind = "end"
           /\ Len(Stream') = Len(Stream) + 1
           /\ \A i \in 1 .. Len(Stream) + 1 :
                Stream'[i] = IF i < q THEN Stream[i]
                             ELSE IF i = q THEN Piece("field", Stream[q].of)
                             ELSE Stream[i - 1]
           /\ wire' \in Seq(Pieces)
<1> DEFINE b == buffer  w == wire  u == unsent
           p == Piece("field", Head(unsent).of)  v == Append(wire, p)
<1>1. /\ b \in Seq(Pieces) /\ w \in Seq(Pieces) /\ u \in Seq(Pieces) /\ u # <<>>
      /\ Stream = (b \o w) \o u /\ Stream' = (b \o v) \o u /\ wire' = v
      /\ u[1].kind = "end" /\ Head(unsent) = u[1]
  BY HeadTailProperties DEF SendField, TypeOK, Stream
<1>2. Len(b) \in Nat /\ Len(w) \in Nat /\ Len(u) \in Nat /\ Len(u) > 0 /\ u[1] \in Pieces
  BY <1>1, LenProperties, EmptySeq
<1>3. p \in Pieces /\ p = Piece("field", u[1].of)
  BY <1>1, <1>2 DEF Pieces, Piece, Kinds
<1> HIDE DEF p
<1>4. /\ v \in Seq(Pieces) /\ Len(v) = Len(w) + 1 /\ v[Len(w) + 1] = p
      /\ \A i \in 1 .. Len(w) : v[i] = w[i]
  BY <1>1, <1>3, AppendProperties
<1> HIDE DEF b, w, u, v
<1>5. /\ Len((b \o w) \o u) = Len(b) + Len(w) + Len(u)
      /\ \A i \in 1 .. Len(b) + Len(w) + Len(u) :
           ((b \o w) \o u)[i] = IF i <= Len(b) THEN b[i]
                                ELSE IF i <= Len(b) + Len(w) THEN w[i - Len(b)]
                                ELSE u[i - (Len(b) + Len(w))]
  BY <1>1, Joined
<1>6. /\ Len((b \o v) \o u) = Len(b) + Len(v) + Len(u)
      /\ \A i \in 1 .. Len(b) + Len(v) + Len(u) :
           ((b \o v) \o u)[i] = IF i <= Len(b) THEN b[i]
                                ELSE IF i <= Len(b) + Len(v) THEN v[i - Len(b)]
                                ELSE u[i - (Len(b) + Len(v))]
  BY <1>1, <1>4, Joined
<1> DEFINE q == Len(b) + Len(w) + 1
<1>7. q \in 1 .. Len((b \o w) \o u) /\ ((b \o w) \o u)[q] = u[1]
  BY <1>2, <1>5
<1>8. ASSUME NEW i \in 1 .. Len((b \o w) \o u) + 1
      PROVE  ((b \o v) \o u)[i] = IF i < q THEN ((b \o w) \o u)[i]
                                  ELSE IF i = q THEN p
                                  ELSE ((b \o w) \o u)[i - 1]
  <2>0. i \in 1 .. Len(b) + Len(v) + Len(u)
    BY <1>2, <1>4, <1>5
  <2>1. CASE i <= Len(b)
    BY <1>2, <1>5, <1>6, <2>0, <2>1
  <2>2. CASE i > Len(b) /\ i < q
    <3>1. i - Len(b) \in 1 .. Len(w)
      BY <1>2, <2>2
    <3>2. ((b \o w) \o u)[i] = w[i - Len(b)]
      BY <1>2, <1>5, <2>2
    <3>3. ((b \o v) \o u)[i] = v[i - Len(b)]
      BY <1>2, <1>4, <1>6, <2>0, <2>2
    <3> QED
      BY <1>4, <2>2, <3>1, <3>2, <3>3
  <2>3. CASE i = q
    BY <1>2, <1>4, <1>6, <2>0, <2>3
  <2>4. CASE i > q
    <3>1. i - 1 \in 1 .. Len(b) + Len(w) + Len(u)
          /\ i - (Len(b) + Len(v)) = (i - 1) - (Len(b) + Len(w))
      BY <1>2, <1>4, <1>5, <2>4
    <3>2. ((b \o v) \o u)[i] = u[i - (Len(b) + Len(v))]
      BY <1>2, <1>4, <1>6, <2>0, <2>4
    <3>3. ((b \o w) \o u)[i - 1] = u[(i - 1) - (Len(b) + Len(w))]
      BY <1>2, <1>5, <2>4, <3>1
    <3> QED
      BY <1>2, <2>4, <3>1, <3>2, <3>3
  <2>5. i <= Len(b) \/ (i > Len(b) /\ i < q) \/ i = q \/ i > q
    BY <1>2, <2>0
  <2> HIDE DEF q
  <2> QED
    BY <2>1, <2>2, <2>3, <2>4, <2>5
<1>9. Len((b \o v) \o u) = Len((b \o w) \o u) + 1
  BY <1>2, <1>4, <1>5, <1>6
<1> HIDE DEF q
<1> QED
  BY <1>1, <1>3, <1>4, <1>7, <1>8, <1>9

LEMMA StreamRead ==
  ASSUME TypeOK, Fill
  PROVE  Drops(0) /\ buffer' \in Seq(Pieces) /\ wire' \in Seq(Pieces)
<1>1. PICK n \in 1 .. Len(wire) :
        buffer' = SubSeq(wire, 1, n) /\ wire' = SubSeq(wire, n + 1, Len(wire))
  BY DEF Fill
<1> DEFINE w == wire  u == unsent  e == buffer
           b == SubSeq(wire, 1, n)  v == SubSeq(wire, n + 1, Len(wire))
<1>2. /\ w \in Seq(Pieces) /\ u \in Seq(Pieces) /\ e \in Seq(Pieces) /\ Len(e) = 0
      /\ Stream = (e \o w) \o u /\ Stream' = (b \o v) \o u
  BY <1>1 DEF TypeOK, Stream, Fill, client
<1>3. Len(w) \in Nat /\ Len(u) \in Nat /\ n \in 1 .. Len(w)
  BY <1>2, LenProperties
<1>4. b \in Seq(Pieces) /\ Len(b) = n /\ \A i \in 1 .. n : b[i] = w[i]
  BY <1>2, <1>3, SubSeqProperties
<1>5. v \in Seq(Pieces) /\ Len(v) = Len(w) - n /\ \A i \in 1 .. Len(w) - n : v[i] = w[n + i]
  BY <1>2, <1>3, SubSeqProperties
<1>6. buffer' = b /\ wire' = v
  BY <1>1
<1> HIDE DEF w, u, b, v, e
<1>7. /\ Len((e \o w) \o u) = Len(w) + Len(u)
      /\ \A i \in 1 .. Len(w) + Len(u) :
           ((e \o w) \o u)[i] = IF i <= Len(w) THEN w[i] ELSE u[i - Len(w)]
  BY <1>2, <1>3, Joined
<1>8. /\ Len((b \o v) \o u) = Len(w) + Len(u)
      /\ \A i \in 1 .. Len(w) + Len(u) :
           ((b \o v) \o u)[i] = IF i <= n THEN b[i] ELSE IF i <= Len(w) THEN v[i - n] ELSE u[i - Len(w)]
  <2>1. /\ Len((b \o v) \o u) = Len(b) + Len(v) + Len(u)
        /\ \A i \in 1 .. Len(b) + Len(v) + Len(u) :
             ((b \o v) \o u)[i] = IF i <= Len(b) THEN b[i]
                                  ELSE IF i <= Len(b) + Len(v) THEN v[i - Len(b)]
                                  ELSE u[i - (Len(b) + Len(v))]
    <3>1. b \in Seq(Pieces) /\ v \in Seq(Pieces) /\ u \in Seq(Pieces)
      BY <1>2, <1>4, <1>5
    <3> QED
      BY <3>1, Joined
  <2>2. Len(b) + Len(v) = Len(w) /\ Len(b) = n
    BY <1>3, <1>4, <1>5
  <2> QED
    BY <2>1, <2>2, Zenon
<1>9. ASSUME NEW i \in 1 .. Len(w) + Len(u)
      PROVE  ((b \o v) \o u)[i] = ((e \o w) \o u)[i]
  <2>1. CASE i <= n
    BY <1>3, <1>4, <1>7, <1>8, <2>1
  <2>2. CASE i > n /\ i <= Len(w)
    <3>1. i - n \in 1 .. Len(w) - n /\ n + (i - n) = i
      BY <1>3, <2>2
    <3>2. ((e \o w) \o u)[i] = w[i]
      BY <1>7, <2>2
    <3>3. ((b \o v) \o u)[i] = v[i - n]
      BY <1>3, <1>8, <2>2
    <3>4. v[i - n] = w[n + (i - n)]
      BY <1>5, <3>1
    <3> QED
      BY <3>1, <3>2, <3>3, <3>4
  <2>3. CASE i > Len(w)
    BY <1>3, <1>7, <1>8, <2>3
  <2>4. i <= n \/ (i > n /\ i <= Len(w)) \/ i > Len(w)
    BY <1>3
  <2> QED
    BY <2>1, <2>2, <2>3, <2>4, Zenon
<1> QED
  BY <1>2, <1>3, <1>4, <1>5, <1>6, <1>7, <1>8, <1>9 DEF Drops

LEMMA StreamTaken ==
  ASSUME TypeOK, Take, UNCHANGED <<wire, unsent>>
  PROVE  /\ Drops(1)
         /\ buffer' \in Seq(Pieces)
         /\ Len(Stream) > 0
         /\ Head(buffer) = Stream[1]
<1> DEFINE b == buffer  w == wire  u == unsent  t == Tail(buffer)
<1>1. /\ b \in Seq(Pieces) /\ w \in Seq(Pieces) /\ u \in Seq(Pieces) /\ b # <<>>
      /\ Stream = (b \o w) \o u /\ Stream' = (t \o w) \o u
      /\ buffer' = t /\ Head(buffer) = Head(b)
  BY DEF Take, TypeOK, Stream
<1>2. /\ t \in Seq(Pieces) /\ Len(t) = Len(b) - 1 /\ \A i \in 1 .. Len(t) : t[i] = b[i + 1]
      /\ Head(b) = b[1] /\ Len(b) > 0
  BY <1>1, HeadTailProperties
<1> HIDE DEF b, w, u, t
<1>3. Len(b) \in Nat /\ Len(w) \in Nat /\ Len(u) \in Nat
  BY <1>1, LenProperties
<1>4. /\ Len((b \o w) \o u) = Len(b) + Len(w) + Len(u)
      /\ \A i \in 1 .. Len(b) + Len(w) + Len(u) :
           ((b \o w) \o u)[i] = IF i <= Len(b) THEN b[i]
                                ELSE IF i <= Len(b) + Len(w) THEN w[i - Len(b)]
                                ELSE u[i - (Len(b) + Len(w))]
  BY <1>1, Joined
<1>5. /\ Len((t \o w) \o u) = Len(t) + Len(w) + Len(u)
      /\ \A i \in 1 .. Len(t) + Len(w) + Len(u) :
           ((t \o w) \o u)[i] = IF i <= Len(t) THEN t[i]
                                ELSE IF i <= Len(t) + Len(w) THEN w[i - Len(t)]
                                ELSE u[i - (Len(t) + Len(w))]
  BY <1>1, <1>2, Joined
<1>6. ASSUME NEW i \in 1 .. Len(t) + Len(w) + Len(u)
      PROVE  ((t \o w) \o u)[i] = ((b \o w) \o u)[1 + i]
  <2>0. 1 + i \in 1 .. Len(b) + Len(w) + Len(u)
    BY <1>2, <1>3
  <2>1. CASE i <= Len(t)
    BY <1>2, <1>3, <1>4, <1>5, <2>0, <2>1
  <2>2. CASE i > Len(t) /\ i <= Len(t) + Len(w)
    <3>1. ((t \o w) \o u)[i] = w[i - Len(t)]
      BY <1>2, <1>3, <1>5, <2>2
    <3>2. ((b \o w) \o u)[1 + i] = w[(1 + i) - Len(b)]
      BY <1>2, <1>3, <1>4, <2>0, <2>2
    <3>3. i - Len(t) = (1 + i) - Len(b)
      BY <1>2, <1>3
    <3> QED
      BY <3>1, <3>2, <3>3, Zenon
  <2>3. CASE i > Len(t) + Len(w)
    <3>1. ((t \o w) \o u)[i] = u[i - (Len(t) + Len(w))]
      BY <1>2, <1>3, <1>5, <2>3
    <3>2. ((b \o w) \o u)[1 + i] = u[(1 + i) - (Len(b) + Len(w))]
      BY <1>2, <1>3, <1>4, <2>0, <2>3
    <3>3. i - (Len(t) + Len(w)) = (1 + i) - (Len(b) + Len(w))
      BY <1>2, <1>3
    <3> QED
      BY <3>1, <3>2, <3>3, Zenon
  <2> QED
    BY <1>2, <1>3, <2>1, <2>2, <2>3
<1>7. ((b \o w) \o u)[1] = b[1]
  BY <1>2, <1>3, <1>4
<1>8. /\ Len((t \o w) \o u) = Len((b \o w) \o u) - 1
      /\ Len((b \o w) \o u) > 0 /\ 1 <= Len((b \o w) \o u)
  BY <1>2, <1>3, <1>4, <1>5
<1>9. \A i \in 1 .. Len((t \o w) \o u) : ((t \o w) \o u)[i] = ((b \o w) \o u)[1 + i]
  BY <1>5, <1>6, Zenon
<1>10. Drops(1)
  BY <1>1, <1>8, <1>9, Zenon DEF Drops
<1> QED
  BY <1>1, <1>2, <1>7, <1>8, <1>10, Zenon

(* process_request throws away what it has buffered. *)
LEMMA StreamReturned ==
  ASSUME TypeOK, buffer' = <<>>, UNCHANGED <<wire, unsent>>
  PROVE  Drops(Len(buffer)) /\ Len(buffer) \in Nat
<1> DEFINE b == buffer  w == wire  u == unsent  e == buffer'
<1>1. /\ b \in Seq(Pieces) /\ w \in Seq(Pieces) /\ u \in Seq(Pieces)
      /\ e = <<>> /\ e \in Seq(Pieces) /\ Len(e) = 0
      /\ Stream = (b \o w) \o u /\ Stream' = (e \o w) \o u
  BY DEF TypeOK, Stream
<1> HIDE DEF b, w, u, e
<1>2. Len(b) \in Nat /\ Len(w) \in Nat /\ Len(u) \in Nat
  BY <1>1, LenProperties
<1>3. /\ Len((b \o w) \o u) = Len(b) + Len(w) + Len(u)
      /\ \A i \in 1 .. Len(b) + Len(w) + Len(u) :
           ((b \o w) \o u)[i] = IF i <= Len(b) THEN b[i]
                                ELSE IF i <= Len(b) + Len(w) THEN w[i - Len(b)]
                                ELSE u[i - (Len(b) + Len(w))]
  BY <1>1, Joined
<1>4. /\ Len((e \o w) \o u) = Len(w) + Len(u)
      /\ \A i \in 1 .. Len(w) + Len(u) :
           ((e \o w) \o u)[i] = IF i <= Len(w) THEN w[i] ELSE u[i - Len(w)]
  BY <1>1, <1>2, Joined
<1>5. ASSUME NEW i \in 1 .. Len(w) + Len(u)
      PROVE  ((e \o w) \o u)[i] = ((b \o w) \o u)[Len(b) + i]
  <2>0. Len(b) + i \in 1 .. Len(b) + Len(w) + Len(u) /\ ~ (Len(b) + i <= Len(b))
    BY <1>2
  <2>1. CASE i <= Len(w)
    <3>1. ((b \o w) \o u)[Len(b) + i] = w[(Len(b) + i) - Len(b)]
      BY <1>2, <1>3, <2>0, <2>1
    <3>2. (Len(b) + i) - Len(b) = i
      BY <1>2
    <3>3. ((e \o w) \o u)[i] = w[i]
      BY <1>4, <2>1
    <3> QED
      BY <3>1, <3>2, <3>3, Zenon
  <2>2. CASE i > Len(w)
    <3>1. ((b \o w) \o u)[Len(b) + i] = u[(Len(b) + i) - (Len(b) + Len(w))]
      BY <1>2, <1>3, <2>0, <2>2
    <3>2. (Len(b) + i) - (Len(b) + Len(w)) = i - Len(w)
      BY <1>2
    <3>3. ((e \o w) \o u)[i] = u[i - Len(w)]
      BY <1>2, <1>4, <2>2
    <3> QED
      BY <3>1, <3>2, <3>3, Zenon
  <2> QED
    BY <1>2, <2>1, <2>2
<1>6. Len((e \o w) \o u) = Len((b \o w) \o u) - Len(b) /\ Len(b) <= Len((b \o w) \o u)
  BY <1>2, <1>3, <1>4
<1>7. Len(buffer) = Len(b)
  BY DEF b
<1> QED
  BY <1>1, <1>2, <1>4, <1>5, <1>6, <1>7 DEF Drops
------------------------------------------------------------------------------
(* Type and stage are kept.                                                *)
LEMMA TypeKept ==
  ASSUME TypeOK, Stage, StreamOrder, Step
  PROVE  TypeOK'
<1> USE DEF client, worker, history
<1>0. R \in Requests \/ current = 0
  BY DEF TypeOK, R
<1>1. CASE NextRequest
  <2>1. sent + 1 \in 1 .. Len(script)
    BY <1>1 DEF NextRequest, TypeOK
  <2>2. unsent' \in Seq(Pieces)
    BY <1>1, <2>1, RequestParts DEF NextRequest, Whole
  <2> QED
    BY <1>1, <2>1, <2>2 DEF NextRequest, TypeOK
<1>2. CASE SendPiece
  <2>1. Head(unsent) \in Pieces /\ Tail(unsent) \in Seq(Pieces)
    BY <1>2 DEF SendPiece, TypeOK
  <2> QED
    BY <1>2, <2>1 DEF SendPiece, TypeOK
<1>3. CASE Leave \/ Stop \/ Awake \/ GiveUp
  BY <1>3 DEF Leave, Stop, Awake, GiveUp, TypeOK
<1>4. CASE Fill
  BY <1>4, StreamRead DEF Fill, TypeOK
<1>5. CASE Answering
  <2>1. PICK status \in Nat, body \in {"whole", "provided"}, closed \in BOOLEAN :
          Respond(status, body, closed)
    BY <1>5 DEF Answering
  <2>2. PICK a \in Answers :
          /\ answers' = Append(answers, a) /\ left' \in 1 .. KeepAliveMax
          /\ buffer' = <<>> /\ current' = 0 /\ mixed' = FALSE /\ got' = 0
          /\ pc' = "closed" \/ pc' = "alive"
    BY <2>1, Response
  <2>3. answers' \in Seq(Answers)
    BY <2>2 DEF TypeOK
  <2>4. buffer' \in Seq(Pieces)
    BY <2>2
  <2>5. mixed' \in BOOLEAN
    BY <2>2, Zenon
  <2> QED
    BY <1>5, <2>2, <2>3, <2>4, <2>5 DEF Answering, TypeOK
<1>6. CASE Hangup
  <2>1. buffer' = <<>> /\ current' = 0 /\ mixed' = FALSE /\ got' = 0 /\ pc' = "closed" /\ left' = left
    BY <1>6 DEF Hangup, Return
  <2>2. buffer' \in Seq(Pieces)
    BY <2>1
  <2>3. mixed' \in BOOLEAN
    BY <2>1, Zenon
  <2> QED
    BY <1>6, <2>1, <2>2, <2>3 DEF Hangup, TypeOK
<1>7. CASE Skip
  BY <1>7, StreamTaken DEF Skip, TypeOK
<1>8. CASE Begin
  <2>1. Head(buffer).of \in 1 .. sent
    BY <1>8, StreamTaken, StreamType DEF Begin, StreamOrder
  <2> QED
    BY <1>8, <2>1, StreamTaken DEF Begin, TypeOK
<1>9. CASE Proceed
  <2>1. Take /\ UNCHANGED <<wire, unsent>>
    BY <1>9 DEF Proceed, HeadRead, Route, Take
  <2>2. Refusal \in Answers
    BY DEF Refusal, Answers, TypeOK
  <2>3. answers' \in Seq(Answers)
    <3>1. answers \in Seq(Answers) /\ Append(answers, Refusal) \in Seq(Answers)
      BY <2>2 DEF TypeOK
    <3> QED
      BY <1>9, <3>1, Zenon DEF Proceed
  <2>4. pc' \in InContent
    BY <1>9 DEF Proceed, Route, InContent
  <2> QED
    BY <1>9, <2>1, <2>3, <2>4, StreamTaken DEF Proceed, Route, TypeOK
<1>10. CASE Unit
  BY <1>10, StreamTaken DEF Unit, TypeOK
<1>11. CASE LastChunk
  BY <1>11, StreamTaken DEF LastChunk, TypeOK, InContent
<1>12. CASE Complete
  BY <1>12 DEF Complete, TypeOK, InContent
<1>13. CASE ReadTrailing
  <2>1. buffer' \in Seq(Pieces)
    BY <1>13, StreamTaken DEF ReadTrailing, TakeTrailer, MissTrailer, TypeOK
  <2> QED
    BY <1>13, <2>1 DEF ReadTrailing, TakeTrailer, MissTrailer, TypeOK, InContent
<1>14. CASE SendField
  BY <1>14, StreamInserted DEF SendField, TypeOK
<1> QED
  BY <1>1, <1>2, <1>3, <1>4, <1>5, <1>6, <1>7, <1>8, <1>9, <1>10, <1>11, <1>12, <1>13, <1>14 DEF Step

LEMMA StageKept ==
  ASSUME TypeOK, Stage, StreamOrder, Step
  PROVE  Stage'
<1> USE DEF client, worker, history
<1>1. CASE NextRequest \/ SendPiece \/ SendField \/ Leave \/ Stop \/ Awake
  BY <1>1 DEF NextRequest, SendPiece, SendField, Leave, Stop, Awake, Stage, R, ExpectsContent, Unmeasured, InContent
<1>2. CASE GiveUp
  BY <1>2 DEF GiveUp, Stage, R, InContent
<1>3. CASE Fill
  BY <1>3 DEF Fill, Reading, Stage, R, ExpectsContent, Unmeasured, InContent
<1>4. CASE Answering
  <2>1. buffer' = <<>> /\ current' = 0 /\ got' = 0 /\ (pc' = "closed" \/ pc' = "alive")
    BY <1>4, Response DEF Answering
  <2> QED
    BY <2>1 DEF Stage, InContent
<1>5. CASE Hangup
  <2>1. buffer' = <<>> /\ current' = 0 /\ got' = 0 /\ pc' = "closed"
    BY <1>5 DEF Hangup, Return
  <2> QED
    BY <2>1 DEF Stage, InContent
<1>6. CASE Skip
  BY <1>6 DEF Skip, Stage, R, InContent
<1>7. CASE Begin
  <2>1. Head(buffer).of \in 1 .. sent
    BY <1>7, StreamTaken, StreamType DEF Begin, StreamOrder
  <2> QED
    BY <1>7, <2>1 DEF Begin, Stage, R, InContent, TypeOK
<1>8. CASE Proceed
  BY <1>8 DEF Proceed, HeadRead, Route, Stage, R, ExpectsContent, Unmeasured, InContent
<1>9. CASE Unit
  BY <1>9 DEF Unit, Stage, R, ExpectsContent, Unmeasured, InContent
<1>10. CASE LastChunk
  BY <1>10 DEF LastChunk, ContentIs, Readable, Stage, R, ExpectsContent, Unmeasured, InContent
<1>11. CASE Complete
  BY <1>11 DEF Complete, Stage, R, ExpectsContent, Unmeasured, InContent
<1>12. CASE ReadTrailing
  BY <1>12 DEF ReadTrailing, TakeTrailer, MissTrailer, Stage, R, ExpectsContent, Unmeasured, InContent
<1> QED
  BY <1>1, <1>2, <1>3, <1>4, <1>5, <1>6, <1>7, <1>8, <1>9, <1>10, <1>11, <1>12 DEF Step

------------------------------------------------------------------------------
(* The order of stream and answers is kept.                                *)
LEMMA Dropped ==
  ASSUME TypeOK, StreamOrder, NEW n \in Nat, Drops(n), sent' = sent
  PROVE  /\ StreamOrder'
         /\ \A i \in 1 .. Len(Stream') : n + i \in 1 .. Len(Stream) /\ Stream'[i] = Stream[n + i]
<1>1. Len(Stream) \in Nat
  BY StreamType
<1>2. \A i \in 1 .. Len(Stream') : n + i \in 1 .. Len(Stream) /\ Stream'[i] = Stream[n + i]
  BY <1>1 DEF Drops
<1>3. \A i \in 1 .. Len(Stream') : (Stream[i].of)' \in 1 .. sent
  BY <1>2 DEF StreamOrder
<1>4. ASSUME NEW i \in 1 .. Len(Stream'), NEW j \in 1 .. Len(Stream'), i < j
      PROVE  /\ (Stream[i].of)' <= (Stream[j].of)'
             /\ (Stream[j].kind)' = "line" => (Stream[i].of)' < (Stream[j].of)'
  <2>1. n + i < n + j
    BY <1>1, <1>4 DEF Drops
  <2> QED
    BY <1>2, <2>1 DEF StreamOrder
<1> QED
  BY <1>2, <1>3, <1>4 DEF StreamOrder

LEMMA AnswerTypes ==
  ASSUME TypeOK
  PROVE  \A k \in DOMAIN answers :
           /\ answers[k].to \in Nat /\ answers[k].status \in Nat
           /\ answers[k].cut \in BOOLEAN /\ answers[k].close \in BOOLEAN
<1>1. \A k \in DOMAIN answers : answers[k] \in Answers
  BY DEF TypeOK
<1> QED
  BY <1>1 DEF Answers

(* Sending an answer leaves those before it as they are. *)
LEMMA Answered ==
  ASSUME TypeOK, NEW a \in Answers, answers' = Append(answers, a)
  PROVE  /\ Len(answers) \in Nat /\ Len(answers') = Len(answers) + 1
         /\ DOMAIN answers = 1 .. Len(answers) /\ DOMAIN answers' = 1 .. Len(answers) + 1
         /\ \A k \in DOMAIN answers : answers'[k] = answers[k]
         /\ answers'[Len(answers) + 1] = a
BY AppendProperties, LenProperties DEF TypeOK

LEMMA OrderAnswering ==
  ASSUME TypeOK, OrderInv, Stage, Answering
  PROVE  OrderInv'
<1>1. PICK status \in Nat, body \in {"whole", "provided"}, closed \in BOOLEAN :
        Respond(status, body, closed)
  BY DEF Answering
<1>2. PICK a \in Answers :
        answers' = Append(answers, a) /\ a.to = current /\ buffer' = <<>> /\ current' = 0
  BY <1>1, Response
<1>3. /\ Len(answers) \in Nat
      /\ DOMAIN answers = 1 .. Len(answers) /\ DOMAIN answers' = 1 .. Len(answers) + 1
      /\ \A k \in DOMAIN answers : answers'[k] = answers[k]
      /\ answers'[Len(answers) + 1] = a
  BY <1>2, Answered
<1>4. /\ StreamOrder'
      /\ \A i \in 1 .. Len(Stream') : \E j \in 1 .. Len(Stream) : Stream'[i] = Stream[j]
  BY <1>2, StreamReturned, Dropped DEF Answering, OrderInv, client
<1>5. LinesAhead'
  <2>1. ASSUME NEW i \in 1 .. Len(Stream'), Stream'[i].kind = "line"
        PROVE  /\ 0 < Stream'[i].of
               /\ \A k \in DOMAIN answers' : answers'[k].to < Stream'[i].of
    <3>1. PICK j \in 1 .. Len(Stream) : Stream'[i] = Stream[j]
      BY <1>4
    <3>2. Stream[j].of \in 1 .. sent /\ sent \in Nat
      BY DEF OrderInv, StreamOrder, TypeOK
    <3> QED
      BY <1>2, <1>3, <2>1, <3>1, <3>2 DEF OrderInv, LinesAhead
  <2> QED
    BY <1>2, <2>1 DEF LinesAhead
<1>6. AnsweredOnce'
  BY <1>2, <1>3 DEF AnsweredOnce, OrderInv, Answering, client, TypeOK
<1>7. AnswersInOrder'
  <2>1. ASSUME NEW j \in DOMAIN answers, answers[j].status # 417, a.to # 0, answers[j].to # 0
        PROVE  answers[j].to < a.to
    BY <1>2, <2>1 DEF OrderInv, AnsweredOnce
  <2> QED
    BY <1>3, <2>1 DEF OrderInv, AnswersInOrder
<1> QED
  BY <1>4, <1>5, <1>6, <1>7 DEF OrderInv
LEMMA OrderProceed ==
  ASSUME TypeOK, OrderInv, Stage, Proceed
  PROVE  OrderInv'
<1>1. Take /\ UNCHANGED <<wire, unsent>>
  BY DEF Proceed, HeadRead, Route, Take, client
<1>2. Drops(1)
  BY <1>1, StreamTaken
<1>3. /\ StreamOrder'
      /\ \A i \in 1 .. Len(Stream') : \E j \in 1 .. Len(Stream) : Stream'[i] = Stream[j]
  BY <1>2, Dropped DEF Proceed, OrderInv, client
<1>4. current' = current /\ current \in Nat /\ pc = "head" /\ pc' # "head"
  BY DEF Proceed, HeadRead, Route, TypeOK
<1>5. CASE answers' = answers
  <2>1. LinesAhead'
    <3>1. ASSUME NEW i \in 1 .. Len(Stream'), Stream'[i].kind = "line"
          PROVE  current < Stream'[i].of /\ \A k \in DOMAIN answers : answers[k].to < Stream'[i].of
      <4>1. PICK j \in 1 .. Len(Stream) : Stream'[i] = Stream[j]
        BY <1>3
      <4> QED
        BY <3>1, <4>1 DEF OrderInv, LinesAhead
    <3> QED
      BY <1>4, <1>5, <3>1 DEF LinesAhead
  <2>2. AnsweredOnce'
    BY <1>4, <1>5 DEF OrderInv, AnsweredOnce, Proceed, client
  <2>3. AnswersInOrder'
    BY <1>5 DEF OrderInv, AnswersInOrder
  <2> QED
    BY <1>3, <2>1, <2>2, <2>3 DEF OrderInv
<1>6. CASE answers' = Append(answers, Refusal)
  <2>1. Refusal \in Answers /\ Refusal.to = current /\ Refusal.status = 417
    BY <1>4 DEF Refusal, Answers
  <2>2. /\ Len(answers) \in Nat
        /\ DOMAIN answers = 1 .. Len(answers) /\ DOMAIN answers' = 1 .. Len(answers) + 1
        /\ \A k \in DOMAIN answers : answers'[k] = answers[k]
        /\ answers'[Len(answers) + 1] = Refusal
    BY <1>6, <2>1, Answered
  <2>3. LinesAhead'
    <3>1. ASSUME NEW i \in 1 .. Len(Stream'), Stream'[i].kind = "line"
          PROVE  current < Stream'[i].of /\ \A k \in DOMAIN answers' : answers'[k].to < Stream'[i].of
      <4>1. PICK j \in 1 .. Len(Stream) : Stream'[i] = Stream[j]
        BY <1>3
      <4>2. current < Stream[j].of /\ \A k \in DOMAIN answers : answers[k].to < Stream[j].of
        BY <3>1, <4>1 DEF OrderInv, LinesAhead
      <4> QED
        BY <2>1, <2>2, <4>1, <4>2
    <3> QED
      BY <1>4, <3>1 DEF LinesAhead
  <2>4. AnsweredOnce'
    BY <1>4, <2>1, <2>2 DEF OrderInv, AnsweredOnce, Proceed, client, TypeOK
  <2>5. AnswersInOrder'
    BY <1>4, <2>1, <2>2 DEF OrderInv, AnsweredOnce, AnswersInOrder
  <2> QED
    BY <1>3, <2>3, <2>4, <2>5 DEF OrderInv
<1> QED
  BY <1>5, <1>6 DEF Proceed

(* The next request is behind all that was sent. *)
LEMMA Appended ==
  ASSUME TypeOK, NextRequest
  PROVE  /\ sent + 1 \in 1 .. Len(script) /\ Len(Stream) \in Nat
         /\ Len(Stream') = Len(Stream) + Len(Whole(sent + 1))
         /\ \A i \in 1 .. Len(Stream) : Stream'[i] = Stream[i]
         /\ \A i \in 1 .. Len(Whole(sent + 1)) : Stream'[Len(Stream) + i] = Whole(sent + 1)[i]
<1> DEFINE s == buffer \o wire  w == Whole(sent + 1)  e == unsent
<1>1. sent + 1 \in 1 .. Len(script)
  BY DEF NextRequest, TypeOK
<1>2. w \in Seq(Pieces)
  BY <1>1, RequestParts
<1>3. s \in Seq(Pieces)
  BY Concatenated DEF TypeOK
<1>4. Stream = s \o e /\ Stream' = s \o w /\ e = <<>>
  BY DEF NextRequest, Stream, Whole
<1>5. e \in Seq(Pieces) /\ Len(e) = 0
  BY <1>4
<1> HIDE DEF s, w, e
<1>6. Len(s \o e) = Len(s) + 0 /\ \A i \in 1 .. Len(s) : (s \o e)[i] = s[i]
  BY <1>3, <1>5, Concatenated
<1>7. /\ Len(s) \in Nat /\ Len(s \o w) = Len(s) + Len(w)
      /\ \A i \in 1 .. Len(s) : (s \o w)[i] = s[i]
      /\ \A i \in 1 .. Len(w) : (s \o w)[Len(s) + i] = w[i]
  BY <1>2, <1>3, Concatenated
<1>8. Len(s \o e) = Len(s)
  BY <1>6, <1>7
<1> QED
  BY <1>1, <1>4, <1>6, <1>7, <1>8 DEF w

LEMMA OrderNext ==
  ASSUME TypeOK, OrderInv, Stage, NextRequest
  PROVE  OrderInv'
<1> DEFINE n == Len(Stream)  m == Len(Whole(sent + 1))  w == Whole(sent + 1)
<1>1. /\ sent + 1 \in 1 .. Len(script) /\ n \in Nat
      /\ Len(Stream') = n + m
      /\ \A i \in 1 .. n : Stream'[i] = Stream[i]
      /\ \A i \in 1 .. m : Stream'[n + i] = w[i]
  BY Appended
<1>2. m \in Nat /\ \A j \in 1 .. m : w[j].of = sent + 1 /\ (w[j].kind = "line" => j = 1)
  BY <1>1, RequestParts
<1>3. sent' = sent + 1 /\ UNCHANGED <<answers, current, pc>> /\ sent \in Nat /\ current \in 0 .. sent
  BY DEF NextRequest, TypeOK, history, worker
<1>4. \A k \in DOMAIN answers : answers[k].to <= sent /\ answers[k].to \in Nat
  BY AnswerTypes DEF OrderInv, AnsweredOnce
<1> HIDE DEF n, m, w
<1>5. \A i \in 1 .. n + m : i \in 1 .. n \/ \E j \in 1 .. m : i = n + j
  <2> SUFFICES ASSUME NEW i \in 1 .. n + m, i \notin 1 .. n
               PROVE  i - n \in 1 .. m /\ i = n + (i - n)
    OBVIOUS
  <2> QED
    BY <1>1, <1>2
<1>6. \A i \in 1 .. n : Stream[i].of \in 1 .. sent
  BY DEF n, OrderInv, StreamOrder
<1>7. \A i \in 1 .. n + m : Stream'[i].of \in 1 .. sent + 1
  <2> TAKE i \in 1 .. n + m
  <2>1. CASE i \in 1 .. n
    BY <1>1, <1>3, <1>6, <2>1
  <2>2. ASSUME NEW j \in 1 .. m, i = n + j
        PROVE  Stream'[i].of \in 1 .. sent + 1
    <3>1. Stream'[i] = w[j]
      BY <1>1, <2>2
    <3>2. w[j].of = sent + 1
      BY <1>2
    <3> QED
      BY <1>3, <3>1, <3>2
  <2> QED
    BY <1>5, <2>1, <2>2
<1>8. ASSUME NEW i \in 1 .. n + m, NEW j \in 1 .. n + m, i < j
      PROVE  /\ Stream'[i].of <= Stream'[j].of
             /\ Stream'[j].kind = "line" => Stream'[i].of < Stream'[j].of
  <2>1. CASE j \in 1 .. n
    <3>1. i \in 1 .. n
      BY <1>1, <1>8, <2>1
    <3> QED
      BY <1>1, <1>8, <2>1, <3>1 DEF n, OrderInv, StreamOrder
  <2>2. CASE j \notin 1 .. n
    <3>1. PICK k \in 1 .. m : j = n + k
      BY <1>5, <2>2
    <3>2. Stream'[j].of = sent + 1 /\ (Stream'[j].kind = "line" => k = 1)
      BY <1>1, <1>2, <3>1
    <3>3. k = 1 => i \in 1 .. n
      BY <1>1, <1>8, <3>1
    <3> QED
      BY <1>1, <1>3, <1>6, <1>7, <3>2, <3>3
  <2> QED
    BY <2>1, <2>2
<1>9. StreamOrder'
  BY <1>1, <1>3, <1>7, <1>8 DEF StreamOrder
<1>10. ASSUME NEW i \in 1 .. n + m, Stream'[i].kind = "line"
       PROVE  current < Stream'[i].of /\ \A k \in DOMAIN answers : answers[k].to < Stream'[i].of
  <2>1. CASE i \in 1 .. n
    BY <1>1, <1>10, <2>1 DEF n, OrderInv, LinesAhead
  <2>2. CASE i \notin 1 .. n
    <3>1. Stream'[i].of = sent + 1
      <4>1. PICK j \in 1 .. m : i = n + j
        BY <1>5, <2>2
      <4> QED
        BY <1>1, <1>2, <4>1
    <3> QED
      BY <1>3, <1>4, <3>1
  <2> QED
    BY <2>1, <2>2
<1>11. LinesAhead'
  BY <1>1, <1>3, <1>10 DEF LinesAhead
<1>12. AnsweredOnce'
  BY <1>3, <1>4 DEF OrderInv, AnsweredOnce
<1>13. AnswersInOrder'
  BY <1>3 DEF OrderInv, AnswersInOrder
<1> QED
  BY <1>9, <1>11, <1>12, <1>13 DEF OrderInv

LEMMA OrderInserted ==
  ASSUME TypeOK, OrderInv, Stage, SendField
  PROVE  OrderInv'
<1>0. UNCHANGED <<sent, answers, current, pc>> /\ Len(Stream) \in Nat
  BY StreamType DEF SendField, history, worker
<1>1. PICK q \in 1 .. Len(Stream) :
        /\ Stream[q].kind = "end"
        /\ Len(Stream') = Len(Stream) + 1
        /\ \A i \in 1 .. Len(Stream) + 1 :
             Stream'[i] = IF i < q THEN Stream[i]
                          ELSE IF i = q THEN Piece("field", Stream[q].of)
                          ELSE Stream[i - 1]
  BY StreamInserted
(* Where the pieces come from *)
<1> DEFINE From(i) == IF i <= q THEN i ELSE i - 1
<1>2. \A i \in 1 .. Len(Stream') :
        /\ From(i) \in 1 .. Len(Stream)
        /\ Stream'[i].of = Stream[From(i)].of
        /\ Stream'[i].kind = "line" => Stream'[i] = Stream[From(i)]
  BY <1>0, <1>1 DEF Piece
<1>3. ASSUME NEW i \in 1 .. Len(Stream'), NEW j \in 1 .. Len(Stream'), i < j
      PROVE  From(i) < From(j) \/ (From(i) = From(j) /\ Stream[From(j)].kind # "line")
  BY <1>0, <1>1, <1>3
<1> HIDE DEF From
<1>4. \A i \in 1 .. Len(Stream) : Stream[i].of \in 1 .. sent
  BY DEF OrderInv, StreamOrder
<1>5. ASSUME NEW i \in 1 .. Len(Stream'), NEW j \in 1 .. Len(Stream'), i < j
      PROVE  /\ Stream'[i].of <= Stream'[j].of
             /\ Stream'[j].kind = "line" => Stream'[i].of < Stream'[j].of
  <2>1. CASE From(i) < From(j)
    BY <1>2, <2>1 DEF OrderInv, StreamOrder
  <2>2. CASE From(i) = From(j) /\ Stream[From(j)].kind # "line"
    <3>1. Stream'[i].of = Stream'[j].of /\ Stream'[j].kind # "line" /\ Stream'[i].of \in 1 .. sent
      BY <1>2, <1>4, <2>2
    <3> QED
      BY <3>1
  <2> QED
    BY <1>3, <1>5, <2>1, <2>2
<1>6. StreamOrder'
  BY <1>0, <1>2, <1>4, <1>5 DEF StreamOrder
<1>7. LinesAhead'
  BY <1>0, <1>2 DEF LinesAhead, OrderInv
<1>8. AnsweredOnce' /\ AnswersInOrder'
  BY <1>0 DEF OrderInv, AnsweredOnce, AnswersInOrder
<1> QED
  BY <1>6, <1>7, <1>8 DEF OrderInv

LEMMA OrderKept ==
  ASSUME TypeOK, OrderInv, Stage, Step
  PROVE  OrderInv'
<1> USE DEF client, worker, history
(* Steps that drop some of the stream, and process the same request. *)
<1>1. ASSUME NEW n \in Nat, Drops(n), UNCHANGED <<sent, answers>>, current' \in {0, current},
             current' # 0 => (pc' = "head" => pc = "head")
      PROVE  OrderInv'
  <2>1. /\ StreamOrder'
        /\ \A i \in 1 .. Len(Stream') : \E j \in 1 .. Len(Stream) : Stream'[i] = Stream[j]
    BY <1>1, Dropped DEF OrderInv
  <2>2. LinesAhead'
    <3>1. ASSUME NEW i \in 1 .. Len(Stream'), Stream'[i].kind = "line"
          PROVE  current' < Stream'[i].of /\ \A k \in DOMAIN answers : answers[k].to < Stream'[i].of
      <4>1. PICK j \in 1 .. Len(Stream) : Stream'[i] = Stream[j]
        BY <2>1
      <4>2. Stream[j].of \in 1 .. sent /\ sent \in Nat /\ current < Stream[j].of
        BY <3>1, <4>1 DEF OrderInv, StreamOrder, LinesAhead, TypeOK
      <4> QED
        BY <1>1, <3>1, <4>1, <4>2 DEF OrderInv, LinesAhead
    <3> QED
      BY <1>1, <3>1 DEF LinesAhead
  <2>3. AnsweredOnce'
    BY <1>1 DEF OrderInv, AnsweredOnce
  <2>4. AnswersInOrder'
    BY <1>1 DEF OrderInv, AnswersInOrder
  <2> QED
    BY <2>1, <2>2, <2>3, <2>4 DEF OrderInv
<1>2. CASE NextRequest
  BY <1>2, OrderNext
<1>3. CASE SendPiece
  BY <1>1, <1>3, StreamSent DEF SendPiece
<1>4. CASE Leave \/ Stop \/ Awake \/ GiveUp
  BY <1>1, <1>4, StreamSame DEF Leave, Stop, Awake, GiveUp
<1>5. CASE Fill
  BY <1>1, <1>5, StreamRead DEF Fill
<1>6. CASE Answering
  BY <1>6, OrderAnswering
<1>7. CASE Hangup
  <2>1. buffer' = <<>> /\ current' = 0 /\ pc' = "closed"
    BY <1>7 DEF Hangup, Return
  <2> QED
    BY <1>1, <1>7, <2>1, StreamReturned DEF Hangup
<1>8. CASE Skip
  BY <1>1, <1>8, StreamTaken DEF Skip
<1>9. CASE Begin
  <2>1. Drops(1) /\ Len(Stream) > 0 /\ Head(buffer) = Stream[1] /\ Len(Stream) \in Nat
    BY <1>9, StreamTaken, StreamType DEF Begin
  <2>2. /\ StreamOrder'
        /\ \A i \in 1 .. Len(Stream') : 1 + i \in 1 .. Len(Stream) /\ Stream'[i] = Stream[1 + i]
    BY <1>9, <2>1, Dropped DEF Begin, OrderInv
  <2>3. /\ current' = Stream[1].of /\ Stream[1].kind = "line" /\ 1 \in 1 .. Len(Stream)
        /\ UNCHANGED <<answers, sent>>
    BY <1>9, <2>1 DEF Begin
  <2>4. ASSUME NEW i \in 1 .. Len(Stream'), Stream'[i].kind = "line"
        PROVE  current' < Stream'[i].of /\ \A k \in DOMAIN answers : answers[k].to < Stream'[i].of
    <3>1. 1 < 1 + i /\ 1 + i \in 1 .. Len(Stream) /\ Stream'[i] = Stream[1 + i]
      BY <2>1, <2>2
    <3> QED
      BY <2>3, <2>4, <3>1 DEF OrderInv, StreamOrder, LinesAhead
  <2>5. LinesAhead'
    BY <2>3, <2>4 DEF LinesAhead
  <2>6. AnsweredOnce'
    <3>1. \A k \in DOMAIN answers : answers[k].to < current' /\ answers[k].to \in Nat
      BY <2>3, AnswerTypes DEF OrderInv, LinesAhead
    <3>2. current' \in Nat
      BY <2>3 DEF OrderInv, StreamOrder
    <3> QED
      BY <2>3, <3>1, <3>2 DEF OrderInv, AnsweredOnce
  <2>7. AnswersInOrder'
    BY <2>3 DEF OrderInv, AnswersInOrder
  <2> QED
    BY <2>2, <2>5, <2>6, <2>7 DEF OrderInv
<1>10. CASE Proceed
  BY <1>10, OrderProceed
<1>11. CASE Unit
  BY <1>1, <1>11, StreamTaken DEF Unit
<1>12. CASE LastChunk
  BY <1>1, <1>12, StreamTaken DEF LastChunk
<1>13. CASE Complete
  BY <1>1, <1>13, StreamSame DEF Complete
<1>14. CASE ReadTrailing
  <2>1. CASE Take
    BY <1>1, <1>14, <2>1, StreamTaken DEF ReadTrailing, TakeTrailer, MissTrailer
  <2>2. CASE UNCHANGED buffer
    BY <1>1, <1>14, <2>2, StreamSame DEF ReadTrailing, TakeTrailer, MissTrailer
  <2> QED
    BY <1>14, <2>1, <2>2 DEF ReadTrailing, TakeTrailer, MissTrailer
<1>15. CASE SendField
  BY <1>15, OrderInserted
<1> QED
  BY <1>2, <1>3, <1>4, <1>5, <1>6, <1>7, <1>8, <1>9, <1>10, <1>11, <1>12, <1>13, <1>14, <1>15 DEF Step
------------------------------------------------------------------------------
(* What was announced is kept to, and who waits has been answered.         *)
LEMMA LastingKept ==
  ASSUME TypeOK, Stage, Lasting, Step
  PROVE  Lasting'
<1> USE DEF client, worker, history
<1>0. Len(answers) \in Nat /\ DOMAIN answers = 1 .. Len(answers)
  BY LenProperties DEF TypeOK
<1>1. ASSUME UNCHANGED answers, pc' # "closed" => pc # "closed", stopping => stopping'
      PROVE  Lasting'
  BY <1>1 DEF Lasting
<1>2. CASE NextRequest \/ SendPiece \/ SendField \/ Leave \/ Stop \/ Awake \/ GiveUp \/ Fill
  BY <1>1, <1>2 DEF NextRequest, SendPiece, SendField, Leave, Stop, Awake, GiveUp, Fill
<1>3. CASE Hangup \/ Skip \/ Begin \/ Unit \/ LastChunk \/ Complete \/ ReadTrailing
  BY <1>1, <1>3 DEF Hangup, Skip, Begin, Unit, LastChunk, Complete, SendField, ReadTrailing, TakeTrailer, MissTrailer, ContentIs
<1>4. CASE Proceed
  <2>1. pc # "closed" /\ UNCHANGED stopping
    BY <1>4 DEF Proceed, HeadRead
  <2>2. CASE answers' = Append(answers, Refusal)
    <3>1. Refusal \in Answers /\ ~ Refusal.close /\ ~ Refusal.cut
      BY DEF Refusal, Answers, TypeOK
    <3>2. /\ DOMAIN answers' = 1 .. Len(answers) + 1
          /\ \A k \in DOMAIN answers : answers'[k] = answers[k]
          /\ answers'[Len(answers) + 1] = Refusal
      BY <2>2, <3>1, Answered
    <3> QED
      BY <1>0, <2>1, <3>1, <3>2 DEF Lasting
  <2> QED
    BY <1>1, <1>4, <2>1, <2>2 DEF Proceed
<1>5. CASE Answering
  <2>1. PICK status \in Nat, body \in {"whole", "provided"}, closed \in BOOLEAN :
          /\ Respond(status, body, closed)
          /\ status >= 400 \/ (pc = "dispatch" /\ closed = Closing)
    BY <1>5 DEF Answering
  <2>2. PICK a \in Answers :
          /\ answers' = Append(answers, a)
          /\ a.status = status
          /\ a.close => status >= 400 \/ left = 1 \/ (current # 0 /\ R.connection = "close")
          /\ pc' = "closed" \/ (pc' = "alive" /\ ~ closed /\ left > 1 /\ (a.cut => stopping))
    BY <2>1, Response
  <2>3. /\ Len(answers') = Len(answers) + 1 /\ DOMAIN answers' = 1 .. Len(answers) + 1
        /\ \A k \in DOMAIN answers : answers'[k] = answers[k]
        /\ answers'[Len(answers) + 1] = a
    BY <2>2, Answered
  <2>4. pc # "closed" /\ UNCHANGED stopping
    BY <1>5 DEF Answering, InContent
  <2>5. \A k \in DOMAIN answers : /\ answers[k].close => answers[k].status >= 400
                                  /\ answers[k].cut => stopping
    BY <2>4 DEF Lasting
  <2>6. ASSUME pc' # "closed"
        PROVE  (a.close => a.status >= 400) /\ (a.cut => stopping)
    <3>1. ~ closed /\ left > 1 /\ (a.cut => stopping) /\ left \in Nat
      BY <2>2, <2>6 DEF TypeOK
    <3>2. status >= 400 \/ ~ Closing
      BY <2>1, <3>1
    <3>3. ASSUME status < 400, a.close PROVE FALSE
      <4>1. pc = "dispatch" /\ current # 0 /\ R.connection = "close"
        BY <2>1, <2>2, <3>1, <3>3
      <4>2. R.head = "ok"
        BY <4>1 DEF Stage, InContent
      <4> QED
        BY <2>1, <3>2, <3>3, <4>1, <4>2 DEF Closing
    <3> QED
      BY <2>2, <3>1, <3>3
  <2> QED
    BY <1>0, <2>3, <2>4, <2>5, <2>6 DEF Lasting
<1> QED
  BY <1>2, <1>3, <1>4, <1>5 DEF Step

LEMMA PermittedKept ==
  ASSUME TypeOK, Stage, Permitted, Step
  PROVE  Permitted'
<1> USE DEF client, worker, history
<1>1. ASSUME UNCHANGED <<script, current, answers, continued>>, pc' \in InContent => pc \in InContent
      PROVE  Permitted'
  BY <1>1 DEF Permitted, R
<1>2. CASE NextRequest \/ SendPiece \/ SendField \/ Leave \/ Stop \/ Awake \/ GiveUp \/ Fill
  BY <1>1, <1>2 DEF NextRequest, SendPiece, SendField, Leave, Stop, Awake, GiveUp, Fill, InContent
<1>3. CASE Skip \/ Unit \/ LastChunk \/ Complete \/ ReadTrailing
  BY <1>1, <1>3 DEF Skip, Unit, LastChunk, Complete, SendField, ReadTrailing, TakeTrailer, MissTrailer, ContentIs, InContent
<1>4. CASE Hangup \/ Begin \/ Answering
  <2>1. pc' \notin InContent
    BY <1>4, Response DEF Hangup, Begin, Answering, Return, InContent
  <2> QED
    BY <2>1 DEF Permitted
<1>5. CASE Proceed
  <2>1. /\ UNCHANGED <<script, current>>
        /\ R.expect => current \in continued' \/ answers' = Append(answers, Refusal)
    BY <1>5 DEF Proceed, Route
  <2>2. CASE answers' = Append(answers, Refusal)
    <3>1. Refusal \in Answers /\ Refusal.to = current
      BY DEF Refusal, Answers, TypeOK
    <3>2. Len(answers) + 1 \in DOMAIN answers' /\ answers'[Len(answers) + 1] = Refusal
      BY <2>2, <3>1, Answered
    <3> QED
      BY <2>1, <3>1, <3>2 DEF Permitted
  <2> QED
    BY <2>1, <2>2 DEF Permitted, R
<1> QED
  BY <1>2, <1>3, <1>4, <1>5 DEF Step
------------------------------------------------------------------------------
(* Client and server stay in step.                                         *)
LEMMA Taking ==
  ASSUME TypeOK, NEW n \in Nat, Drops(n), NEW w, NEW p \in Nat, Len(w) \in Nat,
         NEW f \in Nat, Remains(Stream, w, p, f)
  PROVE  Remains(Stream', w, p + n, f)
<1>1. Len(Stream) \in Nat
  BY StreamType
<1>2. ASSUME NEW i \in 1 .. Len(Stream')
      PROVE  Stream'[i] = IF (p + n) + i < Len(w) THEN w[(p + n) + i]
                          ELSE IF i < Len(Stream') THEN Piece("field", w[1].of)
                          ELSE w[Len(w)]
  <2>1. /\ n + i \in 1 .. Len(Stream) /\ Stream'[i] = Stream[n + i] /\ p + (n + i) = (p + n) + i
        /\ n + i < Len(Stream) <=> i < Len(Stream')
    BY <1>1, <1>2 DEF Drops
  <2> QED
    BY <2>1 DEF Remains
<1>3. Len(Stream') = Len(w) - (p + n) + f
  BY <1>1 DEF Drops, Remains
<1> QED
  BY <1>2, <1>3 DEF Remains

LEMMA NothingBuffered ==
  ASSUME TypeOK, Stream = <<>>
  PROVE  buffer = <<>>
<1>1. Len(Stream) = Len(buffer) + Len(wire) + Len(unsent) /\ Len(Stream) = 0
  BY Joined DEF TypeOK, Stream
<1>2. Len(buffer) = 0
  BY <1>1, LenProperties DEF TypeOK
<1> QED
  BY <1>2, EmptySeq DEF TypeOK

LEMMA FirstBuffered ==
  ASSUME TypeOK, buffer # <<>>
  PROVE  Len(Stream) > 0 /\ Stream[1] = Head(buffer)
<1>1. /\ buffer \in Seq(Pieces) /\ wire \in Seq(Pieces) /\ unsent \in Seq(Pieces)
      /\ Len(buffer) \in Nat /\ Len(buffer) > 0 /\ Head(buffer) = buffer[1]
      /\ Len(wire) \in Nat /\ Len(unsent) \in Nat
  BY LenProperties, EmptySeq, HeadTailProperties DEF TypeOK
<1> QED
  BY <1>1, Joined DEF Stream

(* Nothing that went wrong is forgotten. *)
LEMMA WasClean ==
  ASSUME TypeOK, Stage, Step, Clean'
  PROVE  /\ Clean
         /\ Proceed => answers' = answers
         /\ Answering => /\ pc = "dispatch" /\ ~ LeftUnread /\ lost' = lost \cup Leftover
                         /\ \E a \in Answers : answers' = Append(answers, a) /\ a.to = current
<1> USE DEF client, worker, history
<1>1. CASE Answering
  <2>1. PICK status \in Nat, body \in {"whole", "provided"}, closed \in BOOLEAN :
          /\ Respond(status, body, closed)
          /\ status >= 400 \/ (pc = "dispatch" /\ closed = Closing)
    BY <1>1 DEF Answering
  <2>2. PICK a \in Answers :
          /\ answers' = Append(answers, a)
          /\ a.to = current /\ a.status = status
          /\ lost' = lost \cup Leftover
          /\ blemish' = blemish \cup (IF current # 0 /\ LeftUnread THEN {"unread"} ELSE {})
    BY <2>1, Response
  <2>3. /\ Len(answers) \in Nat
        /\ DOMAIN answers = 1 .. Len(answers) /\ DOMAIN answers' = 1 .. Len(answers) + 1
        /\ \A k \in DOMAIN answers : answers'[k] = answers[k]
        /\ answers'[Len(answers) + 1] = a
    BY <2>2, Answered
  <2>4. Clean
    BY <1>1, <2>2, <2>3 DEF Answering, Clean
  <2>5. status < 400
    BY <2>2, <2>3 DEF Clean
  <2>6. pc = "dispatch"
    BY <2>1, <2>5
  <2>7. current # 0
    BY <2>6 DEF Stage, InContent
  <2>8. ~ LeftUnread
    BY <2>2, <2>7 DEF Clean
  <2>9. ~ Proceed
    BY <2>6 DEF Proceed, HeadRead
  <2> QED
    BY <2>2, <2>4, <2>6, <2>8, <2>9
<1>2. CASE Proceed
  <2>1. CASE answers' = Append(answers, Refusal)
    <3>1. Refusal \in Answers /\ Refusal.status = 417
      BY DEF Refusal, Answers, TypeOK
    <3>2. Len(answers) + 1 \in DOMAIN answers' /\ answers'[Len(answers) + 1] = Refusal
      BY <2>1, <3>1, Answered
    <3> QED
      BY <3>1, <3>2 DEF Clean
  <2>2. ~ Answering \/ pc = "head"
    BY <1>2 DEF Proceed, HeadRead
  <2>3. Clean
    BY <1>2, <2>1 DEF Proceed, Clean
  <2> QED
    BY <1>1, <1>2, <2>1, <2>3 DEF Proceed
<1>3. CASE ~ Answering /\ ~ Proceed
  <2>1. UNCHANGED <<patient, answers>>
    BY <1>3 DEF Step, NextRequest, SendPiece, Leave, Stop, Awake, GiveUp, Fill, Hangup, Skip, Begin,
                Unit, LastChunk, Complete, SendField, ReadTrailing, TakeTrailer, MissTrailer
  <2>2. blemish \subseteq blemish'
    BY <1>3 DEF Step, NextRequest, SendPiece, Leave, Stop, Awake, GiveUp, Fill, Hangup, Skip, Begin,
                Unit, LastChunk, Complete, SendField, ReadTrailing, TakeTrailer, MissTrailer, Return
  <2> QED
    BY <1>3, <2>1, <2>2 DEF Clean
<1> QED
  BY <1>1, <1>2, <1>3

LEMMA SyncNext ==
  ASSUME TypeOK, Stage, Synchrony, patient, NextRequest
  PROVE  Synchrony'
<1> USE DEF client, worker, history
<1>1. /\ sent' = sent + 1 /\ sent \in Nat /\ Len(answers) \in Nat /\ pc # "closed"
      /\ Len(answers) >= sent
      /\ UNCHANGED <<script, answers, lost, mixed, current, pc, got>>
  BY DEF NextRequest, TypeOK
<1>2. sent = Len(answers) /\ Stream = <<>> /\ current = 0 /\ ~ mixed
  BY <1>1 DEF Synchrony
<1>3. /\ sent + 1 \in 1 .. Len(script)
      /\ Len(Stream') = Len(Stream) + Len(Whole(sent + 1))
      /\ \A i \in 1 .. Len(Whole(sent + 1)) : Stream'[Len(Stream) + i] = Whole(sent + 1)[i]
  BY Appended
<1>4. Len(Whole(sent + 1)) \in Nat /\ Len(Stream) = 0
  BY <1>2, <1>3, RequestParts, LenProperties
<1>5. Remains(Stream', Whole(sent + 1), 0, 0)
  BY <1>3, <1>4 DEF Remains
<1>6. Whole(sent)' = Whole(sent + 1)
  BY <1>1 DEF Whole, Lines, Content
<1>7. Rest(0)'
  BY <1>5, <1>6 DEF Rest
<1>8. pc \in {"alive", "line"}
  BY <1>1, <1>2 DEF Stage, TypeOK, InContent
<1>9. Progress'
  BY <1>1, <1>7, <1>8 DEF Progress
<1> QED
  BY <1>1, <1>2, <1>9 DEF Synchrony
(* Rest, when n more pieces are taken. *)
LEMMA RestKept ==
  ASSUME TypeOK, sent # 0, NEW n \in Nat, Drops(n), UNCHANGED <<script, sent>>,
         NEW p \in Nat, Rest(p)
  PROVE  Rest(p + n)'
<1>1. Len(Whole(sent)) \in Nat
  BY RequestParts, LenProperties DEF TypeOK
<1>2. PICK f \in Nat : /\ f = 0 \/ script[sent].framing = "chunked"
                       /\ Remains(Stream, Whole(sent), p, f)
  BY DEF Rest
<1>3. Remains(Stream', Whole(sent), p + n, f)
  BY <1>1, <1>2, Taking
<1>4. Whole(sent)' = Whole(sent)
  BY DEF Whole, Lines, Content
<1> QED
  BY <1>2, <1>3, <1>4 DEF Rest

(* What comes next, when not all of the request is taken. *)
LEMMA NextPiece ==
  ASSUME TypeOK, sent \in 1 .. Len(script), NEW p \in Nat, Rest(p), p < Len(Whole(sent))
  PROVE  /\ Len(Stream) > 0
         /\ \/ Stream[1] = Whole(sent)[p + 1]
            \/ /\ p + 1 = Len(Whole(sent)) /\ script[sent].framing = "chunked"
               /\ Stream[1] = Piece("field", sent)
<1> DEFINE w == Whole(sent)
<1>1. Len(w) \in Nat /\ w[1].of = sent
  <2>1. w \in Seq(Pieces) /\ Len(w) >= 2 /\ \A j \in 1 .. Len(w) : w[j].of = sent
    BY RequestParts
  <2>2. Len(w) \in Nat
    BY <2>1, LenProperties
  <2> QED
    BY <2>1, <2>2
<1>2. PICK f \in Nat : /\ f = 0 \/ script[sent].framing = "chunked"
                       /\ Remains(Stream, w, p, f)
  BY DEF Rest
<1> HIDE DEF w
<1>3. /\ Len(Stream) = Len(w) - p + f /\ Len(Stream) \in Nat
      /\ \A i \in 1 .. Len(Stream) :
           Stream[i] = IF p + i < Len(w) THEN w[p + i]
                       ELSE IF i < Len(Stream) THEN Piece("field", w[1].of)
                       ELSE w[Len(w)]
  BY <1>2, StreamType DEF Remains
<1>4. p < Len(w)
  BY DEF w
<1>5. 1 \in 1 .. Len(Stream)
  BY <1>1, <1>3, <1>4
<1>6. CASE p + 1 < Len(w)
  BY <1>3, <1>5, <1>6 DEF w
<1>7. CASE p + 1 = Len(w) /\ f = 0
  BY <1>1, <1>3, <1>5, <1>7 DEF w
<1>8. CASE p + 1 = Len(w) /\ f # 0
  BY <1>1, <1>2, <1>3, <1>5, <1>8 DEF w
<1> QED
  BY <1>1, <1>4, <1>5, <1>6, <1>7, <1>8

(* Behind a trailer line there is still the last piece, ... *)
LEMMA FieldTaken ==
  ASSUME TypeOK, sent # 0, Drops(1), UNCHANGED <<script, sent>>,
         script[sent].framing = "chunked",
         Rest(Len(Whole(sent)) - 1), Stream[1].kind = "field"
  PROVE  Rest(Len(Whole(sent)) - 1)'
<1> DEFINE w == Whole(sent)
<1>0. sent \in 1 .. Len(script)
  BY DEF TypeOK
<1>2. Len(w) \in Nat /\ Len(w) >= 2 /\ w[Len(w)].kind = "end"
  <2>1. w \in Seq(Pieces) /\ Len(w) >= 2 /\ w[Len(w)].kind = "end"
    BY <1>0, RequestParts
  <2> QED
    BY <2>1, LenProperties
<1>3. PICK f \in Nat : /\ f = 0 \/ script[sent].framing = "chunked"
                       /\ Remains(Stream, w, Len(w) - 1, f)
  BY DEF Rest
<1>4. Whole(sent)' = w
  BY DEF Whole, Lines, Content
<1> HIDE DEF w
<1>5. Len(Stream) = f + 1 /\ Len(Stream') = f /\ Len(Stream) \in Nat
  BY <1>2, <1>3, StreamType DEF Remains, Drops
<1>6. f # 0
  <2>1. ASSUME f = 0 PROVE Stream[1] = w[Len(w)]
    BY <1>2, <1>3, <1>5, <2>1 DEF Remains
  <2> QED
    BY <1>2, <2>1
<1>7. f - 1 \in Nat
  BY <1>6
<1>8. ASSUME NEW i \in 1 .. f
      PROVE  Stream'[i] = IF i < f THEN Piece("field", w[1].of) ELSE w[Len(w)]
  <2>1. Stream'[i] = Stream[1 + i] /\ 1 + i \in 1 .. Len(Stream) /\ ~ ((Len(w) - 1) + (1 + i) < Len(w))
    BY <1>2, <1>5, <1>8 DEF Drops
  <2>2. Stream[1 + i] = IF 1 + i < Len(Stream) THEN Piece("field", w[1].of) ELSE w[Len(w)]
    BY <1>3, <2>1 DEF Remains
  <2> QED
    BY <1>5, <2>1, <2>2
<1>9. Remains(Stream', w, Len(w) - 1, f - 1)
  BY <1>2, <1>5, <1>6, <1>8 DEF Remains
<1> QED
  BY <1>3, <1>4, <1>6, <1>7, <1>9 DEF Rest

(* ... and nothing behind that. *)
LEMMA EndTaken ==
  ASSUME TypeOK, TypeOK', sent # 0, Drops(1),
         Rest(Len(Whole(sent)) - 1), Stream[1].kind = "end"
  PROVE  Stream' = <<>>
<1> DEFINE w == Whole(sent)
<1>1. Len(w) \in Nat
  BY RequestParts, LenProperties DEF TypeOK
<1>2. PICK f \in Nat : Remains(Stream, w, Len(w) - 1, f)
  BY DEF Rest
<1> HIDE DEF w
<1>3. Len(Stream) = f + 1 /\ Len(Stream') = f
  BY <1>1, <1>2, StreamType DEF Remains, Drops
<1>4. f = 0
  <2>1. ASSUME f # 0 PROVE Stream[1] = Piece("field", w[1].of)
    BY <1>1, <1>2, <1>3, <2>1 DEF Remains
  <2> QED
    BY <2>1 DEF Piece
<1>5. Stream' \in Seq(Pieces) /\ Len(Stream') \in Nat
  BY Joined, LenProperties DEF TypeOK, Stream
<1> QED
  BY <1>3, <1>4, <1>5, EmptySeq

(* One more trailer line leaves what is before it as it is. *)
LEMMA FieldSent ==
  ASSUME TypeOK, sent # 0, SendField, NEW p \in Nat, Rest(p),
         script[sent].framing = "chunked" => p < Len(Whole(sent))
  PROVE  Rest(p)'
<1> DEFINE w == Whole(sent)
<1>0. sent \in 1 .. Len(script) /\ UNCHANGED <<script, sent>> /\ Len(Stream) \in Nat
  BY StreamType DEF TypeOK, SendField
<1>1. /\ Len(w) \in Nat /\ w[1].of = sent
      /\ \A j \in 1 .. Len(w) : w[j].of = sent /\ (w[j].kind = "end" => j = Len(w) /\ script[sent].framing = "chunked")
  <2>1. w \in Seq(Pieces) /\ Len(w) >= 2 /\ \A j \in 1 .. Len(w) : w[j].of = sent
    BY <1>0, RequestParts
  <2>2. Len(w) \in Nat
    BY <2>1, LenProperties
  <2> QED
    BY <1>0, <2>1, <2>2, RequestParts
<1>2. PICK f \in Nat : /\ f = 0 \/ script[sent].framing = "chunked"
                       /\ Remains(Stream, w, p, f)
  BY DEF Rest
<1>3. Whole(sent)' = w
  BY <1>0 DEF Whole, Lines, Content
<1>4. PICK q \in 1 .. Len(Stream) :
        /\ Stream[q].kind = "end"
        /\ Len(Stream') = Len(Stream) + 1
        /\ \A i \in 1 .. Len(Stream) + 1 :
             Stream'[i] = IF i < q THEN Stream[i]
                          ELSE IF i = q THEN Piece("field", Stream[q].of)
                          ELSE Stream[i - 1]
  BY StreamInserted
<1>5. script[sent].framing = "chunked" => p < Len(w)
  OBVIOUS
<1> HIDE DEF w
<1>6. /\ Len(Stream) = Len(w) - p + f
      /\ \A i \in 1 .. Len(Stream) :
           Stream[i] = IF p + i < Len(w) THEN w[p + i]
                       ELSE IF i < Len(Stream) THEN Piece("field", sent)
                       ELSE w[Len(w)]
  BY <1>1, <1>2 DEF Remains
<1>12. Len(w) \in 1 .. Len(w)
  <2>1. Len(Whole(sent)) >= 2
    BY <1>0, RequestParts
  <2> QED
    BY <1>1, <2>1 DEF w
<1>7. q = Len(Stream) /\ Stream[q] = w[Len(w)]
  <2>1. CASE p + q < Len(w)
    <3>1. Stream[q] = w[p + q] /\ p + q \in 1 .. Len(w)
      BY <1>1, <1>6, <2>1
    <3> QED
      BY <1>1, <1>4, <2>1, <3>1
  <2>2. CASE ~ (p + q < Len(w)) /\ q < Len(Stream)
    <3>1. Stream[q] = Piece("field", sent)
      BY <1>6, <2>2
    <3> QED
      BY <1>4, <3>1 DEF Piece
  <2>3. CASE ~ (p + q < Len(w)) /\ q = Len(Stream)
    BY <1>6, <2>3
  <2> QED
    BY <1>0, <2>1, <2>2, <2>3
<1>8. w[Len(w)].of = sent /\ script[sent].framing = "chunked"
  BY <1>1, <1>4, <1>7, <1>12
<1>9. ASSUME NEW i \in 1 .. Len(Stream')
      PROVE  Stream'[i] = IF p + i < Len(w) THEN w[p + i]
                          ELSE IF i < Len(Stream') THEN Piece("field", w[1].of)
                          ELSE w[Len(w)]
  <2>1. CASE i < Len(Stream)
    <3>1. i \in 1 .. Len(Stream) /\ i < q /\ i < Len(Stream') /\ i \in 1 .. Len(Stream) + 1
      BY <1>0, <1>4, <1>7, <2>1
    <3>2. Stream'[i] = Stream[i]
      BY <1>4, <3>1
    <3> QED
      BY <1>1, <1>6, <2>1, <3>1, <3>2
  <2>2. CASE i = Len(Stream)
    <3>1. Stream'[i] = Piece("field", sent) /\ i < Len(Stream')
      BY <1>0, <1>4, <1>7, <1>8, <2>2
    <3>2. ~ (p + i < Len(w))
      BY <1>1, <1>6, <2>2
    <3> QED
      BY <1>1, <3>1, <3>2
  <2>3. CASE i = Len(Stream) + 1
    <3>1. Stream'[i] = Stream[Len(Stream)] /\ i = Len(Stream')
      BY <1>0, <1>4, <1>7, <2>3
    <3>2. ~ (p + i < Len(w))
      BY <1>1, <1>6, <2>3
    <3> QED
      BY <1>7, <3>1, <3>2
  <2> QED
    BY <1>0, <1>4, <2>1, <2>2, <2>3
<1>10. Remains(Stream', w, p, f + 1)
  BY <1>0, <1>1, <1>4, <1>6, <1>9 DEF Remains
<1>11. f + 1 \in Nat
  OBVIOUS
<1> QED
  BY <1>0, <1>3, <1>8, <1>10, <1>11 DEF Rest

LEMMA EmptyKept ==
  ASSUME TypeOK, TypeOK', NEW n \in Nat, Drops(n), Stream = <<>>
  PROVE  Stream' = <<>>
<1>1. Stream' \in Seq(Pieces) /\ Len(Stream') \in Nat
  BY Joined, LenProperties DEF TypeOK, Stream
<1>2. Len(Stream') = 0
  BY <1>1 DEF Drops
<1> QED
  BY <1>1, <1>2, EmptySeq

(* Steps of client and connection that take nothing. *)
LEMMA SyncIdle ==
  ASSUME TypeOK, TypeOK', Stage, Synchrony, Drops(0),
         pc \in {"alive", "line"} => pc' \in {"alive", "line"},
         pc \notin {"alive", "line"} => pc' = pc,
         UNCHANGED <<script, sent, answers, lost, mixed, current, got>>
  PROVE  Synchrony'
<1>1. CASE pc = "closed"
  BY <1>1 DEF Synchrony
<1>2. CASE pc # "closed" /\ sent = Len(answers) /\ Stream = <<>> /\ current = 0
  BY <1>2, EmptyKept DEF Synchrony
<1>3. CASE pc # "closed" /\ sent = Len(answers) + 1 /\ current \in {0, sent} /\ Progress
  <2>1. sent # 0 /\ sent \in Nat /\ sent \in 1 .. Len(script) /\ got \in Nat
    BY <1>3, LenProperties DEF TypeOK
  <2>2. ASSUME NEW p \in Nat, Rest(p)
        PROVE  Rest(p)'
    BY <2>1, <2>2, RestKept
  <2>3. Len(Whole(sent)) \in Nat /\ Len(Whole(sent)) >= 2
    BY <2>1, RequestParts, LenProperties
  <2>4. Len(Whole(sent))' = Len(Whole(sent)) /\ LeftUnread' = LeftUnread
    BY DEF Whole, Lines, Content, LeftUnread, R, ExpectsContent, Unmeasured
  <2>5. /\ 0 \in Nat /\ 1 \in Nat /\ 2 + got \in Nat /\ Len(Whole(sent)) - 1 \in Nat
        /\ 2 + got' = 2 + got /\ R' = R /\ Len(Whole(sent))' - 1 = Len(Whole(sent)) - 1
    BY <2>1, <2>3, <2>4 DEF R
  <2>7. pc = "dispatch" => LeftUnread \/ Stream' = <<>>
    BY <1>3, EmptyKept DEF Progress
  <2>8. ASSUME NEW p, p = 0 \/ p = 1 \/ p = 2 + got \/ p = Len(Whole(sent)) - 1, Rest(p)
        PROVE  Rest(p)'
    BY <2>2, <2>5, <2>8
  <2>6. Progress'
    BY <1>3, <2>4, <2>5, <2>7, <2>8 DEF Progress, Rest
  <2> QED
    BY <1>3, <2>6 DEF Synchrony
<1> QED
  BY <1>1, <1>2, <1>3 DEF Synchrony

(* Steps that take a piece of what is processed, or the end of it. *)
LEMMA SyncTaking ==
  ASSUME TypeOK, TypeOK', Stage, Synchrony, pc \in {"line", "head"} \cup InContent,
         NEW n \in 0 .. 1, Drops(n), Len(Stream) > 0 \/ current # 0, ~ mixed',
         UNCHANGED <<script, sent, answers, lost>>,
         current' \in {0, sent},
         NEW p \in Nat, Rest(p),
         pc' = "line" => p + n = 0, pc' = "head" => p + n = 1,
         pc' = "content" => p + n = 2 + got' /\ (R.framing = "chunked" => got <= R.size)',
         pc' \in {"trailer", "trailers"} => p + n = Len(Whole(sent)) - 1,
         pc' = "dispatch" => LeftUnread' \/ Stream' = <<>>,
         pc' \in {"line", "head"} \cup InContent
  PROVE  Synchrony'
<1>1. sent = Len(answers) + 1 /\ sent # 0
  <2>1. Stream = <<>> => Len(Stream) = 0
    OBVIOUS
  <2>2. pc # "closed"
    BY DEF InContent
  <2> QED
    BY <2>1, <2>2, LenProperties DEF Synchrony, TypeOK
<1>2. Rest(p + n)'
  BY <1>1, RestKept
<1>3. Len(Whole(sent))' = Len(Whole(sent))
  BY DEF Whole, Lines, Content
<1>5. PICK m \in Nat : m = p + n
  OBVIOUS
<1>6. Rest(m)'
  BY <1>2, <1>5
<1>7. m = 0 => Rest(0)'
  BY <1>6
<1>8. m = 1 => Rest(1)'
  BY <1>6
<1>9. m = 2 + got' => Rest(2 + got)'
  BY <1>6
<1>10. m = Len(Whole(sent)) - 1 => Rest(Len(Whole(sent)) - 1)'
  <2>1. Len(Whole(sent))' - 1 = Len(Whole(sent)) - 1
    BY <1>3
  <2> QED
    BY <1>6, <2>1
<1>4. Progress'
  BY <1>5, <1>7, <1>8, <1>9, <1>10 DEF Progress, InContent
<1> QED
  BY <1>1, <1>4 DEF Synchrony
LEMMA SyncKept ==
  ASSUME TypeOK, TypeOK', Stage, Stage', OrderInv, Clean => Synchrony, Step, Clean'
  PROVE  Synchrony'
<1> USE DEF client, worker, history
<1>0. Clean /\ Synchrony
  BY WasClean
<1>1. CASE NextRequest
  BY <1>0, <1>1, SyncNext DEF Clean
<1>2. CASE SendPiece \/ Leave \/ Stop \/ Awake \/ Fill
  <2>1. Drops(0)
    BY <1>2, StreamSent, StreamRead, StreamSame DEF Leave, Stop, Awake
  <2>2. /\ pc \in {"alive", "line"} => pc' \in {"alive", "line"}
        /\ pc \notin {"alive", "line"} => pc' = pc
        /\ UNCHANGED <<script, sent, answers, lost, mixed, current, got>>
    BY <1>2 DEF SendPiece, Leave, Stop, Awake, Fill
  <2> QED
    BY <1>0, <2>1, <2>2, SyncIdle
<1>3. CASE GiveUp
  BY <1>0, <1>3 DEF GiveUp, Synchrony
<1>4. CASE Hangup
  <2>1. pc' = "closed" /\ lost' = lost \cup Leftover /\ UNCHANGED <<script, answers>>
    BY <1>4 DEF Hangup, Return
  <2>2. Leftover = {}
    BY <1>4 DEF Hangup, Leftover
  <2> QED
    BY <1>0, <2>1, <2>2 DEF Synchrony
<1>5. CASE Answering
  <2>1. pc = "dispatch" /\ ~ LeftUnread /\ lost' = lost \cup Leftover /\ current # 0
    BY <1>5, WasClean DEF Stage, InContent
  <2>2. PICK a \in Answers : answers' = Append(answers, a) /\ a.to = current
    BY <1>5, WasClean
  <2>3. /\ Len(answers) \in Nat /\ Len(answers') = Len(answers) + 1
        /\ DOMAIN answers = 1 .. Len(answers) /\ DOMAIN answers' = 1 .. Len(answers) + 1
        /\ \A k \in DOMAIN answers : answers'[k] = answers[k]
        /\ answers'[Len(answers) + 1] = a
    BY <2>2, Answered
  <2>4. current = sent /\ sent = Len(answers) + 1 /\ Stream = <<>> /\ R.line
    BY <1>0, <2>1 DEF Synchrony, Progress, Stage, InContent
  <2>5. sent \in 1 .. Len(script)
    BY <2>3, <2>4 DEF TypeOK
  <2>8. Leftover = {}
    BY <2>4, NothingBuffered DEF Leftover
  <2>9. buffer' = <<>> /\ current' = 0 /\ ~ mixed' /\ UNCHANGED <<script, sent>>
    BY <1>5, Response DEF Answering
  <2>10. Stream' = <<>>
    BY <1>5, <2>4, <2>9, StreamReturned, EmptyKept DEF Answering
  <2>11. \A k \in DOMAIN answers' : k <= Len(script) /\ script[k].line /\ answers'[k].to = k
    <3>1. a.to = sent /\ sent <= Len(script) /\ script[sent].line
      BY <2>2, <2>4, <2>5 DEF R
    <3>2. \A k \in DOMAIN answers : k <= Len(script) /\ script[k].line /\ answers[k].to = k
      BY <1>0 DEF Synchrony
    <3> QED
      BY <2>3, <2>4, <3>1, <3>2
  <2> QED
    BY <1>0, <2>1, <2>3, <2>4, <2>8, <2>9, <2>10, <2>11 DEF Synchrony
(* When pieces are left of it, or it is processed, the request is the last one sent. *)
<1>6. ASSUME pc # "closed", Len(Stream) > 0 \/ current # 0
      PROVE  /\ sent = Len(answers) + 1 /\ sent \in 1 .. Len(script)
             /\ Len(Whole(sent)) \in Nat /\ Len(Whole(sent)) >= 2
             /\ Progress /\ current \in {0, sent} /\ ~ mixed
  <2>1. Stream = <<>> => Len(Stream) = 0
    OBVIOUS
  <2>2. sent = Len(answers) + 1 /\ Progress /\ current \in {0, sent} /\ ~ mixed
    BY <1>0, <1>6, <2>1 DEF Synchrony
  <2>3. sent \in 1 .. Len(script)
    BY <2>2, LenProperties DEF TypeOK
  <2> QED
    BY <2>2, <2>3, RequestParts, LenProperties
<1>7. CASE Skip
  <2>1. Len(Stream) > 0 /\ Head(buffer) = Stream[1] /\ Stream[1].kind = "data" /\ pc = "line"
    BY <1>7, StreamTaken DEF Skip
  <2>2. Rest(0) /\ sent \in 1 .. Len(script) /\ Len(Whole(sent)) \in Nat
    BY <1>6, <2>1 DEF Progress
  <2>3. Stream[1] = Whole(sent)[1]
    BY <1>6, <2>1, <2>2, NextPiece
  <2> QED
    BY <2>1, <2>2, <2>3, RequestParts
<1>8. CASE Begin
  <2>1. /\ Drops(1) /\ Len(Stream) > 0 /\ pc = "line" /\ pc' = "head" /\ current' = Stream[1].of
        /\ UNCHANGED <<script, sent, answers, lost, mixed>>
    BY <1>8, StreamTaken DEF Begin
  <2>2. Rest(0) /\ sent \in 1 .. Len(script) /\ Len(Whole(sent)) \in Nat /\ ~ mixed
    BY <1>6, <2>1 DEF Progress
  <2>3. Stream[1] = Whole(sent)[1]
    BY <1>6, <2>1, <2>2, NextPiece
  <2>4. Whole(sent)[1].of = sent
    BY <2>2, RequestParts
  <2> QED
    BY <1>0, <2>1, <2>2, <2>3, <2>4, SyncTaking
(* While content is read: what there is of it *)
<1>9. ASSUME pc \in {"head"} \cup InContent, R.head = "ok"
      PROVE  /\ current # 0 /\ current = sent /\ sent \in 1 .. Len(script) /\ Progress /\ ~ mixed
             /\ R = script[sent] /\ R.size \in Nat
             /\ Len(Content(sent)) \in Nat
             /\ Len(Whole(sent)) = 2 + Len(Content(sent))
             /\ \A j \in 1 .. Len(Content(sent)) : Whole(sent)[2 + j] = Content(sent)[j]
             /\ Content(current) # <<>> <=> Len(Content(sent)) > 0
  <2>1. current # 0 /\ R.line /\ pc # "closed"
    BY <1>9 DEF Stage, InContent
  <2>2. current = sent /\ sent \in 1 .. Len(script) /\ Progress /\ ~ mixed
    BY <1>6, <2>1
  <2>3. R = script[sent] /\ script[sent] \in Requests
    BY <2>2 DEF R, TypeOK
  <2>4. Content(sent) \in Seq(Pieces) /\ Len(Content(sent)) \in Nat
    BY <2>2, ContentParts, LenProperties
  <2>5. Content(sent) # <<>> <=> Len(Content(sent)) > 0
    BY <2>4, EmptySeq
  <2>6. R.size \in Nat
    BY <2>3 DEF Requests
  <2> QED
    BY <1>9, <2>1, <2>2, <2>3, <2>4, <2>5, <2>6, RequestParts
<1>10. CASE Proceed
  <2>1. /\ Take /\ UNCHANGED <<wire, unsent, script, sent, mixed, current, got, lost>>
        /\ pc = "head" /\ R.head = "ok" /\ answers' = answers
        /\ pc' = IF ~ R.early /\ ExpectsContent THEN "content" ELSE "dispatch"
    BY <1>10, WasClean DEF Proceed, HeadRead, Route, Take
  <2>2. Drops(1) /\ got' = 0 /\ Rest(1) /\ current = sent /\ ~ mixed
    BY <1>9, <2>1, StreamTaken DEF Stage, Progress
  <2>3. LeftUnread' = LeftUnread
    BY <2>1 DEF LeftUnread, Content, R, ExpectsContent, Unmeasured
  <2>4. ASSUME pc' = "dispatch", ~ LeftUnread PROVE Stream' = <<>>
    <3>1. Content(current) = <<>>
      BY <2>1, <2>4 DEF LeftUnread
    <3>2. Len(Whole(sent)) = 2 /\ (script[sent].framing # "chunked")
      <4>1. Len(Content(sent)) = 0
        BY <1>9, <2>1, <3>1
      <4>2. script[sent].framing = "chunked" => Len(Content(sent)) = R.size + 2 /\ R.size \in Nat
        BY <1>9, <2>1, ContentParts
      <4> QED
        BY <1>9, <2>1, <4>1, <4>2
    <3>3. Len(Stream) = 1
      BY <2>2, <3>2 DEF Rest, Remains
    <3>4. Stream' \in Seq(Pieces) /\ Len(Stream') = 0
      BY <2>2, <3>3, Joined DEF TypeOK, Stream, Drops
    <3> QED
      BY <3>4, EmptySeq
  <2>5. R' = R /\ R.size \in Nat
    BY <1>9, <2>1 DEF R
  <2>6. (R.framing = "chunked" => got <= R.size)'
    BY <2>2, <2>5
  <2>7. /\ UNCHANGED <<script, sent, answers, lost>> /\ ~ mixed' /\ current' \in {0, sent}
        /\ pc \in {"line", "head"} \cup InContent /\ pc' \in {"content", "dispatch"} /\ current # 0
        /\ 1 + 1 = 2 + got'
    BY <1>9, <2>1, <2>2
  <2>8. pc' = "dispatch" => LeftUnread' \/ Stream' = <<>>
    BY <2>3, <2>4
  <2> QED
    BY <1>0, <2>2, <2>6, <2>7, <2>8, SyncTaking DEF InContent
<1>11. CASE Unit
  <2>1. /\ Take /\ UNCHANGED <<wire, unsent, script, sent, mixed, current, lost, answers, pc>>
        /\ pc = "content" /\ got' = got + 1 /\ got \in Nat
    BY <1>11 DEF Unit, TypeOK
  <2>2. R.head = "ok"
    BY <2>1 DEF Stage, InContent
  <2>3. Drops(1) /\ Rest(2 + got) /\ current = sent /\ ~ mixed /\ current # 0
    BY <1>9, <2>1, <2>2, StreamTaken DEF Progress, InContent
  <2>4. 2 + got \in Nat /\ (2 + got) + 1 = 2 + got' /\ R' = R
    BY <2>1 DEF R
  <2>5. ASSUME R.framing = "chunked" PROVE got' <= R.size
    <3>1. /\ Head(buffer).kind = "chunk" /\ Head(buffer) = Stream[1]
          /\ got <= R.size /\ R.size \in Nat /\ R = script[sent] /\ sent \in 1 .. Len(script)
          /\ Len(Whole(sent)) = 2 + Len(Content(sent)) /\ Len(Content(sent)) = R.size + 2
          /\ \A j \in 1 .. Len(Content(sent)) : Whole(sent)[2 + j] = Content(sent)[j]
          /\ Content(sent)[R.size + 1].kind = "last"
      <4>1. /\ got <= R.size /\ R.size \in Nat /\ R = script[sent] /\ sent \in 1 .. Len(script)
            /\ Len(Whole(sent)) = 2 + Len(Content(sent))
            /\ \A j \in 1 .. Len(Content(sent)) : Whole(sent)[2 + j] = Content(sent)[j]
        BY <1>9, <2>1, <2>2, <2>5 DEF Progress, InContent
      <4>2. Len(Content(sent)) = R.size + 2 /\ Content(sent)[R.size + 1].kind = "last"
        BY <2>5, <4>1, ContentParts
      <4>3. Head(buffer).kind = "chunk" /\ Head(buffer) = Stream[1]
        BY <1>11, <2>1, <2>5, StreamTaken DEF Unit
      <4> QED
        BY <4>1, <4>2, <4>3
    <3>2. 2 + got < Len(Whole(sent)) /\ (2 + got) + 1 # Len(Whole(sent))
      BY <2>1, <3>1
    <3>3. Stream[1] = Whole(sent)[(2 + got) + 1]
      BY <2>3, <2>4, <3>1, <3>2, NextPiece
    <3>4. got + 1 \in 1 .. Len(Content(sent)) /\ (2 + got) + 1 = 2 + (got + 1)
      <4>1. got \in Nat /\ got <= R.size /\ R.size \in Nat /\ Len(Content(sent)) = R.size + 2
        BY <2>1, <3>1
      <4> QED
        BY <4>1
    <3>5. Content(sent)[got + 1].kind = "chunk"
      BY <3>1, <3>3, <3>4
    <3>6. got # R.size
      BY <3>1, <3>5
    <3> QED
      BY <2>1, <3>1, <3>6
  <2>6. (R.framing = "chunked" => got <= R.size)'
    BY <2>4, <2>5
  <2> QED
    BY <1>0, <2>1, <2>3, <2>4, <2>6, SyncTaking DEF InContent
<1>12. CASE LastChunk
  <2>1. /\ Take /\ UNCHANGED <<wire, unsent, script, sent, mixed, current, lost, answers>>
        /\ pc = "content" /\ pc' = "trailer" /\ got \in Nat /\ R.framing = "chunked"
        /\ Head(buffer).kind = "last"
    BY <1>12 DEF LastChunk, ContentIs, TypeOK
  <2>2. R.head = "ok"
    BY <2>1 DEF Stage, InContent
  <2>3. /\ Drops(1) /\ Rest(2 + got) /\ current = sent /\ ~ mixed /\ current # 0
        /\ Len(Stream) > 0 /\ Head(buffer) = Stream[1] /\ Len(Stream) \in Nat
    BY <1>9, <2>1, <2>2, StreamTaken, StreamType DEF Progress, InContent
  <2>4. /\ Len(Content(sent)) = R.size + 2 /\ R.size \in Nat
        /\ Len(Whole(sent)) = 2 + Len(Content(sent))
        /\ \A j \in 1 .. Len(Content(sent)) : Whole(sent)[2 + j] = Content(sent)[j]
        /\ \A j \in 1 .. R.size : Content(sent)[j].kind = "chunk"
        /\ Content(sent)[R.size + 2].kind = "end"
    BY <1>9, <2>1, <2>2, ContentParts DEF InContent
  <2>5. Stream[1] = Whole(sent)[(2 + got) + 1] /\ (2 + got) + 1 <= Len(Whole(sent))
    <3>1. got <= R.size /\ sent \in 1 .. Len(script)
      BY <1>9, <2>1, <2>2 DEF Progress, InContent
    <3>2. 2 + got \in Nat /\ 2 + got < Len(Whole(sent)) /\ (2 + got) + 1 # Len(Whole(sent))
      BY <2>1, <2>4, <3>1
    <3> QED
      BY <2>3, <2>4, <3>1, <3>2, NextPiece
  <2>6. got + 1 \in 1 .. Len(Content(sent)) /\ (2 + got) + 1 = 2 + (got + 1)
    BY <2>1, <2>4, <2>5
  <2>7. Content(sent)[got + 1].kind = "last"
    BY <2>1, <2>3, <2>4, <2>5, <2>6
  <2>8. got + 1 = R.size + 1
    <3>1. got + 1 \notin 1 .. R.size
      BY <2>4, <2>7
    <3>2. got + 1 # R.size + 2
      BY <2>4, <2>7
    <3> QED
      BY <2>1, <2>4, <2>6, <3>1, <3>2
  <2>9. 2 + got \in Nat /\ (2 + got) + 1 = Len(Whole(sent)) - 1
    BY <2>1, <2>4, <2>8
  <2> QED
    BY <1>0, <2>1, <2>3, <2>9, SyncTaking DEF InContent
<1>13. CASE Complete
  <2>1. /\ UNCHANGED <<buffer, wire, unsent, script, sent, mixed, current, lost, answers>>
        /\ pc = "content" /\ pc' = "dispatch" /\ got \in Nat
        /\ (R.framing = "length" /\ got = R.size) \/ R.framing = "none" \/ Unmeasured
    BY <1>13 DEF Complete, TypeOK
  <2>2. R.head = "ok" /\ ~ R.early /\ ExpectsContent
    BY <2>1 DEF Stage, InContent
  <2>3. /\ Drops(0) /\ Rest(2 + got) /\ current = sent /\ ~ mixed /\ current # 0 /\ Len(Stream) \in Nat
        /\ R = script[sent] /\ sent \in 1 .. Len(script) /\ Len(Whole(sent)) = 2 + Len(Content(sent))
    BY <1>9, <2>1, <2>2, StreamSame, StreamType DEF Progress, InContent
  <2>4. LeftUnread' = LeftUnread
    BY <2>1 DEF LeftUnread, Content, R, ExpectsContent, Unmeasured
  <2>5. ASSUME ~ LeftUnread PROVE Stream' = <<>>
    <3>1. /\ script[sent].framing = "none" => Len(Content(sent)) = 0
          /\ script[sent].framing = "length" => Len(Content(sent)) = script[sent].size
          /\ script[sent].framing = "chunked" => Len(Content(sent)) = script[sent].size + 2
          /\ Content(sent) \in Seq(Pieces) /\ Len(Content(sent)) \in Nat /\ script[sent].size \in Nat
      <4>0. sent \in 1 .. Len(script)
        BY <2>3
      <4>1. script[sent] \in Requests
        BY <4>0 DEF TypeOK
      <4>2. script[sent].size \in Nat
        BY <4>1 DEF Requests
      <4> QED
        BY <2>3, <4>2, ContentParts, LenProperties
    <3>2. R.framing # "chunked"
      <4>1. ASSUME R.framing = "chunked" PROVE FALSE
        <5>1. Unmeasured /\ Content(sent) # <<>>
          BY <2>1, <2>3, <3>1, <4>1
        <5> QED
          BY <2>3, <2>5, <5>1 DEF LeftUnread
      <4> QED
        BY <4>1
    <3>3. R.framing = "none" \/ (R.framing = "length" /\ got = R.size)
      BY <2>1, <3>2 DEF Unmeasured
    <3>4. Len(Stream) = Len(Whole(sent)) - (2 + got)
      BY <2>1, <2>3, <3>1, <3>2 DEF Rest, Remains
    <3>5. Len(Stream) = 0
      BY <2>1, <2>3, <3>1, <3>3, <3>4
    <3> QED
      BY <2>1, <3>5, StreamType, EmptySeq DEF Stream
  <2>6. 2 + got \in Nat /\ (2 + got) + 0 = 2 + got
    BY <2>1
  <2> QED
    BY <1>0, <2>1, <2>3, <2>4, <2>5, <2>6, SyncTaking DEF InContent
<1>14. CASE ReadTrailing
  <2>1. /\ Take /\ UNCHANGED <<wire, unsent, script, sent, mixed, current, got, lost, answers>>
        /\ pc \in {"trailer", "trailers"}
        /\ \/ Head(buffer).kind = "field" /\ pc' = "trailers"
           \/ Head(buffer).kind = "end" /\ pc' = "dispatch"
    BY <1>0, <1>14 DEF ReadTrailing, TakeTrailer, MissTrailer, Clean
  <2>2. R.head = "ok"
    BY <2>1 DEF Stage, InContent
  <2>3. /\ Drops(1) /\ Rest(Len(Whole(sent)) - 1) /\ current = sent /\ ~ mixed /\ current # 0
        /\ sent = Len(answers) + 1 /\ Stream[1] = Head(buffer)
    BY <1>6, <1>9, <2>1, <2>2, StreamTaken DEF Progress, InContent
  <2>4. CASE pc' = "trailers"
    <3>2. script[sent].framing = "chunked" /\ sent # 0 /\ Head(buffer).kind = "field"
      BY <2>1, <2>3, <2>4 DEF Stage, R
    <3>1. Rest(Len(Whole(sent)) - 1)'
      BY <2>1, <2>3, <3>2, FieldTaken
    <3> QED
      BY <1>0, <2>1, <2>3, <2>4, <3>1 DEF Synchrony, Progress
  <2>5. CASE pc' = "dispatch"
    <3>1. Stream' = <<>>
      BY <2>1, <2>3, <2>5, EndTaken
    <3> QED
      BY <1>0, <2>1, <2>3, <2>5, <3>1 DEF Synchrony, Progress
  <2> QED
    BY <2>1, <2>4, <2>5
<1>15. CASE SendField
  <2>1. /\ UNCHANGED <<script, sent, answers, lost, mixed, current, got, pc>> /\ pc # "closed"
        /\ got \in Nat
    BY <1>15 DEF SendField, TypeOK
  <2>2. Len(Stream) > 0
    BY <1>15, StreamInserted, StreamType
  <2>3. /\ sent = Len(answers) + 1 /\ sent \in 1 .. Len(script)
        /\ Len(Whole(sent)) \in Nat /\ Len(Whole(sent)) >= 2
        /\ Progress /\ current \in {0, sent} /\ ~ mixed
    BY <1>6, <2>1, <2>2
  <2>4. ASSUME NEW p \in Nat, Rest(p), script[sent].framing = "chunked" => p < Len(Whole(sent))
        PROVE  Rest(p)'
    BY <1>15, <2>3, <2>4, FieldSent
  <2>5. Len(Whole(sent))' = Len(Whole(sent)) /\ LeftUnread' = LeftUnread /\ R' = R
    BY <2>1 DEF Whole, Lines, Content, LeftUnread, R, ExpectsContent, Unmeasured
  <2>6. CASE pc \in {"alive", "line", "head"}
    <3>1. pc # "head" => Rest(0)'
      BY <2>3, <2>4, <2>6 DEF Progress
    <3>2. pc = "head" => Rest(1)'
      BY <2>3, <2>4, <2>6 DEF Progress
    <3> QED
      BY <1>0, <2>1, <2>3, <2>6, <3>1, <3>2 DEF Synchrony, Progress
  <2>7. CASE pc = "content"
    <3>1. R.head = "ok"
      BY <2>7 DEF Stage, InContent
    <3>2. script[sent].framing = "chunked" => 2 + got < Len(Whole(sent))
      BY <1>9, <2>1, <2>7, <3>1, ContentParts DEF Progress, InContent
    <3>3. PICK p \in Nat : p = 2 + got
      BY <2>1
    <3>4. Rest(p)'
      BY <2>3, <2>4, <2>7, <3>2, <3>3 DEF Progress
    <3>5. p = 2 + got'
      BY <2>1, <3>3
    <3>6. Rest(2 + got)'
      BY <3>4, <3>5
    <3>7. R'.framing = "chunked" => got' <= R'.size
      BY <2>1, <2>3, <2>5, <2>7 DEF Progress
    <3> QED
      BY <1>0, <2>1, <2>3, <2>7, <3>6, <3>7 DEF Synchrony, Progress
  <2>8. CASE pc \in {"trailer", "trailers"}
    <3>1. PICK p \in Nat : p = Len(Whole(sent)) - 1
      BY <2>3
    <3>2. Rest(p)'
      BY <2>3, <2>4, <2>8, <3>1 DEF Progress
    <3>3. p = Len(Whole(sent))' - 1
      BY <2>5, <3>1
    <3>4. Rest(Len(Whole(sent)) - 1)'
      BY <3>2, <3>3
    <3> QED
      BY <1>0, <2>1, <2>3, <2>8, <3>4 DEF Synchrony, Progress
  <2>9. CASE pc = "dispatch"
    <3>1. LeftUnread
      BY <2>2, <2>3, <2>9 DEF Progress
    <3> QED
      BY <1>0, <2>1, <2>3, <2>5, <2>9, <3>1 DEF Synchrony, Progress
  <2> QED
    BY <2>1, <2>6, <2>7, <2>8, <2>9 DEF TypeOK, InContent
<1> QED
  BY <1>1, <1>2, <1>3, <1>4, <1>5, <1>7, <1>8, <1>10, <1>11, <1>12, <1>13, <1>14, <1>15 DEF Step
(* The answer that comes next is that to the request the worker is at. *)
LEMMA NextAnswer ==
  ASSUME TypeOK, Stage, Synchrony, Answering \/ Proceed,
         NEW a \in Answers, a.to = current
  PROVE  a.to = IF script[Len(answers) + 1].line THEN Len(answers) + 1 ELSE 0
<1> DEFINE n == Len(answers)
<1>1. pc # "closed" /\ ~ mixed /\ n \in Nat
  BY LenProperties DEF Answering, Proceed, HeadRead, Synchrony, InContent, TypeOK
<1>2. CASE current # 0
  BY <1>1, <1>2 DEF Synchrony, Stage, R
<1>3. CASE current = 0
  <2>1. pc = "line" /\ Answering
    BY <1>3 DEF Answering, Proceed, HeadRead, Stage, InContent
  <2>2. buffer # <<>> /\ (Head(buffer).kind = "line" => ~ script[Head(buffer).of].line)
    BY <1>1, <2>1 DEF Answering, NotALine
  <2>3. Len(Stream) > 0 /\ Stream[1] = Head(buffer) /\ Len(Stream) \in Nat
    BY <2>2, FirstBuffered, StreamType
  <2>4. Stream = <<>> => Len(Stream) = 0
    OBVIOUS
  <2>5. sent = n + 1 /\ Rest(0)
    BY <1>1, <2>1, <2>3, <2>4 DEF Synchrony, Progress
  <2>6. sent \in 1 .. Len(script)
    BY <1>1, <2>5 DEF TypeOK
  <2>9. Len(Whole(sent)) \in Nat /\ Len(Whole(sent)) >= 2
    BY <2>6, RequestParts, LenProperties
  <2>7. Stream[1] = Whole(sent)[1]
    BY <2>5, <2>6, <2>9, NextPiece
  <2>8. Stream[1].kind = "line" /\ Stream[1].of = sent
    BY <2>6, <2>7, RequestParts
  <2> QED
    BY <1>3, <2>2, <2>3, <2>5, <2>8
<1> QED
  BY <1>2, <1>3

(* The kth answer is that to the kth request *)
ToItsRequest(k) == answers[k].to = (IF script[k].line THEN k ELSE 0)

LEMMA InStepKept ==
  ASSUME TypeOK, TypeOK', Stage, Clean => Synchrony, Clean' => Synchrony', InStep, Step
  PROVE  InStep'
<1> USE DEF client, worker, history
<1>0. Len(answers) \in Nat /\ DOMAIN answers = 1 .. Len(answers)
      /\ Len(answers') \in Nat /\ DOMAIN answers' = 1 .. Len(answers')
  BY LenProperties DEF TypeOK
<1>1. CASE Clean'
  <2>1. Synchrony'
    BY <1>1
  <2> QED
    BY <2>1 DEF Synchrony, InStep
<1>2. CASE ~ Clean' /\ patient' /\ blemish' = {}
  <2>1. UNCHANGED <<patient, script>>
    BY DEF Step, NextRequest, SendPiece, Leave, Stop, Awake, GiveUp, Fill, Answering, Hangup,
           Skip, Begin, Proceed, Unit, LastChunk, Complete, SendField, ReadTrailing, TakeTrailer, MissTrailer
  <2>2. \/ answers' = answers
        \/ /\ Answering \/ Proceed
           /\ \E a \in Answers : answers' = Append(answers, a) /\ a.to = current
    <3>1. CASE Answering
      BY <3>1, Response DEF Answering
    <3>2. CASE Proceed
      <4>1. Refusal \in Answers /\ Refusal.to = current
        BY DEF Refusal, Answers, TypeOK
      <4> QED
        BY <3>2, <4>1 DEF Proceed
    <3> QED
      BY <3>1, <3>2 DEF Step, NextRequest, SendPiece, Leave, Stop, Awake, GiveUp, Fill, Hangup, Skip,
         Begin, Unit, LastChunk, Complete, SendField, ReadTrailing, TakeTrailer, MissTrailer
  <2>3. blemish = {}
    <3>1. CASE Answering
      BY <1>2, <3>1, Response DEF Answering
    <3> QED
      BY <1>2, <3>1 DEF Step, NextRequest, SendPiece, Leave, Stop, Awake, GiveUp, Fill, Hangup,
         Return, Skip, Begin, Proceed, Unit, LastChunk, Complete, SendField, ReadTrailing, TakeTrailer, MissTrailer
  <2>4. patient /\ \A k \in DOMAIN answers : ErrorBefore(k) \/ ToItsRequest(k)
    BY <1>2, <2>1, <2>3 DEF InStep, ToItsRequest
  <2>5. ErrorBefore(Len(answers) + 1)'
    <3>1. PICK k \in DOMAIN answers' : ~ (answers'[k].status < 400)
      BY <1>2 DEF Clean
    <3>2. answers'[k] \in Answers
      BY <3>1 DEF TypeOK
    <3>3. answers'[k].status >= 400 /\ k < Len(answers') + 1
      BY <1>0, <3>1, <3>2 DEF Answers
    <3> QED
      BY <3>3 DEF ErrorBefore
  <2>6. CASE answers' = answers
    BY <1>2, <2>1, <2>4, <2>5, <2>6 DEF InStep, ErrorBefore, ToItsRequest
  <2>7. CASE /\ Answering \/ Proceed
             /\ \E a \in Answers : answers' = Append(answers, a) /\ a.to = current
    <3>1. PICK a \in Answers : answers' = Append(answers, a) /\ a.to = current
      BY <2>7
    <3>2. /\ DOMAIN answers' = 1 .. Len(answers) + 1
          /\ \A k \in DOMAIN answers : answers'[k] = answers[k]
          /\ answers'[Len(answers) + 1] = a
      BY <3>1, Answered
    <3>3. ASSUME NEW k \in DOMAIN answers
          PROVE  (ErrorBefore(k) => ErrorBefore(k)') /\ (ToItsRequest(k) => ToItsRequest(k)')
      BY <1>0, <2>1, <3>2 DEF ErrorBefore, ToItsRequest
    <3>4. CASE Clean
      <4>1. a.to = IF script[Len(answers) + 1].line THEN Len(answers) + 1 ELSE 0
        BY <2>7, <3>1, <3>4, NextAnswer
      <4>2. \A k \in DOMAIN answers' : (ErrorBefore(k) \/ ToItsRequest(k))'
        BY <1>0, <2>1, <2>4, <3>2, <3>3, <4>1 DEF ToItsRequest
      <4> QED
        BY <2>5, <4>2 DEF InStep, ToItsRequest
    <3>5. CASE ~ Clean
      <4>1. PICK j \in DOMAIN answers : ~ (answers[j].status < 400)
        BY <2>3, <2>4, <3>5 DEF Clean
      <4>2. answers[j].status >= 400
        BY <4>1, AnswerTypes
      <4>3. \E i \in DOMAIN answers' : i < Len(answers) + 1 /\ answers'[i].status >= 400
        BY <1>0, <3>2, <4>2
      <4>4. \A k \in DOMAIN answers' : (ErrorBefore(k) \/ ToItsRequest(k))'
        BY <1>0, <2>4, <3>2, <3>3, <4>3 DEF ErrorBefore
      <4> QED
        BY <2>5, <4>4 DEF InStep, ToItsRequest
    <3> QED
      BY <3>4, <3>5
  <2> QED
    BY <2>2, <2>6, <2>7
<1> QED
  BY <1>1, <1>2 DEF InStep

------------------------------------------------------------------------------
LEMMA InitInv ==
  ASSUME Init
  PROVE  IInv
<1>1. script \in Seq(Requests) /\ Len(script) \in Nat
  BY ScriptAssumption, LenProperties DEF Init
<1>2. TypeOK
  <2>1. <<>> \in Seq(Pieces) /\ <<>> \in Seq(Answers)
    OBVIOUS
  <2>2. patient \in BOOLEAN /\ gone \in BOOLEAN /\ mixed \in BOOLEAN /\ stopping \in BOOLEAN
    <3>1. patient \in BOOLEAN
      BY ExchangeAssumption DEF Init
    <3> QED
      BY <3>1, Zenon DEF Init
  <2> QED
    BY <1>1, <2>1, <2>2, ExchangeAssumption DEF Init, TypeOK
<1>3. Stream = <<>>
  <2>1. Len(Stream) = 0 /\ Stream \in Seq(Pieces)
    BY <1>2, Joined DEF Init, Stream, TypeOK
  <2> QED
    BY <2>1, EmptySeq
<1>4. Stage
  BY DEF Init, Stage, InContent
<1>5. DOMAIN answers = {} /\ Len(answers) = 0
  BY DEF Init
<1>6. OrderInv
  BY <1>3, <1>5 DEF OrderInv, StreamOrder, LinesAhead, AnsweredOnce, AnswersInOrder
<1>7. Lasting /\ Permitted /\ InStep
  BY <1>5 DEF Init, Lasting, Permitted, InStep, InContent
<1>8. Synchrony
  BY <1>3, <1>5 DEF Init, Synchrony
<1> QED
  BY <1>2, <1>4, <1>6, <1>7, <1>8 DEF IInv

LEMMA NextInv ==
  ASSUME IInv, [Next]_vars
  PROVE  IInv'
<1>1. CASE Next
  <2>1. /\ TypeOK /\ Stage /\ OrderInv /\ StreamOrder /\ Lasting /\ Permitted /\ InStep
        /\ Clean => Synchrony
    BY DEF IInv, OrderInv
  <2>2. Step
    BY <1>1, <2>1, Normal
  <2>3. TypeOK'
    BY <2>1, <2>2, TypeKept
  <2>4. Stage'
    BY <2>1, <2>2, StageKept
  <2>5. OrderInv' /\ Lasting' /\ Permitted'
    BY <2>1, <2>2, OrderKept, LastingKept, PermittedKept
  <2>6. Clean' => Synchrony'
    BY <2>1, <2>2, <2>3, <2>4, SyncKept
  <2>7. InStep'
    BY <2>1, <2>2, <2>3, <2>6, InStepKept
  <2> QED
    BY <2>3, <2>4, <2>5, <2>6, <2>7 DEF IInv
<1>2. CASE UNCHANGED vars
  <2> USE <1>2 DEF vars, client, worker, history
  <2>1. Stream' = Stream /\ Whole(sent)' = Whole(sent) /\ LeftUnread' = LeftUnread
    BY DEF Stream, Whole, Lines, Content, LeftUnread, R, ExpectsContent, Unmeasured
  <2>2. TypeOK' /\ Stage'
    BY DEF IInv, TypeOK, Stage, R, ExpectsContent, Unmeasured
  <2>3. OrderInv'
    BY <2>1 DEF IInv, OrderInv, StreamOrder, LinesAhead, AnsweredOnce, AnswersInOrder
  <2>4. Lasting' /\ Permitted' /\ InStep'
    BY DEF IInv, Lasting, Permitted, R, InStep, ErrorBefore
  <2>7. R' = R /\ Len(Whole(sent))' = Len(Whole(sent))
    BY <2>1 DEF R
  <2>5. Progress' <=> Progress
    BY <2>1, <2>7 DEF Progress, Rest
  <2>6. (Clean => Synchrony)'
    BY <2>1, <2>5 DEF IInv, Clean, Synchrony
  <2> QED
    BY <2>2, <2>3, <2>4, <2>6 DEF IInv
<1> QED
  BY <1>1, <1>2

(* In every reachable state types and stages are as they are said to be,   *)
(* what is left in the stream is what the worker expects, and announced    *)
(* ends are kept to.                                                       *)
THEOREM Inductive == Spec => []IInv
BY InitInv, NextInv, PTL DEF Spec

(* A client that awaits each answer before it sends the next request gets  *)
(* the k-th to its k-th request, and none of its requests is thrown away   *)
(* with a SocketStream, as long as none was answered with an error, had    *)
(* content that is not read, or ended late.  The requests of one that does *)
(* not await the answers may be thrown away: of those nothing is said.     *)
THEOREM StaysInStep == Spec => []InStep
<1>1. IInv => InStep
  BY DEF IInv
<1> QED
  BY <1>1, Inductive, PTL

(* Whatever the client sends and when, answers are in the order of its     *)
(* requests, and none but a 417 is followed by another to its request.     *)
THEOREM AnswersKeepOrder == Spec => []AnswersInOrder
<1>1. IInv => AnswersInOrder
  BY DEF IInv, OrderInv
<1> QED
  BY <1>1, Inductive, PTL

(* After an answer that says "Connection: close", or whose body is cut     *)
(* short, process_server_socket_core processes no request, but for errors  *)
(* and stop().                                                             *)
THEOREM ClosingIsKept == Spec => []LastIsLast
<1>1. IInv => LastIsLast
  BY DEF IInv, Lasting, LastIsLast
<1> QED
  BY <1>1, Inductive, PTL

(* As long as nothing went wrong, there is more of the request that a      *)
(* worker reads, but for content that only the end of the connection ends. *)
LEMMA MoreComes ==
  ASSUME TypeOK, Stage, Synchrony, Len(answers) < sent, pc = "alive" \/ Reading,
         pc = "content" => /\ Readable /\ R.framing # "none"
                           /\ ~ (R.framing = "length" /\ got = R.size)
  PROVE  Stream # <<>>
<1>1. Len(answers) \in Nat /\ pc # "closed"
  BY LenProperties DEF TypeOK, Reading
<1>2. \/ sent = Len(answers) + 1 /\ Progress /\ current \in {0, sent}
  BY <1>1 DEF Synchrony, TypeOK
<1>3. sent \in 1 .. Len(script)
  BY <1>1, <1>2 DEF TypeOK
<1>4. Len(Whole(sent)) \in Nat /\ Len(Whole(sent)) >= 2
  BY <1>3, RequestParts, LenProperties
<1>5. ASSUME NEW p \in Nat, Rest(p), p < Len(Whole(sent))
      PROVE  Stream # <<>>
  BY <1>3, <1>5, NextPiece
<1>6. CASE pc \in {"alive", "line"}
  BY <1>2, <1>4, <1>5, <1>6 DEF Progress
<1>7. CASE pc = "head"
  BY <1>2, <1>4, <1>5, <1>7 DEF Progress
<1>8. CASE pc \in {"trailer", "trailers"}
  <2>1. PICK p \in Nat : p = Len(Whole(sent)) - 1
    BY <1>4
  <2>2. Rest(p) /\ p < Len(Whole(sent))
    BY <1>2, <1>4, <1>8, <2>1 DEF Progress
  <2> QED
    BY <1>5, <2>2
<1>9. CASE pc = "content"
  <2>1. /\ current = sent /\ R = script[sent] /\ R.line /\ R.head = "ok"
        /\ Rest(2 + got) /\ (R.framing = "chunked" => got <= R.size) /\ got \in Nat
    BY <1>2, <1>9 DEF Stage, InContent, R, Progress, TypeOK
  <2>2. R \in Requests
    BY <1>3, <2>1 DEF TypeOK
  <2>3. R.framing \in {"length", "chunked"} /\ R.size \in Nat
    BY <1>9, <2>2 DEF Requests, Readable
  <2>4. Len(Whole(sent)) = 2 + Len(Content(sent))
    BY <1>3, <2>1, RequestParts
  <2>5. /\ R.framing = "length" => Len(Content(sent)) = R.size
        /\ R.framing = "chunked" => Len(Content(sent)) = R.size + 2
    BY <1>3, <2>1, ContentParts
  <2>6. CASE R.framing = "chunked"
    <3>1. 2 + got \in Nat /\ 2 + got < Len(Whole(sent))
      BY <2>1, <2>3, <2>4, <2>5, <2>6
    <3> QED
      BY <1>5, <2>1, <3>1
  <2>7. CASE R.framing = "length"
    <3>1. got # R.size
      BY <1>9, <2>7
    <3>2. PICK f \in Nat : /\ f = 0 \/ script[sent].framing = "chunked"
                           /\ Remains(Stream, Whole(sent), 2 + got, f)
      BY <2>1 DEF Rest
    <3>3. f = 0
      BY <2>1, <2>7, <3>2
    <3>4. Len(Stream) = R.size - got
      BY <2>1, <2>3, <2>4, <2>5, <2>7, <3>2, <3>3 DEF Remains
    <3>5. Len(Stream) # 0
      BY <2>1, <2>3, <3>1, <3>4
    <3>6. Stream = <<>> => Len(Stream) = 0
      OBVIOUS
    <3> QED
      BY <3>5, <3>6
  <2> QED
    BY <2>3, <2>6, <2>7
<1> QED
  BY <1>6, <1>7, <1>8, <1>9 DEF Reading

(* read_content never waits for content that the client does not send      *)
(* before it is told to; and as long as nothing went wrong, no read waits  *)
(* for more from a client that has sent all of its request, but that of    *)
(* content without a length.                                               *)
THEOREM NeverBothWait == Spec => []NoMutualWait
<1>1. ASSUME IInv, pc = "content", AwaitsContinue, current = sent
      PROVE  FALSE
  <2>1. R.expect /\ sent \notin continued /\ \A k \in DOMAIN answers : answers[k].to # sent
    BY <1>1 DEF AwaitsContinue, R
  <2> QED
    BY <1>1, <2>1 DEF IInv, Permitted, InContent
<1>2. ASSUME IInv, blemish = {}, ~ ErrorBefore(Len(answers) + 1), AwaitsAnswer, AwaitsPiece,
             ~ (pc = "content" /\ R.framing = "none")
      PROVE  FALSE
  <2>1. TypeOK /\ Stage /\ (Clean => Synchrony)
    BY <1>2 DEF IInv
  <2>2. Clean
    <3>1. \A k \in DOMAIN answers : k < Len(answers) + 1 /\ answers[k].status \in Nat
      BY <2>1, AnswerTypes, LenProperties DEF TypeOK
    <3> QED
      BY <1>2, <3>1 DEF Clean, AwaitsAnswer, ErrorBefore
  <2>3. Stream # <<>>
    BY <1>2, <2>1, <2>2, MoreComes DEF AwaitsAnswer, AwaitsPiece
  <2>4. buffer = <<>> /\ wire = <<>> /\ unsent = <<>>
    BY <1>2 DEF AwaitsAnswer, AwaitsPiece, Silence
  <2>5. Len(Stream) = 0 /\ Stream \in Seq(Pieces)
    BY <2>1, <2>4, Joined DEF Stream, TypeOK
  <2> QED
    BY <2>3, <2>5, EmptySeq
<1>3. IInv => NoMutualWait
  BY <1>1, <1>2 DEF NoMutualWait
<1> QED
  BY <1>3, Inductive, PTL
==============================================================================
