------------------------------ MODULE HttpRanges ------------------------------
(***************************************************************************)
(* Byte ranges in httplib::Server: from the Range header of a request to   *)
(* the parts of the content that are written.  A header is the sequence of *)
(* what its commas separate: a pair of positions, of which Open stands for *)
(* one left out, or Junk, or Gap where there is nothing.                   *)
(***************************************************************************)
EXTENDS Integers, Sequences, FiniteSets, SequencesExt

CONSTANTS
  Junk, Gap,  \* parts of a header that are no range, and blank
  MaxRanges,  \* CPPHTTPLIB_RANGE_MAX_COUNT
  PartHead,   \* length of what precedes a part: boundary and headers
  Headers,    \* the headers of requests, <<>> where there is none
  Lengths,    \* lengths of contents
  Statuses    \* what handlers set as status, which may be Unset

Open == -1
Unset == -1
Position == Nat \cup {Open}

ASSUME RangesAssumption == MaxRanges \in Nat \ {0} /\ PartHead \in Nat \ {0}
ASSUME RequestAssumption ==
  /\ Headers \subseteq Seq((Position \X Position) \cup {Junk, Gap})
  /\ Lengths \subseteq Nat
  /\ Statuses \subseteq Nat \cup {Unset}

VARIABLES
  request,  \* its header, and what the handler will answer: content and status
  place,    \* where process_request is
  ranges,   \* req.ranges, or in coalesce_ranges the list coalesced
  rest,     \* what the loop in progress has yet to come to
  status,   \* res.status
  answer    \* what was written

rangesVars == <<request, place, ranges, rest, status, answer>>

------------------------------------------------------------------------------
ValidItem(i) ==
  /\ i # Junk
  /\ i # <<Open, Open>>
  /\ Open \in {i[1], i[2]} \/ i[1] <= i[2]

(* What range_error and coalesce_ranges make of a range of n bytes         *)
Resolved(r, n) ==
  LET all == IF r = <<Open, Open>> THEN <<0, n>> ELSE r
      tail == IF all[1] = Open THEN <<n - all[2], n - 1>> ELSE all
  IN  IF tail[2] = Open \/ tail[2] >= n THEN <<tail[1], n - 1>> ELSE tail
Within(r, n) == 0 <= r[1] /\ r[1] <= r[2] /\ r[2] <= n - 1
Normalised(list, n) == [k \in DOMAIN list |-> Resolved(list[k], n)]

Meet(r, s) == r[1] <= s[2] /\ s[1] <= r[2]
Overlaps(rs) == {k \in DOMAIN rs : \E j \in 1 .. k - 1 : Meet(rs[k], rs[j])}

RangeError(rs, n) ==
  \/ Len(rs) > MaxRanges
  \/ \E k \in DOMAIN rs : ~ Within(rs[k], n)
  \/ Cardinality(Overlaps(rs)) > 2

(* std::sort leaves ranges with the same first byte in any order.          *)
SortedByFirst(rs) ==
  {p \in {[k \in DOMAIN rs |-> rs[f[k]]] : f \in Bijection(DOMAIN rs, DOMAIN rs)} :
     \A k \in 1 .. Len(rs) - 1 : p[k][1] <= p[k + 1][1]}

(* Mutation: the merged range ends where the last one does.                *)
Merge_Last(done, r) ==
  IF done # <<>> /\ r[1] <= Last(done)[2] + 1 /\ r # Last(done)
  THEN Front(done) \o <<<<Last(done)[1], r[2]>>>>
  ELSE Append(done, r)

Merge(done, r) ==
  IF done # <<>> /\ r[1] <= Last(done)[2] + 1 /\ r # Last(done)
  THEN Front(done) \o <<<<Last(done)[1], IF r[2] > Last(done)[2] THEN r[2] ELSE Last(done)[2]>>>>
  ELSE Append(done, r)

------------------------------------------------------------------------------
(* An answer: its status, the length it declares, and the pieces of its    *)
(* body: bytes of the content, or what stands around a part of it.         *)
Bytes(offset, length) == [of |-> "content", offset |-> offset, length |-> length]
Frame == [of |-> "frame", offset |-> 0, length |-> PartHead]
OffsetAndLength(r) == Bytes(r[1], r[2] - r[1] + 1)
Whole(n) == <<Bytes(0, n)>>
Multipart(rs) ==
  [k \in 1 .. 2 * Len(rs) + 1 |-> IF k % 2 = 1 THEN Frame ELSE OffsetAndLength(rs[k \div 2])]
LengthOf(pieces) == FoldLeft(LAMBDA sum, p : sum + p.length, 0, pieces)

Pieces(rs, n) ==
  CASE rs = <<>> -> Whole(n)
    [] Len(rs) = 1 -> <<OffsetAndLength(rs[1])>>
    [] OTHER -> Multipart(rs)

(* Mutation: what stands around the parts is not counted.                  *)
Declared_Bare(rs, n, code) ==
  IF code # 206 \/ rs = <<>> THEN n
  ELSE LengthOf([k \in DOMAIN rs |-> OffsetAndLength(rs[k])])

(* apply_ranges, for a body and for a content provider that knows how long *)
(* its content is; it leaves the ranges of an answer that is not 206.      *)
Declared(rs, n, code) ==
  IF code # 206 THEN n ELSE LengthOf(Pieces(rs, n))

(* write_response_core: the body is what apply_ranges made of it, but      *)
(* write_content_with_provider looks at the ranges again.                  *)
Written(rs, n, code, by) ==
  IF by = "body" /\ code # 206 THEN Whole(n) ELSE Pieces(rs, n)

Refused == [status |-> 416, declared |-> 0, pieces |-> <<>>]

------------------------------------------------------------------------------
Requests ==
  [header : Headers, length : Lengths, set : Statuses, by : {"body", "provider"}]

RangesInit ==
  /\ request \in Requests
  /\ place = "header"
  /\ ranges = <<>> /\ rest = request.header
  /\ status = Unset
  /\ answer = <<>>

Refuse ==
  /\ answer' = Refused
  /\ place' = "answered"
  /\ UNCHANGED <<request, ranges, rest, status>>

(* parse_range_header: a header with a part that is not a range is refused *)
(* as a whole, and so is one without a range.                              *)
ReadPart ==
  /\ place = "header" /\ rest # <<>>
  /\ \/ Head(rest) = Gap /\ UNCHANGED ranges
     \/ Head(rest) # Gap /\ ValidItem(Head(rest)) /\ ranges' = Append(ranges, Head(rest))
  /\ rest' = Tail(rest)
  /\ UNCHANGED <<request, place, status, answer>>

RejectHeader ==
  /\ place = "header" /\ request.header # <<>>
  /\ IF rest = <<>> THEN ranges = <<>> ELSE Head(rest) # Gap /\ ~ ValidItem(Head(rest))
  /\ Refuse

EndHeader ==
  /\ place = "header" /\ rest = <<>>
  /\ request.header = <<>> \/ ranges # <<>>
  /\ place' = "handler"
  /\ UNCHANGED <<request, ranges, rest, status, answer>>

(* The handler returns. *)
Handle ==
  /\ place = "handler"
  /\ status' = IF request.set # Unset THEN request.set ELSE IF ranges = <<>> THEN 200 ELSE 206
  /\ place' = "ranges"
  /\ UNCHANGED <<request, ranges, rest, answer>>

(* range_error: only the ranges of a successful answer are looked at.      *)
Checked == ranges # <<>> /\ status \in 200 .. 299
Normal == Normalised(ranges, request.length)

RejectRanges == place = "ranges" /\ Checked /\ RangeError(Normal, request.length) /\ Refuse

AcceptRanges ==
  /\ place = "ranges" /\ Checked /\ ~ RangeError(Normal, request.length)
  /\ IF Len(Normal) <= 1
     THEN ranges' = Normal /\ UNCHANGED rest
     ELSE ranges' = <<>> /\ rest' \in SortedByFirst(Normal)
  /\ place' = "coalesce"
  /\ UNCHANGED <<request, status, answer>>

LeaveRanges ==
  /\ place = "ranges" /\ ~ Checked
  /\ place' = "coalesce"
  /\ UNCHANGED <<request, ranges, rest, status, answer>>

Coalesce ==
  /\ place = "coalesce" /\ rest # <<>>
  /\ ranges' = Merge(ranges, Head(rest))
  /\ rest' = Tail(rest)
  /\ UNCHANGED <<request, place, status, answer>>

Respond ==
  /\ place = "coalesce" /\ rest = <<>>
  /\ answer' = [status |-> status,
                declared |-> Declared(ranges, request.length, status),
                pieces |-> IF request.length = 0 THEN <<>>
                           ELSE Written(ranges, request.length, status, request.by)]
  /\ place' = "answered"
  /\ UNCHANGED <<request, ranges, rest, status>>

RangesNext ==
  \/ ReadPart \/ RejectHeader \/ EndHeader \/ Handle
  \/ RejectRanges \/ AcceptRanges \/ LeaveRanges
  \/ Coalesce \/ Respond

RangesSpec == RangesInit /\ [][RangesNext]_rangesVars

------------------------------------------------------------------------------
(* What a request asks for, said of bytes and not of positions             *)
Asked(i, n) ==
  IF i[1] = Open THEN {b \in 0 .. n - 1 : b >= n - i[2]}
  ELSE {b \in 0 .. n - 1 : b >= i[1] /\ (i[2] = Open \/ b <= i[2])}
BytesAsked(header, n) ==
  UNION {Asked(header[k], n) : k \in {j \in DOMAIN header : header[j] # Gap}}

Holds(piece) ==
  IF piece.of = "content" THEN piece.offset .. piece.offset + piece.length - 1 ELSE {}
Sent(pieces) == UNION {Holds(pieces[k]) : k \in DOMAIN pieces}
TimesSent(pieces, b) == Cardinality({k \in DOMAIN pieces : b \in Holds(pieces[k])})

(* Byte ranges: a partial answer holds the bytes that were asked for, all  *)
(* of them that exist and no others, whatever order and overlap they are   *)
(* asked in, after normalising, sorting and merging; and a successful one  *)
(* none of them more than three times: what the limit on overlaps in       *)
(* range_error is for.                                                     *)
AskedBytesServed ==
  place = "answered" =>
    /\ answer.status = 206 /\ request.header # <<>> =>
         Sent(answer.pieces) = BytesAsked(request.header, request.length)
    /\ answer.status \in 200 .. 299 =>
         \A b \in Sent(answer.pieces) : TimesSent(answer.pieces, b) <= 3

(* The Content-Length of an answer is the length of the body that follows, *)
(* although the two are computed in different places: for every body, and  *)
(* for a provider's content when the handler leaves the status to the      *)
(* server.                                                                 *)
LengthIsTold ==
  /\ place = "answered"
  /\ request.by = "body" \/ request.set \in {Unset, 206} \/ request.header = <<>>
  => answer.declared = LengthOf(answer.pieces)
==============================================================================
