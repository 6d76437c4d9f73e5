------------------------------- MODULE HttpText -------------------------------
(***************************************************************************)
(* What httplib::Server makes of the text of a request: percent encodings, *)
(* the parameters of a query, the path of a file, the path parameters of a *)
(* route, header fields and the Accept header.  A text is a sequence of    *)
(* bytes, and a byte is its number.                                        *)
(***************************************************************************)
EXTENDS Integers, Sequences, FiniteSets, SequencesExt

CONSTANT None  \* what a function gives that refuses its argument

Tab == 9
Blank == 32
Hash == 35
Percent == 37
Ampersand == 38
Plus == 43
Minus == 45
Dot == 46
Slash == 47
Colon == 58
Equal == 61
Question == 63
Backslash == 92
LetterU == 117

Digit == 48 .. 57
Alpha == 65 .. 90 \cup 97 .. 122
Unreserved == Alpha \cup Digit \cup {Minus, Dot, 95, 126}

Rest(s, k) == SubSeq(s, k, Len(s))

(***************************************************************************)
(* trim, split and divide                                                  *)
(***************************************************************************)
Trim(s) ==
  LET solid == {k \in DOMAIN s : s[k] \notin {Blank, Tab}}
  IN  IF solid = {} THEN <<>>
      ELSE SubSeq(s, CHOOSE k \in solid : \A j \in solid : k <= j,
                     CHOOSE k \in solid : \A j \in solid : k >= j)

(* All that d separates, with what is empty                                *)
Parts(s, d) ==
  FoldLeft(LAMBDA parts, c : IF c = d THEN Append(parts, <<>>)
                             ELSE Front(parts) \o <<Append(Last(parts), c)>>, <<<<>>>>, s)
Split(s, d) ==
  LET parts == Parts(s, d)
  IN  SelectSeq([k \in DOMAIN parts |-> Trim(parts[k])], LAMBDA part : part # <<>>)

Divide(s, d) ==
  LET found == {k \in DOMAIN s : s[k] = d}
      first == CHOOSE k \in found : \A j \in found : k <= j
  IN  IF found = {} THEN <<s, <<>>>> ELSE <<SubSeq(s, 1, first - 1), Rest(s, first + 1)>>

(***************************************************************************)
(* Percent encoding: what is written for a byte                            *)
(***************************************************************************)
HexDigit(n) == IF n < 10 THEN 48 + n ELSE 55 + n
HexValue(c) == CASE c \in Digit -> c - 48
                 [] c \in 65 .. 70 -> c - 55
                 [] c \in 97 .. 102 -> c - 87
                 [] OTHER -> -1
IsHex(c) == HexValue(c) # -1

Escaped(c) == <<Percent, HexDigit(c \div 16), HexDigit(c % 16)>>

UriComponentKept == Alpha \cup Digit \cup {Minus, 95, Dot, 33, 126, 42, 39, 40, 41}
(* Mutation: what looks like an escape is kept.                            *)
UriKept_Percent ==
  UriComponentKept \cup {59, Slash, Question, Colon, 64, Ampersand, Equal, Plus, 36, 44, Hash, Percent}
UriKept ==
  UriComponentKept \cup {59, Slash, Question, Colon, 64, Ampersand, Equal, Plus, 36, 44, Hash}
PathKept == Unreserved \cup {33, 36, Ampersand, 39, 40, 41, 42, Plus, 44, 59, Equal, Colon, 64}
QueryKept == Unreserved \cup {33, 36, 39, 40, 41, 42, 44, 59, Colon, 64, Slash, Question}

UriForm(c) == IF c \in UriKept THEN <<c>> ELSE Escaped(c)
UriComponentForm(c) == IF c \in UriComponentKept THEN <<c>> ELSE Escaped(c)
PathForm(c) == IF c \in PathKept THEN <<c>> ELSE Escaped(c)
QueryForm(c) ==
  CASE c = Blank -> <<Plus>> [] c \in QueryKept -> <<c>> [] OTHER -> Escaped(c)

(***************************************************************************)
(* Percent decoding: what is read at s[i], and where the loop goes on      *)
(***************************************************************************)
Byte(c, next) == [bytes |-> <<c>>, next |-> next]

(* from_hex_to_i: the value of 2 or 4 digits from s[k] on, or -1           *)
FromHex(s, k, cnt) ==
  LET digit(j) == HexValue(s[k + j])
  IN  IF k + cnt - 1 > Len(s) \/ \E j \in 0 .. cnt - 1 : ~ IsHex(s[k + j]) THEN -1
      ELSE IF cnt = 2 THEN 16 * digit(0) + digit(1)
      ELSE 4096 * digit(0) + 256 * digit(1) + 16 * digit(2) + digit(3)

(* to_utf8, for what four digits can say; surrogates give nothing          *)
Utf8(code) ==
  IF code < 128 THEN <<code>>
  ELSE IF code < 2048 THEN <<192 + code \div 64, 128 + (code % 64)>>
  ELSE IF code \in 55296 .. 57343 THEN <<>>
  ELSE <<224 + code \div 4096, 128 + ((code \div 64) % 64), 128 + (code % 64)>>

UriCode(s, i) ==
  IF s[i] = Percent /\ FromHex(s, i + 1, 2) # -1
  THEN Byte(FromHex(s, i + 1, 2), i + 3) ELSE Byte(s[i], i + 1)

PathCode(s, i) ==
  CASE s[i] = Percent /\ i < Len(s) /\ s[i + 1] = LetterU /\ FromHex(s, i + 2, 4) # -1 ->
         [bytes |-> Utf8(FromHex(s, i + 2, 4)), next |-> i + 6]
    [] OTHER -> UriCode(s, i)

(* The letters after a percent sign that make a code in decode_query_      *)
(* component: strtoul also takes a blank or a sign before one digit.       *)
HexPair(a, b) ==
  CASE IsHex(a) /\ IsHex(b) -> 16 * HexValue(a) + HexValue(b)
    [] a \in {Tab, 10, 11, 12, 13, Blank, Plus} /\ IsHex(b) -> HexValue(b)
    [] a = Minus /\ IsHex(b) -> (256 - HexValue(b)) % 256
    [] OTHER -> -1

QueryCode(s, i) ==
  CASE s[i] = Percent /\ i + 2 <= Len(s) /\ HexPair(s[i + 1], s[i + 2]) # -1 ->
         Byte(HexPair(s[i + 1], s[i + 2]), i + 3)
    [] s[i] = Plus -> Byte(Blank, i + 1)
    [] OTHER -> Byte(s[i], i + 1)

(* The whole loops                                                         *)
EncodeQuery(s) == FlattenSeq([k \in DOMAIN s |-> QueryForm(s[k])])
DecodeQuery(s) ==
  LET from[i \in 1 .. Len(s) + 1] ==
        IF i > Len(s) THEN <<>> ELSE QueryCode(s, i).bytes \o from[QueryCode(s, i).next]
  IN  from[1]
DecodePath(s) ==
  LET from[i \in 1 .. Len(s) + 1] ==
        IF i > Len(s) THEN <<>> ELSE PathCode(s, i).bytes \o from[PathCode(s, i).next]
  IN  from[1]

(***************************************************************************)
(* Query parameters: the sequence of the pairs of a multimap               *)
(***************************************************************************)
ParamsToQuery(params) ==
  FlattenSeq([k \in DOMAIN params |->
    (IF k = 1 THEN <<>> ELSE <<Ampersand>>)
      \o EncodeQuery(params[k][1]) \o <<Equal>> \o EncodeQuery(params[k][2])])

(* A pair that is written as an earlier one is not taken again.            *)
Fresh(texts) ==
  FoldLeft(LAMBDA kept, t : IF Contains(kept, t) THEN kept ELSE Append(kept, t), <<>>, texts)

ParseQueryText(s) ==
  LET pairs == Fresh(Split(s, Ampersand))
      divided == [k \in DOMAIN pairs |-> Divide(pairs[k], Equal)]
      keyed == SelectSeq(divided, LAMBDA p : p[1] # <<>>)
  IN  [k \in DOMAIN keyed |-> <<DecodeQuery(keyed[k][1]), DecodeQuery(keyed[k][2])>>]

(***************************************************************************)
(* Routes with path parameters: the fragments and names PathParamsMatcher  *)
(* keeps of a pattern, and match                                           *)
(***************************************************************************)
Fragments(pattern) ==
  LET from[begin \in 1 .. Len(pattern) + 2] ==
        LET start == IF begin = 1 THEN 1 ELSE begin - 1
            marks == {k \in start .. Len(pattern) - 1 : pattern[k] = Slash /\ pattern[k + 1] = Colon}
            mark == CHOOSE k \in marks : \A j \in marks : k <= j
            ends == {k \in mark + 2 .. Len(pattern) : pattern[k] = Slash} \cup {Len(pattern) + 1}
            end == CHOOSE k \in ends : \A j \in ends : k <= j
        IN  IF marks = {}
            THEN [static |-> IF begin <= Len(pattern) THEN <<Rest(pattern, begin)>> ELSE <<>>,
                  names |-> <<>>]
            ELSE [static |-> <<SubSeq(pattern, begin, mark)>> \o from[end + 1].static,
                  names |-> <<SubSeq(pattern, mark + 2, end - 1)>> \o from[end + 1].names]
  IN  from[1]

(* The values of the parameters when the path matches, else None         *)
MatchAll(f, path) ==
  LET from[i \in 1 .. Len(f.static) + 1, at \in 1 .. Len(path) + 2] ==
        LET next == at + Len(f.static[i])
            ends == {k \in next .. Len(path) : path[k] = Slash} \cup {Len(path) + 1}
            end == CHOOSE k \in ends : \A j \in ends : k <= j
            rest == from[i + 1, end + 1]
        IN  CASE i > Len(f.static) -> IF at > Len(path) THEN <<>> ELSE None
              [] next - 1 > Len(path) -> None
              [] SubSeq(path, at, next - 1) # f.static[i] -> None
              [] i > Len(f.names) -> from[i + 1, next]
              [] OTHER -> IF rest = None THEN None ELSE <<SubSeq(path, next, end - 1)>> \o rest
  IN  from[1, 1]

(* Mutation: paths are matched with a slash at their end.                  *)
MatchParams_Closed(pattern, path) ==
  MatchAll(Fragments(pattern), path \o (IF path # <<>> /\ Last(path) = Slash THEN <<>> ELSE <<Slash>>))

MatchParams(pattern, path) == MatchAll(Fragments(pattern), path)

(***************************************************************************)
(* Header fields: set_header, write_headers, getline and parse_header      *)
(***************************************************************************)
Crlf2 == <<13, 10>>
TokenChar ==
  Alpha \cup Digit \cup {33, 35, 36, 37, 38, 39, 42, 43, 45, 46, 94, 95, 96, 124, 126}
IsFieldName(s) == s # <<>> /\ \A k \in DOMAIN s : s[k] \in TokenChar
FieldVchar == 33 .. 126 \cup 128 .. 255
(* Mutation: blanks are taken anywhere in a value.                         *)
IsFieldContent_Blank(s) == \A k \in DOMAIN s : s[k] \in FieldVchar \cup {Blank, Tab}
IsFieldContent(s) ==
  \A k \in DOMAIN s : s[k] \in FieldVchar \cup (IF k \in {1, Len(s)} THEN {} ELSE {Blank, Tab})

SetHeader(name, value) ==
  IF IsFieldName(name) /\ IsFieldContent(value) THEN <<<<name, value>>>> ELSE <<>>
WriteHeaders(fields) ==
  FlattenSeq([k \in DOMAIN fields |-> fields[k][1] \o <<Colon, Blank>> \o fields[k][2] \o Crlf2]) \o Crlf2

(* Location and Referer, in whatever case, are not decoded.               *)
Undecoded == {<<108, 111, 99, 97, 116, 105, 111, 110>>, <<114, 101, 102, 101, 114, 101, 114>>}
LowerCase(s) == [k \in DOMAIN s |-> IF s[k] \in 65 .. 90 THEN s[k] + 32 ELSE s[k]]

ParseHeader(line) ==
  LET solid == {k \in DOMAIN line : line[k] \notin {Blank, Tab}} \cup {0}
      kept == SubSeq(line, 1, CHOOSE k \in solid : \A j \in solid : k >= j)
      name == Divide(kept, Colon)[1]
      value == Trim(Divide(kept, Colon)[2])
  IN  IF IsFieldName(name) /\ name # kept /\ IsFieldContent(value)
      THEN <<name, IF LowerCase(name) \in Undecoded THEN value ELSE DecodePath(value)>> ELSE None

(* What read_headers makes of the bytes that come: the fields, or None   *)
ReadHeaders(bytes) ==
  LET from[i \in 1 .. Len(bytes) + 1] ==
        LET ends == {k \in i .. Len(bytes) - 1 : SubSeq(bytes, k, k + 1) = Crlf2}
            end == CHOOSE k \in ends : \A j \in ends : k <= j
            field == ParseHeader(SubSeq(bytes, i, end - 1))
            rest == from[end + 2]
        IN  CASE ends = {} -> None
              [] end = i -> <<>>
              [] OTHER -> IF field = None \/ rest = None THEN None ELSE <<field>> \o rest
  IN  from[1]

(***************************************************************************)
(* The Accept header: a sequence of what commas separate.  Its kind is     *)
(* "gap" for nothing, "blank" for blanks, "junk" for a media type without  *)
(* a slash, else "type"; quality is in tenths, and 11 is above all.        *)
(***************************************************************************)
AcceptOk(items) ==
  \/ Len(items) = 1 /\ items[1].kind = "gap"
  \/ \A k \in DOMAIN items :
       /\ items[k].kind \notin {"gap", "junk"}
       /\ items[k].kind = "type" => items[k].quality \in 0 .. 10
Prefers(items, j, k) ==
  \/ items[j].quality > items[k].quality
  \/ items[j].quality = items[k].quality /\ j < k
ParseAccept(items) ==
  LET entries == {k \in DOMAIN items : items[k].kind = "type"}
  IN  IF AcceptOk(items) THEN SetToSortSeq(entries, LAMBDA j, k : Prefers(items, j, k)) ELSE None
==============================================================================
