------------------------------- MODULE MCValues -------------------------------
(***************************************************************************)
(* What the program and its HTTP server make of values: the text of        *)
(* requests, form data and configurations.  A behaviour is one of          *)
(* HttpFormData, HttpRanges, HttpFiles or HttpCodec, or takes one value,   *)
(* of which a property compares what the code makes with what it means.    *)
(***************************************************************************)
EXTENDS HttpFormData, HttpRanges, HttpFiles, HttpCodec, Config

VARIABLE given  \* what this behaviour is about, and its value

Texts(chars, max) == BoundedSeq(chars, max)

(* Range headers of two parts of any kind, of four that may overlap more   *)
(* often than is allowed, and of too many.                                 *)
Positions == {Open, 0, 1, 2, 3}
RangeHeaders ==
  BoundedSeq((Positions \X Positions) \cup {Junk, Gap}, 2)
    \cup BoundedSeq({<<0, 0>>, <<0, 1>>, <<1, 1>>, <<1, Open>>}, 4)
    \cup {[k \in 1 .. MaxRanges + 1 |-> <<k, k>>]}
UnsetOrNot == {Unset, 200, 206, 404}

EncodableTexts == Texts({97, Percent, LetterU, 50, 53, Plus, Blank, Slash, 200}, 3)
ShortTexts == Texts({97, Ampersand, Equal, Percent, Plus, Blank, 200}, 2)
ParamLists ==
  {<<<<k, v>>>> : k, v \in ShortTexts}
    \cup [1 .. 2 -> Texts({97, Equal, Blank}, 1) \X Texts({97, Ampersand, Plus}, 1)]

Fragment == {<<Slash>>, <<Dot>>, <<97>>, <<Question>>, <<Hash>>, <<Percent, 50, 69>>,
             <<Percent, 50, 70>>, <<Percent, 48, 48>>, <<Percent, 50, 53>>}
TargetTexts == {FlattenSeq(f) : f \in BoundedSeq(Fragment, 4)}
Mounts == <<<<Slash, 97>>, <<Slash>>>>

Segments == {<<97>>, <<98>>, <<Colon, 120>>, <<Colon, 121>>}
Join(segments) == FlattenSeq([k \in DOMAIN segments |-> <<Slash>> \o segments[k]])
Patterns ==
  LET lists == {l \in BoundedSeq(Segments, 3) :
                  \A j, k \in DOMAIN l : l[j][1] = Colon /\ l[j] = l[k] => j = k}
  IN  {Join(l) \o end : l \in lists, end \in {<<>>, <<Slash>>}}
Paths == Texts({Slash, 97, 98}, 5)

FieldTexts == Texts({97, Blank, Colon, 13, 10, Percent, 52, 200}, 3)
Location == <<76, 111, 99, 97, 116, 105, 111, 110>>
Names == {Location, <<97>>, <<97, Blank>>, <<Colon>>, <<>>}

AcceptLists ==
  BoundedSeq([kind : {"gap", "blank", "junk"}, quality : {0}]
               \cup [kind : {"type"}, quality : {0, 5, 10, 11}], 3)

Entries == {<<<<"n">>>>, <<<<"t">>, <<"n", "f">>>>}
Parts2 == {<<>>, <<"x">>, <<"CR", "LF", "-">>, <<"CR", "LF", "-", "-", "x">>, <<"-", "-", "B", "CR">>}
Entry(head, text) ==
  [wire |-> FlattenSeq([k \in DOMAIN head |-> head[k] \o Crlf]) \o Crlf \o text,
   entry |-> [kind |-> IF Contains(head, <<"n", "f">>) THEN "file" ELSE "field", text |-> text]]
Form(before, list, after) ==
  before \o Dash \o <<"B">> \o Crlf
    \o FlattenSeq([k \in DOMAIN list |-> list[k].wire \o CrlfDashBoundary
                                           \o (IF k = Len(list) THEN Dash ELSE Crlf)]) \o after
EntryLists == BoundedSeq({Entry(h, t) : h \in Entries, t \in Parts2}, 2) \ {<<>>}
Small == Entry(<<<<"n">>>>, <<"x">>)
FormContents ==
  {Form(before, list, after) :
     before \in {<<>>, <<"x", "-">>}, list \in EntryLists, after \in {<<>>, Crlf}}
    \cup {SubSeq(Form(<<>>, <<Small, Small>>, <<>>), 1, k) : k \in 1 .. 30}
    \cup {Form(<<>>, <<Small, Small, Small>>, <<>>),
          Form(<<>>, <<Entry(<<<<"x">>>>, <<"x">>), Small>>, <<>>),
          Form(<<>>, <<Entry(<<<<"n">>, <<"t", "t", "t", "t">>>>, <<"x">>)>>, <<>>),
          Form(<<>>, <<Small>>, <<"x">> \o Crlf),
          Form(<<>>, <<Small>>, Crlf \o <<"x">> \o Crlf),
          SubSeq(Form(<<>>, <<Small>>, <<>>), 1, 15) \o <<"x">> \o Crlf}

Words ==
  {<<>>, <<"a">>, <<" ">>, <<"a", " ">>, <<"'", "a", "'">>, <<"a", "'">>, <<"\\", "a">>, <<"dbname=">>}
Sections == {[k \in set |-> f[k]] : f \in [{"user=", "password=", "dbname="} -> Words],
                                    set \in SUBSET {"user=", "password=", "dbname="}}
Environments ==
  {<<>>} \cup [{"password="} -> {<<>>, <<"a">>, <<" ">>}]
         \cup [{"port="} -> {<<"1", "a">>, <<"a">>, <<"1", "0">>}]

------------------------------------------------------------------------------
Of(kind) == given = [of |-> kind, value |-> <<>>]
RangesIdle ==
  /\ request = <<>> /\ place = "idle" /\ ranges = <<>> /\ rest = <<>>
  /\ status = Unset /\ answer = <<>>
FilesIdle ==
  /\ target = <<>> /\ stage = "idle" /\ path = <<>> /\ at = 1 /\ entry = 1
  /\ subPath = <<>> /\ level = 0 /\ file = <<>> /\ depth = 0
CodecIdle ==
  /\ codec = "uri" /\ plain = <<>> /\ task = "idle"
  /\ coded = <<>> /\ cursor = 1 /\ decoded = <<>>

Init ==
  /\ FormInit
  /\ \/ Of("nothing") /\ RangesIdle /\ FilesIdle /\ CodecIdle
     \/ Of("ranges") /\ RangesInit /\ FilesIdle /\ CodecIdle
     \/ Of("files") /\ RangesIdle /\ FilesInit /\ CodecIdle
     \/ Of("codec") /\ RangesIdle /\ FilesIdle /\ CodecInit

Take(kind, values) ==
  /\ Of("nothing") /\ content = <<>>
  /\ \E v \in values : given' = [of |-> kind, value |-> v]
  /\ UNCHANGED <<formVars, rangesVars, filesVars, codecVars>>

Next ==
  \/ Take("query", ParamLists)
  \/ Take("route", Patterns)
  \/ Take("field", FieldTexts)
  \/ Take("accept", AcceptLists)
  \/ Take("config", Sections)
  \/ Of("nothing") /\ FormNext /\ UNCHANGED <<given, rangesVars, filesVars, codecVars>>
  \/ RangesNext /\ UNCHANGED <<given, formVars, filesVars, codecVars>>
  \/ FilesNext /\ UNCHANGED <<given, formVars, rangesVars, codecVars>>
  \/ CodecNext /\ UNCHANGED <<given, formVars, rangesVars, filesVars>>
Spec == Init /\ [][Next]_<<given, formVars, rangesVars, filesVars, codecVars>>

Given(kind) == given.of = kind
V == given.value

------------------------------------------------------------------------------
Filled(segments, values) ==
  LET params(k) == Cardinality({j \in 1 .. k : segments[j][1] = Colon})
  IN  Join([k \in DOMAIN segments |-> IF segments[k][1] = Colon THEN values[params(k)] ELSE segments[k]])
RouteMeans(pattern, asked) ==
  LET segments == Tail(Parts(IF Last(pattern) = Slash THEN Front(pattern) ELSE pattern, Slash))
      open == segments # <<>> /\ Last(segments)[1] = Colon
      count == Cardinality({k \in DOMAIN segments : segments[k][1] = Colon})
      ends == IF open THEN {<<>>, <<Slash>>} ELSE IF Last(pattern) = Slash THEN {<<Slash>>} ELSE {<<>>}
  IN  {values \in [1 .. count -> ToSet(Parts(asked, Slash))] :
         \E end \in ends : asked = Filled(segments, values) \o end}

(* A route with path parameters matches the paths that fill them in, and   *)
(* gives each parameter the text in its place; after a last parameter one  *)
(* slash is optional, in the path and in the pattern.                      *)
RoutesMatch ==
  Given("route") /\ V # <<>> =>
    \A asked \in Paths :
      RouteMeans(V, asked) = IF MatchParams(V, asked) = None THEN {} ELSE {MatchParams(V, asked)}

FieldSurvives(name, value) ==
  LET set == SetHeader(name, value)
      read == IF name = Location THEN value ELSE DecodePath(value)
  IN  /\ ReadHeaders(WriteHeaders(set)) = [k \in DOMAIN set |-> <<name, read>>]
      /\ set = <<>> <=> ReadHeaders(WriteHeaders(<<<<name, value>>>>)) # <<<<name, read>>>>
Preferred(list, order) ==
  /\ ToSet(order) = {k \in DOMAIN list : list[k].kind = "type"}
  /\ Len(order) = Cardinality(ToSet(order))
  /\ \A j, k \in DOMAIN order : j < k =>
       \/ list[order[j]].quality > list[order[k]].quality
       \/ list[order[j]].quality = list[order[k]].quality /\ order[j] < order[k]

QuerySurvives(params) ==
  ParseQueryText(ParamsToQuery(params)) = Fresh(SelectSeq(params, LAMBDA p : p[1] # <<>>))

(* A header field that set_header takes is read at the other end as one    *)
(* field with the same name and value, except that escapes in the value    *)
(* have been decoded, but not in a Location; one that would read           *)
(* differently is not taken.  The parameters read from a query are those   *)
(* it was made of, in order, except that what has no key is dropped and a  *)
(* repeated pair is one.  The media types of an Accept field are all in    *)
(* the list made of it, each once, none before one preferred to it, equals *)
(* in the order given.                                                     *)
FieldsSurvive ==
  /\ Given("field") => \A name \in Names : FieldSurvives(name, V)
  /\ Given("query") => QuerySurvives(V)
  /\ Given("accept") /\ ParseAccept(V) # None => Preferred(V, ParseAccept(V))

(* A form is read as its fields and files with their whole texts, however  *)
(* the chunks are cut, also where a text looks like a boundary.            *)
FormsRead ==
  AllRead /\ content # <<>> =>
    \A before \in {<<>>, <<"x", "-">>}, list \in EntryLists, after \in {<<>>, Crlf} :
      content = Form(before, list, after) =>
        Accepted(parser) /\ parser.entries = [k \in DOMAIN list |-> list[k].entry]

Epilogue == \E k \in 0 .. Len(content) :
  StartsAt(content, k, CrlfDashBoundary \o Dash) /\ From(content, k + 7) \notin {<<>>, Crlf}
LongLine == \E k \in 0 .. Len(content) :
  HeaderMax < Find(From(content, k), Crlf) /\ StartsAt(content, k, [j \in 1 .. HeaderMax + 1 |-> "t"])

(* What comes of any content, malformed ones too, does not depend on where *)
(* the chunks are cut, unless text follows the last boundary or a header   *)
(* line is longer than the limit.                                          *)
ChunkingIrrelevant ==
  AllRead /\ content # <<>> /\ ~ Epilogue /\ ~ LongLine =>
    LET whole == Parse(FreshParser, content)
    IN  /\ Accepted(parser) = Accepted(whole)
        /\ Accepted(parser) => parser.entries = whole.entries

(* libpq reads a connection string as the settings it was made of exactly  *)
(* when every value is plain.  An empty password, the default, is not: the *)
(* name of the database is then read as the password.                      *)
ConnectsAsConfigured ==
  Given("config") =>
    \A env \in Environments :
      LET meant == Meant(V, env)
          loaded == Load([local |-> V, hosted |-> V],
                         [local |-> env, hosted |-> <<>>, sync |-> <<>>])
      IN  ParseConninfo(loaded.localConn, <<>>) = meant <=> \A k \in DOMAIN meant : Plain(meant[k])
==============================================================================
