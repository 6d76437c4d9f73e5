------------------------------- MODULE HttpCodec -------------------------------
(***************************************************************************)
(* The percent codecs of httplib: a text is encoded, as a client does with *)
(* a component of its request, and what comes of it is decoded, as the     *)
(* server does.  Each loop is a step per byte or code.                     *)
(***************************************************************************)
EXTENDS HttpText

CONSTANT Encodable  \* texts to be encoded

ASSUME CodecAssumption == Encodable \subseteq Seq(0 .. 255)

VARIABLES
  codec,    \* the functions in use, encode_... and decode_...
  plain,    \* what they encode
  task,     \* "encode", "decode" or "done"
  coded,    \* what is encoded so far
  cursor,   \* where the loop is, in plain or in coded
  decoded   \* what is decoded so far

codecVars == <<codec, plain, task, coded, cursor, decoded>>

Codecs == {"uri", "uri_component", "path_component", "query_component"}

EncodedAs(c) ==
  CASE codec = "uri" -> UriForm(c)
    [] codec = "uri_component" -> UriComponentForm(c)
    [] codec = "path_component" -> PathForm(c)
    [] codec = "query_component" -> QueryForm(c)
CodeAt(i) ==
  CASE codec \in {"uri", "uri_component"} -> UriCode(coded, i)
    [] codec = "path_component" -> PathCode(coded, i)
    [] codec = "query_component" -> QueryCode(coded, i)

CodecInit ==
  /\ codec \in Codecs
  /\ plain \in Encodable
  /\ task = "encode"
  /\ coded = <<>> /\ cursor = 1 /\ decoded = <<>>

EncodeByte ==
  /\ task = "encode" /\ cursor <= Len(plain)
  /\ coded' = coded \o EncodedAs(plain[cursor])
  /\ cursor' = cursor + 1
  /\ UNCHANGED <<codec, plain, task, decoded>>

BeginDecode ==
  /\ task = "encode" /\ cursor > Len(plain)
  /\ task' = "decode" /\ cursor' = 1
  /\ UNCHANGED <<codec, plain, coded, decoded>>

DecodeCode ==
  /\ task = "decode" /\ cursor <= Len(coded)
  /\ decoded' = decoded \o CodeAt(cursor).bytes
  /\ cursor' = CodeAt(cursor).next
  /\ UNCHANGED <<codec, plain, task, coded>>

EndDecode ==
  /\ task = "decode" /\ cursor > Len(coded)
  /\ task' = "done"
  /\ UNCHANGED <<codec, plain, coded, cursor, decoded>>

CodecNext == EncodeByte \/ BeginDecode \/ DecodeCode \/ EndDecode
CodecSpec == CodecInit /\ [][CodecNext]_codecVars

------------------------------------------------------------------------------
(* Decoding a component gives back the text that was encoded, byte for     *)
(* byte, by whichever pair of functions: nothing that encoding leaves      *)
(* alone is read as an escape, or as a plus sign that was a blank.         *)
DecodingInverts == task = "done" => decoded = plain
==============================================================================
