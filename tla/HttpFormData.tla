----------------------------- MODULE HttpFormData -----------------------------
(***************************************************************************)
(* FormDataParser of httplib: multipart content handed over chunk by       *)
(* chunk, as it arrives, and cut into the fields and files of a form.      *)
(*                                                                         *)
(* Content is a sequence of characters: "CR", "LF", "-", "B" (the whole    *)
(* boundary), and in a header line "n" (it names a field), "f" (it names a *)
(* file), "t" (another header) and "x" (text, of no header).               *)
(***************************************************************************)
EXTENDS Integers, Sequences, FiniteSets, SequencesExt

CONSTANTS
  Contents,    \* the contents that requests may have
  ChunkMax,    \* the longest chunk
  HeaderMax,   \* CPPHTTPLIB_HEADER_MAX_LENGTH
  MaxEntries   \* CPPHTTPLIB_MULTIPART_FORM_DATA_FILE_MAX_COUNT

ASSUME FormDataAssumption ==
  /\ Contents \subseteq Seq({"CR", "LF", "-", "B", "n", "f", "t", "x"})
  /\ ChunkMax \in Nat \ {0}
  /\ HeaderMax \in Nat \ {0}
  /\ MaxEntries \in Nat \ {0}

VARIABLES
  content,  \* what the client sends
  fed,      \* how much of it parse was called with
  parser    \* the FormDataParser

formVars == <<content, fed, parser>>

Crlf == <<"CR", "LF">>
Dash == <<"-", "-">>
DashBoundaryCrlf == Dash \o <<"B">> \o Crlf
CrlfDashBoundary == Crlf \o Dash \o <<"B">>

(* valid is is_valid_, head the headers of file_; an entry has a kind and  *)
(* the text that its content callbacks were given.  inner, returned and ok *)
(* belong to one call of parse: is it in the loop over header lines, has   *)
(* it returned, and what.                                                  *)
FreshParser ==
  [state |-> 0, buf |-> <<>>, valid |-> FALSE, head |-> <<>>, entries |-> <<>>,
   inner |-> FALSE, returned |-> FALSE, ok |-> TRUE]

StartsAt(buf, k, s) == k + Len(s) <= Len(buf) /\ SubSeq(buf, k + 1, k + Len(s)) = s
Find(buf, s) ==
  LET found == {k \in 0 .. Len(buf) - Len(s) : StartsAt(buf, k, s)}
  IN  IF found = {} THEN Len(buf) ELSE CHOOSE k \in found : \A j \in found : k <= j
From(buf, k) == SubSeq(buf, k + 1, Len(buf))

Return(p, ok) == [p EXCEPT !.returned = TRUE, !.ok = ok]
Invalid(p) == [Return(p, FALSE) EXCEPT !.valid = FALSE]

InitialBoundary(p) ==
  LET pos == Find(p.buf, DashBoundaryCrlf)
  IN  IF pos = Len(p.buf) THEN Return(p, TRUE)
      ELSE [p EXCEPT !.buf = From(p.buf, pos + Len(DashBoundaryCrlf)), !.state = 1]

NewEntry(p) == [p EXCEPT !.head = <<>>, !.state = 2]

(* The length of a line is looked at when parse comes to this state, for   *)
(* the first line, and not for those the loop finds after it.              *)
ValidLine(line) == \A k \in DOMAIN line : line[k] \in {"n", "f", "t"}
HeaderLine(p) ==
  LET pos == Find(p.buf, Crlf)
      line == SubSeq(p.buf, 1, pos)
      kind == IF \E k \in DOMAIN p.head : Contains(p.head[k], "f") THEN "file" ELSE "field"
  IN  CASE ~ p.inner /\ pos > HeaderMax -> Return(p, FALSE)
        [] pos = Len(p.buf) -> Return(p, TRUE)
        [] pos = 0 /\ Len(p.entries) = MaxEntries -> Invalid(p)
        [] pos = 0 -> [p EXCEPT !.buf = From(p.buf, Len(Crlf)), !.state = 3, !.inner = FALSE,
                                !.entries = Append(@, [kind |-> kind, text |-> <<>>])]
        [] ~ ValidLine(line) -> Invalid(p)
        [] OTHER -> [p EXCEPT !.buf = From(p.buf, pos + Len(Crlf)), !.inner = TRUE,
                              !.head = Append(@, line)]

AddText(p, text) == [p EXCEPT !.entries[Len(p.entries)].text = @ \o text]

(* Mutation: too little of what may begin a boundary is kept back.         *)
Body_KeepTwo(p) ==
  LET pos == Find(p.buf, CrlfDashBoundary)
      len == Len(p.buf) - 2
  IN  CASE len < 0 -> Return(p, TRUE)
        [] pos < Len(p.buf) ->
             [AddText(p, SubSeq(p.buf, 1, pos)) EXCEPT
                !.buf = From(p.buf, pos + Len(CrlfDashBoundary)), !.state = 4]
        [] OTHER -> Return([AddText(p, SubSeq(p.buf, 1, len)) EXCEPT !.buf = From(p.buf, len)], TRUE)

Body(p) ==
  LET pos == Find(p.buf, CrlfDashBoundary)
      len == Len(p.buf) - Len(CrlfDashBoundary)
  IN  CASE len < 0 -> Return(p, TRUE)
        [] pos < Len(p.buf) ->
             [AddText(p, SubSeq(p.buf, 1, pos)) EXCEPT
                !.buf = From(p.buf, pos + Len(CrlfDashBoundary)), !.state = 4]
        [] OTHER -> Return([AddText(p, SubSeq(p.buf, 1, len)) EXCEPT !.buf = From(p.buf, len)], TRUE)

(* Mutation: what follows a boundary is looked at before it is there.      *)
Boundary_Early(p) ==
  CASE StartsAt(p.buf, 0, Crlf) -> [p EXCEPT !.buf = From(p.buf, Len(Crlf)), !.state = 1]
    [] StartsAt(p.buf, 0, Dash) -> [p EXCEPT !.valid = TRUE, !.buf = <<>>]
    [] OTHER -> Return(p, FALSE)

Boundary(p) ==
  CASE Len(p.buf) < 2 -> Return(p, TRUE)
    [] StartsAt(p.buf, 0, Crlf) -> [p EXCEPT !.buf = From(p.buf, Len(Crlf)), !.state = 1]
    [] StartsAt(p.buf, 0, Dash) -> [p EXCEPT !.valid = TRUE, !.buf = <<>>]
    [] OTHER -> Return(p, TRUE)

RECURSIVE Continue(_)
Continue(p) ==
  IF p.buf = <<>> \/ p.returned THEN p
  ELSE Continue(CASE p.state = 0 -> InitialBoundary(p)
                  [] p.state = 1 -> NewEntry(p)
                  [] p.state = 2 -> HeaderLine(p)
                  [] p.state = 3 -> Body(p)
                  [] p.state = 4 -> Boundary(p))

Parse(p, chunk) ==
  Continue([p EXCEPT !.buf = @ \o chunk, !.inner = FALSE, !.returned = FALSE, !.ok = TRUE])

------------------------------------------------------------------------------
FormInit ==
  /\ content = <<>>
  /\ fed = 0
  /\ parser = FreshParser

Submit ==
  /\ content = <<>>
  /\ content' \in Contents
  /\ UNCHANGED <<fed, parser>>

(* A receiver that returns false ends the reading of the content.          *)
Feed ==
  /\ parser.ok
  /\ \E n \in 1 .. ChunkMax :
       /\ fed + n <= Len(content)
       /\ parser' = Parse(parser, SubSeq(content, fed + 1, fed + n))
       /\ fed' = fed + n
  /\ UNCHANGED content

FormNext == Submit \/ Feed

(* What read_content_core makes of it                                      *)
AllRead == fed = Len(content) \/ ~ parser.ok
Accepted(p) == p.ok /\ p.valid
==============================================================================
