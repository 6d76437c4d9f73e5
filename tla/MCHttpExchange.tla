---------------------------- MODULE MCHttpExchange ----------------------------
(***************************************************************************)
(* Requests for HttpExchange: a plain GET, followed or preceded by one     *)
(* that differs from it in a way the server tells apart.                   *)
(***************************************************************************)
EXTENDS HttpExchange

Get == [method |-> "GET", line |-> TRUE, head |-> "ok", connection |-> "keep",
        expect |-> FALSE, framing |-> "none", size |-> 0, media |-> "plain",
        early |-> FALSE, match |-> TRUE]
Post == [Get EXCEPT !.method = "POST", !.framing = "length", !.size = 2, !.match = FALSE]

Variants ==
  {Get, Post, [Get EXCEPT !.line = FALSE], [Get EXCEPT !.match = FALSE],
   [Get EXCEPT !.connection = "close"], [Get EXCEPT !.connection = "old"],
   [Get EXCEPT !.method = "HEAD"], [Get EXCEPT !.method = "TRACE"],
   [Get EXCEPT !.framing = "length", !.size = 1],
   [Get EXCEPT !.method = "POST"],
   [Post EXCEPT !.framing = "invalid"], [Get EXCEPT !.framing = "invalid", !.size = 1],
   [Post EXCEPT !.size = 3],
   [Post EXCEPT !.framing = "chunked"], [Post EXCEPT !.framing = "chunked", !.size = 3],
   [Post EXCEPT !.method = "DELETE", !.framing = "chunked", !.match = TRUE],
   [Post EXCEPT !.method = "DELETE", !.framing = "none", !.size = 0, !.media = "garbled"],
   [Post EXCEPT !.expect = TRUE], [Post EXCEPT !.expect = TRUE, !.early = TRUE],
   [Post EXCEPT !.early = TRUE]}
  \cup {[Get EXCEPT !.head = h] : h \in {"bad", "uri", "accept", "range"}}
  \cup {[Post EXCEPT !.media = m] : m \in {"form", "refused", "garbled"}}

ExchangeScripts == {<<a, Get>> : a \in Variants} \cup {<<Get, a>> : a \in Variants}
==============================================================================
