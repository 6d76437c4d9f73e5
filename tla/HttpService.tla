------------------------------ MODULE HttpService -----------------------------
(***************************************************************************)
(* What httplib::Server promises those who use it: connections are served  *)
(* in the order in which they were accepted, each once, by no more than    *)
(* Slots threads, and one that is not served is refused at once: only the  *)
(* last in line is sent away, or one that never got in line.               *)
(***************************************************************************)
EXTENDS Integers, FiniteSets, Sequences

CONSTANTS
  Connections,  \* the connections clients may make
  Slots         \* how many are served at a time

VARIABLES
  stage,  \* "out", "inLine", "served" or "over"
  line    \* those in line, the first to be served first

vars == <<stage, line>>

Init ==
  /\ stage = [c \in Connections |-> "out"]
  /\ line = <<>>

Enter(c) ==
  /\ stage[c] = "out"
  /\ stage' = [stage EXCEPT ![c] = "inLine"]
  /\ line' = Append(line, c)

Serve ==
  /\ line # <<>>
  /\ Cardinality({c \in Connections : stage[c] = "served"}) < Slots
  /\ stage' = [stage EXCEPT ![Head(line)] = "served"]
  /\ line' = Tail(line)

End(c) ==
  /\ stage[c] = "served"
  /\ stage' = [stage EXCEPT ![c] = "over"]
  /\ UNCHANGED line

Refuse ==
  /\ line # <<>>
  /\ stage' = [stage EXCEPT ![line[Len(line)]] = "over"]
  /\ line' = SubSeq(line, 1, Len(line) - 1)

(* The listening socket goes, and with it those that were not accepted.    *)
Abandon ==
  /\ \E cs \in SUBSET {c \in Connections : stage[c] = "out"} :
       stage' = [c \in Connections |-> IF c \in cs THEN "over" ELSE stage[c]]
  /\ UNCHANGED line

Next == Serve \/ Refuse \/ Abandon \/ \E c \in Connections : Enter(c) \/ End(c)

Spec == Init /\ [][Next]_vars
==============================================================================
