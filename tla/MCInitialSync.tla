---------------------------- MODULE MCInitialSync ----------------------------
(* Instances of InitialSync for TLC; the .cfg files choose among the lists. *)
EXTENDS InitialSync

CONSTANTS t1, t2, v1, v2

OneTable == {<<t1>>}

(* No table, and a table configured twice. *)
OddLists == OneTable \cup {<<>>, <<t1, t1>>}

(* Every version arrives as it is, or a value of v1 is not valid there. *)
Verbatim == [v \in Versions |-> v]
Garbled == [Verbatim EXCEPT ![v1] = v2]
==============================================================================
