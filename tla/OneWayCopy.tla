------------------------------ MODULE OneWayCopy ------------------------------
(***************************************************************************)
(* What a one-way copy promises, whatever its paging, batching, retrying   *)
(* and failures: the rows added to the target were read from the source,   *)
(* each in what the version the source held then becomes on the way, and a *)
(* row that is in the target stays there as it is.                         *)
(***************************************************************************)
CONSTANTS Tables, Keys, Versions, NoRow,
  Literal   \* what a version becomes on its way to the target

TableData == [Keys -> Versions \cup {NoRow}]

VARIABLES
  source,    \* the tables copied from, which others write
  target,    \* the tables copied to
  inFlight   \* rows read from the source and not written to the target yet

vars == <<source, target, inFlight>>

Init ==
  /\ source \in [Tables -> TableData]
  /\ target \in [Tables -> TableData]
  /\ inFlight = [t \in Tables |-> [k \in Keys |-> NoRow]]

Literals(rows) == [k \in Keys |-> IF rows[k] = NoRow THEN NoRow ELSE Literal[rows[k]]]

(* part holds rows of whole and no others. *)
PartOf(part, whole) == \A k \in Keys : part[k] \in {whole[k], NoRow}

WriteSource(t, k, row) ==
  /\ source' = [source EXCEPT ![t][k] = row]
  /\ UNCHANGED <<target, inFlight>>

(* In flight, t has none but rows of the table whole; the rest is as it was. *)
FlightOf(t, whole) ==
  /\ inFlight' \in [Tables -> TableData]
  /\ PartOf(inFlight'[t], whole)
  /\ \A u \in Tables \ {t} : inFlight'[u] = inFlight[u]

Read(t) ==
  /\ FlightOf(t, Literals(source[t]))
  /\ UNCHANGED <<source, target>>

(* Rows in flight are added where the target has none, or are dropped.     *)
Write(t) ==
  /\ target' \in [Tables -> TableData]
  /\ \A u \in Tables, k \in Keys :
       \/ target'[u][k] = target[u][k]
       \/ u = t /\ target[u][k] = NoRow /\ target'[u][k] = inFlight[u][k]
  /\ FlightOf(t, inFlight[t])
  /\ UNCHANGED source

Next ==
  \/ \E t \in Tables : Read(t) \/ Write(t)
  \/ \E t \in Tables, k \in Keys, row \in Versions \cup {NoRow} : WriteSource(t, k, row)

Spec == Init /\ [][Next]_vars
==============================================================================
