----------------------------- MODULE InitialSync -----------------------------
(***************************************************************************)
(* ReplicationManager::initialSync(): the copy of every tracked table from *)
(* the local to the hosted database, one page at a time                    *)
(*                                                                         *)
(*   SELECT * FROM t ORDER BY <primary key> LIMIT PageSize OFFSET offset   *)
(*                                                                         *)
(* and, within a page, one batch at a time                                 *)
(*                                                                         *)
(*   INSERT INTO t (...) VALUES (...), ... ON CONFLICT DO NOTHING          *)
(*                                                                         *)
(* Every statement goes through executeWithRetry.  Each statement runs in  *)
(* a transaction of its own, so the applications that write the local      *)
(* database interleave with the copy between any two statements.           *)
(*                                                                         *)
(* A row is the pair of its primary key and a version (everything else in  *)
(* it); the order of Keys is the order of the ORDER BY clause.  A value    *)
(* that the encoding of the hosted connection rejects is sent as NULL,     *)
(* which is another version, one that no unique column forbids.            *)
(***************************************************************************)
EXTENDS Integers, FiniteSets, Sequences

CONSTANTS
  Tables,        \* the tables of the local database
  Keys,          \* the primary keys a row can have: integers, for their order
  Versions,      \* what a row can hold besides its key
  NoRow,         \* the mark of a key that no row has
  Literal,       \* what PQescapeLiteral makes of the values of a version
  Unique,        \* the versions no two rows can have: another unique column
  Refused,       \* the versions the hosted server refuses, for another constraint
  TrackedLists,  \* the lists trackedTables_ can be when the copy starts
  PageSize,      \* pageSize, 1000 in the code
  BatchSize,     \* batchSize, 100 in the code
  MaxAttempts,   \* maxAttempts of executeWithRetry, 3 in the code
  IntMax,        \* the largest value of an int
  LocalOps,      \* what the applications do to the local database meanwhile
  Faults         \* what can go wrong with a statement or a connection

ASSUME KeysAssumption == Keys \subseteq Int /\ IsFiniteSet(Keys)
ASSUME RowAssumption == NoRow \notin Versions
ASSUME LiteralAssumption == Literal \in [Versions -> Versions]
ASSUME UniqueAssumption ==
  /\ Unique \subseteq Versions
  /\ Refused \subseteq Versions
  /\ \A v \in Versions : Literal[v] \in {v} \cup (Versions \ Unique)
ASSUME ListAssumption == TrackedLists \subseteq Seq(Tables)
ASSUME SizeAssumption ==
  /\ PageSize \in Nat \ {0}
  /\ BatchSize \in Nat \ {0}
  /\ MaxAttempts \in Nat \ {0}
  /\ IntMax \in Nat \ {0}
  /\ PageSize <= IntMax
ASSUME EnvironmentAssumption ==
  /\ LocalOps \subseteq {"insert", "update", "delete"}
  /\ Faults \subseteq {"select", "insert", "link", "race"}

Databases == {"local", "hosted"}

(* Why a row of the local table can be missing from the hosted one. *)
Reasons == {"unread", "unwritten", "clash", "shrunk", "mixed"}

Row == Versions \cup {NoRow}
TableData == [Keys -> Row]
EmptyTable == [k \in Keys |-> NoRow]

(* The unique column of the source holds: only these tables can exist.     *)
Consistent(rows) == \A j, k \in Keys : rows[j] = rows[k] /\ rows[j] \in Unique => j = k

VARIABLES
  localRows,   \* the rows of each table of the local database
  hostedRows,  \* the rows of each table of the hosted database
  link,        \* is the connection to each database up?  None is ever reset
  trackedTables,     \* trackedTables_ of the TableTracker
  tablePrimaryKeys,  \* tablePrimaryKeys_ of the TableTracker
  pc,          \* where the thread is in initialSync
  todo,        \* the tables of the outer loop not finished, current one first
  offset,      \* offset
  page,        \* the rows of res that no INSERT has carried yet
  attempt,     \* attempt of withExponentialBackoff: failures of the statement
  finished,    \* history: the tables whose paging loop has ended
  stable,      \* history: keys a table has held ever since its copy began
  blemish      \* history: why rows can be missing from the copy of a table

dbVars == <<localRows, hostedRows, link>>
trackerVars == <<trackedTables, tablePrimaryKeys>>
loopVars == <<pc, todo, offset, page, attempt>>
historyVars == <<finished, stable, blemish>>
vars == <<dbVars, trackerVars, loopVars, historyVars>>

------------------------------------------------------------------------------
(* Sets of rows, and the part of them a statement sees. *)

Present(rows) == {k \in Keys : rows[k] # NoRow}

Rank(S, k) == Cardinality({j \in S : j <= k})

(* The rows whose place in primary key order is above lo and at most hi. *)
Slice(rows, lo, hi) ==
  [k \in Keys |-> IF /\ lo < Rank(Present(rows), k)
                     /\ Rank(Present(rows), k) <= hi
                  THEN rows[k] ELSE NoRow]

(* What SELECT * ... LIMIT PageSize OFFSET off returns. *)
SelectResult_LessThan(rows, off) == Slice(rows, off, off + PageSize - 1)
SelectResult(rows, off) == Slice(rows, off, off + PageSize)

(* The VALUES of the next INSERT, and the rows it leaves for later ones. *)
FirstBatch(rows) == Slice(rows, 0, BatchSize)
LaterBatches(rows) ==
  [k \in Keys |-> IF Rank(Present(rows), k) <= BatchSize THEN NoRow ELSE rows[k]]

(* The values of a page, as they appear in the VALUES lists made of it. *)
Literals(rows) == [k \in Keys |-> IF rows[k] = NoRow THEN NoRow ELSE Literal[rows[k]]]

(* The rows that a unique column keeps out of the table. *)
Clashes(table, rows) ==
  {k \in Keys : table[k] = NoRow /\ rows[k] \in Unique /\ \E j \in Keys : table[j] = rows[k]}

(* INSERT ... ON CONFLICT DO NOTHING leaves the rows already there alone,  *)
(* and skips the new ones that clash with them, whatever the constraint.   *)
InsertInto_Upsert(table, rows) ==
  [k \in Keys |-> IF rows[k] = NoRow THEN table[k] ELSE rows[k]]
InsertInto(table, rows) ==
  [k \in Keys |-> IF table[k] = NoRow /\ k \notin Clashes(table, rows)
                  THEN rows[k] ELSE table[k]]

(* What an int can print as after an addition, which C++ leaves undefined   *)
(* where it overflows: a plain build shows the negative number, one with   *)
(* optimisation, sure that it never gets negative, shows the unsigned one. *)
Sums(n) ==
  IF n <= IntMax THEN {n} ELSE {m \in {n, n - 2 * (IntMax + 1)} : m <= 2 * IntMax + 1}

------------------------------------------------------------------------------
getPrimaryKeys(t) == IF t \in DOMAIN tablePrimaryKeys THEN tablePrimaryKeys[t] ELSE <<>>

Current == Head(todo)
Scanning == pc \in {"select", "insert"}

(* How many rows, in primary key order, the copy of the table is past. *)
Passed == IF pc = "insert" THEN offset + PageSize ELSE offset

Init ==
  /\ localRows \in [Tables -> {rows \in TableData : Consistent(rows)}]
  /\ hostedRows \in [Tables -> {rows \in TableData : Consistent(rows)}]
  /\ link = [d \in Databases |-> TRUE]
  /\ trackedTables \in TrackedLists
  /\ tablePrimaryKeys \in [Tables -> {<<>>, <<"id">>}]
  /\ pc = "idle"
  /\ todo = <<>>
  /\ offset = 0
  /\ page = EmptyTable
  /\ attempt = 0
  /\ finished = {}
  /\ stable = [t \in Tables |-> {}]
  /\ blemish = [t \in Tables |-> {}]

(* initialSync is called: the loop over getTrackedTables() begins. *)
BeginSync ==
  /\ pc = "idle"
  /\ pc' = "table"
  /\ todo' = trackedTables
  /\ UNCHANGED <<dbVars, trackerVars, offset, page, attempt, historyVars>>

(* A table without primary key is skipped. *)
SkipTable ==
  /\ pc = "table"
  /\ todo # <<>>
  /\ getPrimaryKeys(Current) = <<>>
  /\ todo' = Tail(todo)
  /\ UNCHANGED <<dbVars, trackerVars, pc, offset, page, attempt, historyVars>>

BeginTable ==
  /\ pc = "table"
  /\ todo # <<>>
  /\ getPrimaryKeys(Current) # <<>>
  /\ pc' = "select"
  /\ offset' = 0
  /\ finished' = finished \ {Current}
  /\ stable' = [stable EXCEPT ![Current] = Present(localRows[Current])]
  /\ blemish' = [blemish EXCEPT ![Current] = {}]
  /\ UNCHANGED <<dbVars, trackerVars, todo, page, attempt>>

EndSync ==
  /\ pc = "table"
  /\ todo = <<>>
  /\ pc' = "done"
  /\ UNCHANGED <<dbVars, trackerVars, todo, offset, page, attempt, historyVars>>

(* The paging loop is left. *)
EndTable ==
  /\ pc' = "table"
  /\ todo' = Tail(todo)
  /\ finished' = finished \cup {Current}

(* SELECT: one statement, so the page is of one snapshot of the table. *)
SelectPage ==
  /\ pc = "select"
  /\ link["local"]
  /\ offset >= 0
  /\ LET rows == SelectResult(localRows[Current], offset) IN
       /\ Present(rows) # {}
       /\ page' = Literals(rows)
  /\ pc' = "insert"
  /\ attempt' = 0
  /\ UNCHANGED <<dbVars, trackerVars, todo, offset, historyVars>>

SelectNothing ==
  /\ pc = "select"
  /\ link["local"]
  /\ offset >= 0
  /\ Present(SelectResult(localRows[Current], offset)) = {}
  /\ attempt' = 0
  /\ EndTable
  /\ UNCHANGED <<dbVars, trackerVars, offset, page, stable, blemish>>

(* The server refuses a negative OFFSET; a connection that is down fails.  *)
SelectCanFail == {"select", "race"} \cap Faults # {} \/ ~link["local"] \/ offset < 0

RetrySelect ==
  /\ pc = "select"
  /\ SelectCanFail
  /\ attempt + 1 < MaxAttempts
  /\ attempt' = attempt + 1
  /\ UNCHANGED <<dbVars, trackerVars, pc, todo, offset, page, historyVars>>

AbandonTable_All ==
  /\ pc = "select"
  /\ SelectCanFail
  /\ attempt + 1 >= MaxAttempts
  /\ attempt' = 0
  /\ pc' = "done"
  /\ blemish' = [blemish EXCEPT ![Current] = @ \cup {"unread"}]
  /\ UNCHANGED <<dbVars, trackerVars, todo, offset, page, finished, stable>>
AbandonTable ==
  /\ pc = "select"
  /\ SelectCanFail
  /\ attempt + 1 >= MaxAttempts
  /\ attempt' = 0
  /\ EndTable
  /\ blemish' = [blemish EXCEPT ![Current] = @ \cup {"unread"}]
  /\ UNCHANGED <<dbVars, trackerVars, offset, page, stable>>

Blame(reasons) == blemish' = [blemish EXCEPT ![Current] = @ \cup reasons]

(* A health check of another thread executes its statements on the same    *)
(* connection: its result is taken for the page, which no INSERT can carry *)
(* because its columns are not those of the table.                         *)
MisreadPage ==
  /\ pc = "select"
  /\ "race" \in Faults
  /\ link["local"]
  /\ page' = EmptyTable
  /\ pc' = "insert"
  /\ attempt' = 0
  /\ Blame({"mixed"})
  /\ UNCHANGED <<dbVars, trackerVars, todo, offset, finished, stable>>

------------------------------------------------------------------------------
(* INSERT: the loop goes on to the next batch, or to the next page. *)
NextBatch_EarlyOffset ==
  /\ attempt' = 0
  /\ page' = LaterBatches(page)
  /\ offset' \in Sums(offset + PageSize)
  /\ pc' = IF Present(LaterBatches(page)) # {} THEN "insert" ELSE "select"
NextBatch_SamePage ==
  /\ attempt' = 0
  /\ page' = LaterBatches(page)
  /\ pc' = IF Present(LaterBatches(page)) # {} THEN "insert" ELSE "select"
  /\ UNCHANGED offset
NextBatch ==
  /\ attempt' = 0
  /\ page' = LaterBatches(page)
  /\ IF Present(LaterBatches(page)) # {}
       THEN UNCHANGED <<pc, offset>>
       ELSE pc' = "select" /\ offset' \in Sums(offset + PageSize)

ApplyBatch ==
  hostedRows' = [hostedRows EXCEPT ![Current] = InsertInto(@, FirstBatch(page))]

(* The server takes a batch as a whole or not at all.                      *)
Acceptable ==
  Present(page) # {} /\ \A k \in Present(FirstBatch(page)) : page[k] \notin Refused

SkippedRows ==
  IF Clashes(hostedRows[Current], FirstBatch(page)) = {} THEN {} ELSE {"clash"}

InsertBatch ==
  /\ pc = "insert"
  /\ link["hosted"]
  /\ Acceptable
  /\ ApplyBatch
  /\ NextBatch
  /\ Blame(SkippedRows)
  /\ UNCHANGED <<localRows, link, trackerVars, todo, finished, stable>>

InsertCanFail == {"insert", "race"} \cap Faults # {} \/ ~link["hosted"] \/ ~Acceptable

(* An INSERT that failed is tried again; when the attempts are used up it  *)
(* is logged and dropped, and the copy goes on behind it.                  *)
CountInsertFailure_OneMore(reasons) ==
  IF attempt < MaxAttempts
    THEN /\ attempt' = attempt + 1
         /\ Blame(reasons)
         /\ UNCHANGED <<pc, offset, page>>
    ELSE NextBatch /\ Blame(reasons \cup {"unwritten"})
CountInsertFailure_NextPage(reasons) ==
  IF attempt + 1 < MaxAttempts
    THEN /\ attempt' = attempt + 1
         /\ Blame(reasons)
         /\ UNCHANGED <<pc, offset, page>>
    ELSE /\ attempt' = 0
         /\ page' = EmptyTable
         /\ pc' = "select"
         /\ offset' \in Sums(offset + PageSize)
         /\ Blame(reasons \cup {"unwritten"})
CountInsertFailure_Forever(reasons) ==
  Blame(reasons) /\ UNCHANGED <<attempt, pc, offset, page>>
CountInsertFailure(reasons) ==
  IF attempt + 1 < MaxAttempts
    THEN /\ attempt' = attempt + 1
         /\ Blame(reasons)
         /\ UNCHANGED <<pc, offset, page>>
    ELSE NextBatch /\ Blame(reasons \cup {"unwritten"})

FailInsert ==
  /\ pc = "insert"
  /\ InsertCanFail
  /\ CountInsertFailure({})
  /\ UNCHANGED <<dbVars, trackerVars, todo, finished, stable>>

(* The server commits the batch, and the connection dies before it says so *)
(* or a health check takes the answer.                                     *)
LoseInsertAnswer ==
  /\ pc = "insert"
  /\ link["hosted"]
  /\ Acceptable
  /\ \/ "link" \in Faults /\ link' = [link EXCEPT !["hosted"] = FALSE]
     \/ "race" \in Faults /\ UNCHANGED link
  /\ ApplyBatch
  /\ CountInsertFailure(SkippedRows)
  /\ UNCHANGED <<localRows, trackerVars, todo, finished, stable>>

(* The rows of a health check are no failure to executeWithRetry, and no   *)
(* success to initialSync: the batch, executed or not, is not tried again. *)
MisreadInsert ==
  /\ pc = "insert"
  /\ "race" \in Faults
  /\ link["hosted"]
  /\ UNCHANGED hostedRows \/ (Acceptable /\ ApplyBatch)
  /\ NextBatch
  /\ Blame({"mixed"})
  /\ UNCHANGED <<localRows, link, trackerVars, todo, finished, stable>>

------------------------------------------------------------------------------
(* The environment: connections that die and applications that write. *)
LoseLink(d) ==
  /\ "link" \in Faults
  /\ link[d]
  /\ link' = [link EXCEPT ![d] = FALSE]
  /\ UNCHANGED <<localRows, hostedRows, trackerVars, loopVars, historyVars>>

WriteLocal(t, k, row) ==
  /\ Consistent([localRows[t] EXCEPT ![k] = row])
  /\ localRows' = [localRows EXCEPT ![t][k] = row]
  /\ UNCHANGED <<hostedRows, link, trackerVars, loopVars>>

LocalInsert(t, k, v) ==
  /\ "insert" \in LocalOps
  /\ localRows[t][k] = NoRow
  /\ WriteLocal(t, k, v)
  /\ UNCHANGED historyVars

LocalUpdate(t, k, v) ==
  /\ "update" \in LocalOps
  /\ localRows[t][k] \in Versions \ {v}
  /\ WriteLocal(t, k, v)
  /\ UNCHANGED historyVars

(* Deleting a row the copy is past moves the rows behind it towards offset. *)
LocalDelete(t, k) ==
  /\ "delete" \in LocalOps
  /\ localRows[t][k] # NoRow
  /\ WriteLocal(t, k, NoRow)
  /\ stable' = [stable EXCEPT ![t] = @ \ {k}]
  /\ blemish' = IF Scanning /\ t = Current /\ Rank(Present(localRows[t]), k) <= Passed
                  THEN [blemish EXCEPT ![t] = @ \cup {"shrunk"}]
                  ELSE blemish
  /\ UNCHANGED finished

------------------------------------------------------------------------------
SyncNext ==
  \/ BeginSync \/ SkipTable \/ BeginTable \/ EndSync
  \/ SelectPage \/ SelectNothing \/ RetrySelect \/ AbandonTable \/ MisreadPage
  \/ InsertBatch \/ FailInsert \/ LoseInsertAnswer \/ MisreadInsert

Environment ==
  \/ \E d \in Databases : LoseLink(d)
  \/ \E t \in Tables, k \in Keys : LocalDelete(t, k)
  \/ \E t \in Tables, k \in Keys, v \in Versions :
       LocalInsert(t, k, v) \/ LocalUpdate(t, k, v)

Next == SyncNext \/ Environment

Spec == Init /\ [][Next]_vars

(* The thread runs and every statement is answered; nothing else is fair. *)
FairSpec == Spec /\ WF_vars(SyncNext)

------------------------------------------------------------------------------
TypeOK ==
  /\ localRows \in [Tables -> TableData]
  /\ hostedRows \in [Tables -> TableData]
  /\ link \in [Databases -> BOOLEAN]
  /\ trackedTables \in Seq(Tables)
  /\ pc \in {"idle", "table", "select", "insert", "done"}
  /\ todo \in Seq(Tables)
  /\ Scanning => todo # <<>>
  /\ offset \in Int
  /\ page \in TableData
  /\ attempt \in 0 .. MaxAttempts - 1
  /\ finished \in SUBSET Tables
  /\ stable \in [Tables -> SUBSET Keys]
  /\ blemish \in [Tables -> SUBSET Reasons]

(***************************************************************************)
(* When the copy of a table is over, a row the local table held all along  *)
(* is in the hosted table, unless a page could not be read, a batch could  *)
(* not be written, a hosted row clashed with one of a batch, the result of *)
(* another thread was taken for that of the copy, or a row the copy was    *)
(* past was deleted meanwhile: LIMIT and OFFSET address rows by their      *)
(* place, which other writers move.                                        *)
(***************************************************************************)
MissingRowExplained ==
  \A t \in finished : blemish[t] = {} => stable[t] \subseteq Present(hostedRows[t])

(***************************************************************************)
(* Why: so far, a row held all along is in the hosted table or on the page *)
(* as soon as its place is among those the copy is past.                   *)
(***************************************************************************)
Covered(k) == k \in Present(hostedRows[Current]) \/ (pc = "insert" /\ k \in Present(page))

PassedRowsCovered ==
  Scanning /\ blemish[Current] = {} =>
    LET rows == Present(localRows[Current]) IN
    /\ stable[Current] \subseteq rows
    /\ \A k \in stable[Current] : Rank(rows, k) <= Passed => Covered(k)

(* The stronger claim, without the last excuse: see the finding.           *)
StableRowsCopied ==
  \A t \in finished : blemish[t] \subseteq {"shrunk"} =>
    stable[t] \subseteq Present(hostedRows[t])

(* While the connections last and nothing else disturbs it, a row that the *)
(* hosted server refuses costs no others than those of its batch: the page *)
(* and the table go on behind it.                                          *)
Batch(t, k) ==
  LET place == Rank(Present(localRows[t]), k) - 1
  IN <<place \div PageSize, (place % PageSize) \div BatchSize>>
LossStaysInBatch ==
  Faults \subseteq {"link"} /\ LocalOps = {} /\ Unique = {} /\ (\A d \in Databases : link[d]) =>
    \A t \in finished : blemish[t] \subseteq {"unwritten"} =>
      LET rows == Present(localRows[t]) IN
      \A k \in rows \ Present(hostedRows[t]) :
        \E j \in rows : Batch(t, j) = Batch(t, k) /\ Literal[localRows[t][j]] \in Refused

(* No step of the copy, nor of its retries, overwrites or deletes a hosted *)
(* row: the hosted version of a row wins over the local one.               *)
HostedRowsKept ==
  [][\A t \in Tables, k \in Keys :
       hostedRows[t][k] # NoRow => hostedRows'[t][k] = hostedRows[t][k]]_vars

(* offset goes round: to a negative number, or all the way to a small one. *)
WrapsAround == Scanning /\ pc' = "select" /\ offset' < offset

(***************************************************************************)
(* while (true) has no bound of its own.  What ends it is offset, which    *)
(* grows with every page, whatever fails and whatever the applications     *)
(* write: a table to which rows are appended as fast as they are copied is *)
(* copied until offset overflows, and then a negative OFFSET is refused.   *)
(* The copy can go on for ever only if offset goes round for ever: through *)
(* a table of 2^32 rows, in the build that prints offset as unsigned, or   *)
(* because results of health checks are taken for pages for ever.          *)
(***************************************************************************)
SyncEnds == <>(pc = "done") \/ []<><<WrapsAround>>_vars

(* The copy implements OneWayCopy: the rows in flight are those of the page. *)
InFlight == [t \in Tables |-> IF pc = "insert" /\ t = Current THEN page ELSE EmptyTable]
Copy == INSTANCE OneWayCopy WITH
          source <- localRows, target <- hostedRows, inFlight <- InFlight
ImplementsOneWayCopy == Copy!Spec
==============================================================================
