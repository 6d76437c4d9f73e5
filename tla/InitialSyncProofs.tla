-------------------------- MODULE InitialSyncProofs --------------------------
(***************************************************************************)
(* What holds of InitialSync for every set of tables, keys and versions,   *)
(* every page size, batch size and number of attempts, every behaviour of  *)
(* the applications and every fault.                                       *)
(***************************************************************************)
EXTENDS InitialSync, FiniteSetTheorems, WellFoundedInduction, TLAPS

------------------------------------------------------------------------------
(* The operators on rows. *)

LEMMA SliceType ==
  ASSUME NEW rows \in TableData, NEW lo, NEW hi
  PROVE  Slice(rows, lo, hi) \in TableData
BY DEF Slice, TableData, Row

LEMMA BatchTypes ==
  ASSUME NEW rows \in TableData
  PROVE  /\ FirstBatch(rows) \in TableData
         /\ LaterBatches(rows) \in TableData
<1>1. FirstBatch(rows) \in TableData
  BY SliceType DEF FirstBatch
<1>2. LaterBatches(rows) \in TableData
  BY DEF LaterBatches, TableData, Row
<1>3. QED BY <1>1, <1>2

LEMMA InsertIntoType ==
  ASSUME NEW table \in TableData, NEW rows \in TableData
  PROVE  InsertInto(table, rows) \in TableData
BY DEF InsertInto, TableData, Row

LEMMA LiteralsType ==
  ASSUME NEW rows \in TableData
  PROVE  Literals(rows) \in TableData
BY LiteralAssumption DEF Literals, TableData, Row

(* An addition that overflows never gives more than one that does not. *)
LEMMA SumsBound ==
  ASSUME NEW n \in Int, NEW m \in Sums(n)
  PROVE  m \in Int /\ m <= n
BY SizeAssumption DEF Sums

(* A set of keys is finite, so its rank is a number. *)
LEMMA PresentFinite ==
  ASSUME NEW S \in SUBSET Keys
  PROVE  IsFiniteSet(S) /\ Cardinality(S) \in Nat
BY KeysAssumption, FS_Subset, FS_CardinalityType

LEMMA RankType ==
  ASSUME NEW S \in SUBSET Keys, NEW k \in Keys
  PROVE  Rank(S, k) \in Nat
<1>1. {j \in S : j <= k} \in SUBSET Keys
  OBVIOUS
<1>2. QED BY <1>1, PresentFinite DEF Rank

------------------------------------------------------------------------------
LEMMA CurrentType ==
  ASSUME TypeOK, todo # <<>>
  PROVE  Current \in Tables /\ Tail(todo) \in Seq(Tables)
BY DEF TypeOK, Current

LEMMA NextBatchType ==
  ASSUME TypeOK, pc = "insert", NextBatch
  PROVE  /\ page' \in TableData
         /\ pc' \in {"insert", "select"}
         /\ offset' \in Int
         /\ attempt' \in 0 .. MaxAttempts - 1
<1>1. page' \in TableData
  BY BatchTypes DEF NextBatch, TypeOK
<1>2. offset + PageSize \in Int
  BY SizeAssumption DEF TypeOK
<1>3. pc' \in {"insert", "select"} /\ offset' \in Int
  BY <1>2, SumsBound DEF NextBatch, TypeOK
<1>4. attempt' \in 0 .. MaxAttempts - 1
  BY SizeAssumption DEF NextBatch
<1>5. QED BY <1>1, <1>3, <1>4

(* Blaming adds reasons to the table being copied and takes none away. *)
LEMMA BlameKept ==
  ASSUME TypeOK, Scanning, NEW reasons \in SUBSET Reasons, Blame(reasons)
  PROVE  /\ blemish' \in [Tables -> SUBSET Reasons]
         /\ \A t \in Tables : blemish[t] \subseteq blemish'[t]
         /\ reasons \subseteq blemish'[Current]
<1>1. Current \in Tables
  BY CurrentType DEF TypeOK
<1>2. QED BY <1>1 DEF Blame, TypeOK

LEMMA SkippedRowsType == SkippedRows \in SUBSET Reasons
BY DEF SkippedRows, Reasons

LEMMA CountInsertFailureType ==
  ASSUME TypeOK, pc = "insert", NEW reasons \in SUBSET Reasons, CountInsertFailure(reasons)
  PROVE  /\ page' \in TableData
         /\ pc' \in {"insert", "select"}
         /\ offset' \in Int
         /\ attempt' \in 0 .. MaxAttempts - 1
         /\ blemish' \in [Tables -> SUBSET Reasons]
<1>1. CASE attempt + 1 < MaxAttempts
  <2>1. blemish' \in [Tables -> SUBSET Reasons]
    BY <1>1, BlameKept DEF CountInsertFailure, Scanning
  <2>2. QED BY <1>1, <2>1, SizeAssumption DEF CountInsertFailure, TypeOK
<1>2. CASE ~(attempt + 1 < MaxAttempts)
  <2>1. NextBatch /\ Blame(reasons \cup {"unwritten"})
    BY <1>2 DEF CountInsertFailure
  <2>2. reasons \cup {"unwritten"} \in SUBSET Reasons
    BY DEF Reasons
  <2>3. QED BY <2>1, <2>2, NextBatchType, BlameKept DEF Scanning
<1>3. QED BY <1>1, <1>2

LEMMA ApplyBatchType ==
  ASSUME TypeOK, pc = "insert", ApplyBatch
  PROVE  hostedRows' \in [Tables -> TableData]
<1>1. todo # <<>>
  BY DEF TypeOK, Scanning
<1>2. InsertInto(hostedRows[Current], FirstBatch(page)) \in TableData
  BY <1>1, CurrentType, BatchTypes, InsertIntoType DEF TypeOK
<1>3. QED BY <1>2 DEF ApplyBatch, TypeOK

LEMMA NextType == TypeOK /\ [Next]_vars => TypeOK'
<1> SUFFICES ASSUME TypeOK, [Next]_vars PROVE TypeOK'
  OBVIOUS
<1> USE DEF dbVars, trackerVars, loopVars, historyVars
<1>1. CASE BeginSync
  BY <1>1 DEF BeginSync, TypeOK, Scanning
<1>2. CASE SkipTable
  BY <1>2, CurrentType DEF SkipTable, TypeOK, Scanning
<1>3. CASE BeginTable
  <2>1. Current \in Tables
    BY <1>3, CurrentType DEF BeginTable
  <2>2. Present(localRows[Current]) \in SUBSET Keys
    BY DEF Present
  <2>3. stable' \in [Tables -> SUBSET Keys]
    BY <1>3, <2>1, <2>2 DEF BeginTable, TypeOK
  <2>4. /\ blemish' \in [Tables -> SUBSET Reasons]
        /\ finished' \in SUBSET Tables
    BY <1>3 DEF BeginTable, TypeOK
  <2>5. QED
    BY <1>3, <2>3, <2>4 DEF BeginTable, TypeOK, Scanning
<1>4. CASE EndSync
  BY <1>4 DEF EndSync, TypeOK, Scanning
<1>5. CASE SelectPage
  <2>1. todo # <<>>
    BY <1>5 DEF SelectPage, TypeOK, Scanning
  <2>2. Current \in Tables
    BY <2>1, CurrentType
  <2> DEFINE rows == SelectResult(localRows[Current], offset)
  <2>3. rows \in TableData
    BY <2>2, SliceType DEF SelectResult, TypeOK
  <2>4. page' \in TableData
    BY <1>5, <2>3, LiteralsType DEF SelectPage
  <2>5. QED
    BY <1>5, <2>1, <2>4, SizeAssumption DEF SelectPage, TypeOK, Scanning
<1>6. CASE SelectNothing
  <2>1. todo # <<>>
    BY <1>6 DEF SelectNothing, TypeOK, Scanning
  <2>2. QED
    BY <1>6, <2>1, CurrentType, SizeAssumption DEF SelectNothing, EndTable, TypeOK, Scanning
<1>7. CASE RetrySelect
  BY <1>7, SizeAssumption DEF RetrySelect, TypeOK, Scanning
<1>8. CASE AbandonTable
  <2>1. todo # <<>>
    BY <1>8 DEF AbandonTable, TypeOK, Scanning
  <2>2. blemish' \in [Tables -> SUBSET Reasons]
    BY <1>8 DEF AbandonTable, TypeOK, Reasons
  <2>3. QED
    BY <1>8, <2>1, <2>2, CurrentType, SizeAssumption DEF AbandonTable, EndTable, TypeOK, Scanning
<1>9. CASE InsertBatch
  <2>1. blemish' \in [Tables -> SUBSET Reasons]
    BY <1>9, SkippedRowsType, BlameKept DEF InsertBatch, Scanning
  <2>2. QED
    BY <1>9, <2>1, NextBatchType, ApplyBatchType DEF InsertBatch, TypeOK, Scanning
<1>10. CASE FailInsert
  <2>1. {} \in SUBSET Reasons
    OBVIOUS
  <2>2. QED
    BY <1>10, <2>1, CountInsertFailureType DEF FailInsert, TypeOK, Scanning
<1>11. CASE LoseInsertAnswer
  <2>1. link' \in [Databases -> BOOLEAN]
    BY <1>11 DEF LoseInsertAnswer, TypeOK
  <2>2. QED
    BY <1>11, <2>1, SkippedRowsType, CountInsertFailureType, ApplyBatchType
    DEF LoseInsertAnswer, TypeOK, Scanning
<1>12. ASSUME NEW d \in Databases, LoseLink(d) PROVE TypeOK'
  BY <1>12 DEF LoseLink, TypeOK, Scanning
<1>13. ASSUME NEW t \in Tables, NEW k \in Keys, NEW row \in Row, WriteLocal(t, k, row)
       PROVE  localRows' \in [Tables -> TableData]
  BY <1>13 DEF WriteLocal, TypeOK, TableData
<1>14. ASSUME NEW t \in Tables, NEW k \in Keys, LocalDelete(t, k) PROVE TypeOK'
  <2>1. localRows' \in [Tables -> TableData]
    BY <1>13, <1>14 DEF LocalDelete, Row
  <2>2. stable' \in [Tables -> SUBSET Keys]
    BY <1>14 DEF LocalDelete, TypeOK
  <2>3. blemish' \in [Tables -> SUBSET Reasons]
    BY <1>14 DEF LocalDelete, TypeOK, Reasons
  <2>4. QED
    BY <1>14, <2>1, <2>2, <2>3 DEF LocalDelete, WriteLocal, TypeOK, Scanning
<1>15. ASSUME NEW t \in Tables, NEW k \in Keys, NEW v \in Versions,
              LocalInsert(t, k, v) \/ LocalUpdate(t, k, v)
       PROVE  TypeOK'
  <2>1. localRows' \in [Tables -> TableData]
    BY <1>13, <1>15 DEF LocalInsert, LocalUpdate, Row
  <2>2. QED
    BY <1>15, <2>1 DEF LocalInsert, LocalUpdate, WriteLocal, TypeOK, Scanning
<1>16. CASE MisreadPage
  <2>1. blemish' \in [Tables -> SUBSET Reasons]
    BY <1>16, BlameKept DEF MisreadPage, Scanning, Reasons
  <2>2. EmptyTable \in TableData
    BY DEF EmptyTable, TableData, Row
  <2>3. QED
    BY <1>16, <2>1, <2>2, SizeAssumption DEF MisreadPage, TypeOK, Scanning
<1>17. CASE MisreadInsert
  <2>1. blemish' \in [Tables -> SUBSET Reasons]
    BY <1>17, BlameKept DEF MisreadInsert, Scanning, Reasons
  <2>2. hostedRows' \in [Tables -> TableData]
    BY <1>17, ApplyBatchType DEF MisreadInsert, TypeOK
  <2>3. QED
    BY <1>17, <2>1, <2>2, NextBatchType DEF MisreadInsert, TypeOK, Scanning
<1>18. CASE UNCHANGED vars
  BY <1>18 DEF vars, TypeOK, Scanning
<1>19. QED
  BY <1>1, <1>2, <1>3, <1>4, <1>5, <1>6, <1>7, <1>8, <1>9, <1>10, <1>11,
     <1>12, <1>14, <1>15, <1>16, <1>17, <1>18 DEF Next, SyncNext, Environment

(* Every variable of the copy keeps the shape the code gives it; attempt   *)
(* never reaches MaxAttempts and a page is only worked on for some table.  *)
THEOREM TypeCorrect == Spec => []TypeOK
<1>1. Init => TypeOK
  <2> SUFFICES ASSUME Init PROVE TypeOK
    OBVIOUS
  <2>1. EmptyTable \in TableData
    BY DEF EmptyTable, TableData, Row
  <2>2. QED
    BY <2>1, SizeAssumption, ListAssumption DEF Init, TypeOK, Scanning
<1>2. QED BY <1>1, NextType, PTL DEF Spec

------------------------------------------------------------------------------
(* Ranks: the place of a row in primary key order. *)

(* A nonempty set of keys has a least and a greatest element. *)
LEMMA KeyMin ==
  ASSUME NEW X \in SUBSET Keys, X # {}
  PROVE  \E m \in X : \A y \in X : m <= y
<1> DEFINE Below(j) == {i \in X : i <= j}
           F == {Below(j) : j \in X}
<1>1. IsWellFoundedOn(StrictSubsetOrdering(X), SUBSET X)
  <2>1. IsFiniteSet(X)
    BY PresentFinite
  <2>2. FiniteSubsetsOf(X) = SUBSET X
    BY <2>1, FS_FiniteSubsetsOfFinite
  <2>3. QED BY <2>2, FS_StrictSubsetOrderingWellFounded
<1>2. F \subseteq SUBSET X /\ F # {}
  OBVIOUS
<1>3. PICK T \in F : \A U \in F : ~ (<<U, T>> \in StrictSubsetOrdering(X))
  <2> HIDE DEF F
  <2>1. QED BY <1>1, <1>2, WFMin
<1>4. PICK m \in X : T = Below(m)
  OBVIOUS
<1>5. ASSUME NEW y \in X, ~ (m <= y) PROVE FALSE
  <2>1. y \in Int /\ m \in Int /\ X \subseteq Int
    BY KeysAssumption
  <2>2. \A i \in X : i <= y => i <= m
    BY <1>5, <2>1
  <2>3. m <= m /\ ~ (m <= y)
    BY <1>5, <2>1
  <2>4. Below(y) \subseteq Below(m) /\ m \in Below(m) /\ m \notin Below(y)
    BY <2>2, <2>3
  <2>5. <<Below(y), Below(m)>> \in StrictSubsetOrdering(X)
    BY <2>4 DEF StrictSubsetOrdering
  <2>6. QED BY <1>3, <1>4, <2>5
<1>6. QED BY <1>5

LEMMA KeyMax ==
  ASSUME NEW X \in SUBSET Keys, X # {}
  PROVE  \E m \in X : \A y \in X : y <= m
<1> DEFINE Above(j) == {i \in X : j <= i}
           F == {Above(j) : j \in X}
<1>1. IsWellFoundedOn(StrictSubsetOrdering(X), SUBSET X)
  <2>1. IsFiniteSet(X)
    BY PresentFinite
  <2>2. FiniteSubsetsOf(X) = SUBSET X
    BY <2>1, FS_FiniteSubsetsOfFinite
  <2>3. QED BY <2>2, FS_StrictSubsetOrderingWellFounded
<1>2. F \subseteq SUBSET X /\ F # {}
  OBVIOUS
<1>3. PICK T \in F : \A U \in F : ~ (<<U, T>> \in StrictSubsetOrdering(X))
  <2> HIDE DEF F
  <2>1. QED BY <1>1, <1>2, WFMin
<1>4. PICK m \in X : T = Above(m)
  OBVIOUS
<1>5. ASSUME NEW y \in X, ~ (y <= m) PROVE FALSE
  <2>1. y \in Int /\ m \in Int /\ X \subseteq Int
    BY KeysAssumption
  <2>2. \A i \in X : y <= i => m <= i
    BY <1>5, <2>1
  <2>3. m <= m /\ ~ (y <= m)
    BY <1>5, <2>1
  <2>4. Above(y) \subseteq Above(m) /\ m \in Above(m) /\ m \notin Above(y)
    BY <2>2, <2>3
  <2>5. <<Above(y), Above(m)>> \in StrictSubsetOrdering(X)
    BY <2>4 DEF StrictSubsetOrdering
  <2>6. QED BY <1>3, <1>4, <2>5
<1>6. QED BY <1>5

LEMMA RankPositive ==
  ASSUME NEW S \in SUBSET Keys, NEW k \in S
  PROVE  Rank(S, k) >= 1
<1>1. k \in {j \in S : j <= k}
  BY KeysAssumption
<1>2. {j \in S : j <= k} \in SUBSET Keys
  OBVIOUS
<1>3. QED BY <1>1, <1>2, PresentFinite, FS_EmptySet DEF Rank

(* More rows, higher ranks: an INSERT moves no row towards the front. *)
LEMMA RankMonotone ==
  ASSUME NEW T \in SUBSET Keys, NEW S \in SUBSET T, NEW k \in Keys
  PROVE  Rank(S, k) <= Rank(T, k)
<1>1. {j \in S : j <= k} \in SUBSET {j \in T : j <= k}
  OBVIOUS
<1>2. IsFiniteSet({j \in T : j <= k})
  <2>1. {j \in T : j <= k} \in SUBSET Keys
    OBVIOUS
  <2>2. QED BY <2>1, PresentFinite
<1>3. QED BY <1>1, <1>2, FS_Subset DEF Rank

(* A later row has a higher rank. *)
LEMMA RankStrict ==
  ASSUME NEW S \in SUBSET Keys, NEW m \in S, NEW y \in S, m < y
  PROVE  Rank(S, m) + 1 <= Rank(S, y)
<1> DEFINE A == {j \in S : j <= m}
           B == {j \in S : j <= y}
<1>1. S \subseteq Int
  BY KeysAssumption
<1>2. A \in SUBSET Keys /\ B \in SUBSET Keys
  OBVIOUS
<1>3. y \notin A /\ A \cup {y} \in SUBSET B
  <2>1. y <= y /\ ~ (y <= m) /\ \A j \in S : j <= m => j <= y
    BY <1>1
  <2>2. QED BY <2>1
<1> HIDE DEF A, B
<1>4. Cardinality(A \cup {y}) = Cardinality(A) + 1
  BY <1>2, <1>3, PresentFinite, FS_AddElement
<1>5. Cardinality(A \cup {y}) <= Cardinality(B)
  BY <1>2, <1>3, PresentFinite, FS_Subset
<1>6. QED BY <1>4, <1>5 DEF Rank, A, B

(* Without row k, only the rows behind it have moved towards the front. *)
LEMMA RankAfterDelete ==
  ASSUME NEW S \in SUBSET Keys, NEW k \in S, NEW j \in S \ {k}, NEW n \in Int,
         Rank(S, k) > n, Rank(S \ {k}, j) <= n
  PROVE  Rank(S, j) <= n
<1>1. S \subseteq Int
  BY KeysAssumption
<1>2. CASE j < k
  <2>1. {i \in S : i <= j} = {i \in S \ {k} : i <= j}
    BY <1>1, <1>2
  <2>2. QED BY <2>1 DEF Rank
<1>3. CASE k < j
  <2> DEFINE A == {i \in S : i <= k}
             B == {i \in S \ {k} : i <= j}
  <2>1. A \in SUBSET Keys /\ B \in SUBSET Keys /\ A \ {k} \in SUBSET Keys
    OBVIOUS
  <2>2. k \in A /\ j \notin A /\ (A \ {k}) \cup {j} \in SUBSET B
    <3>1. k <= k /\ j <= j /\ ~ (j <= k) /\ \A i \in S : i <= k => i <= j
      BY <1>1, <1>3
    <3>2. QED BY <3>1
  <2> HIDE DEF A, B
  <2>3. Cardinality(A \ {k}) = Cardinality(A) - 1
    BY <2>1, <2>2, PresentFinite, FS_RemoveElement
  <2>4. Cardinality((A \ {k}) \cup {j}) = Cardinality(A \ {k}) + 1
    BY <2>1, <2>2, PresentFinite, FS_AddElement
  <2>5. Cardinality((A \ {k}) \cup {j}) <= Cardinality(B)
    BY <2>1, <2>2, PresentFinite, FS_Subset
  <2>6. Cardinality(A) \in Nat /\ Cardinality(B) \in Nat /\ Cardinality(A \ {k}) \in Nat
    BY <2>1, PresentFinite
  <2>7. Cardinality(A) <= Cardinality(B)
    BY <2>3, <2>4, <2>5, <2>6
  <2>8. Cardinality(A) > n /\ Cardinality(B) <= n
    BY DEF Rank, A, B
  <2>9. QED BY <2>6, <2>7, <2>8
<1>4. QED BY <1>1, <1>2, <1>3

(* Ranks have no gap: with a row behind place n, a row has place n + 1.    *)
LEMMA RankNoGap ==
  ASSUME NEW S \in SUBSET Keys, NEW n \in Nat, NEW k \in S, Rank(S, k) > n
  PROVE  \E j \in S : Rank(S, j) = n + 1
<1> DEFINE X == {j \in S : Rank(S, j) > n}
<1>1. X \in SUBSET Keys /\ X # {} /\ S \subseteq Int
  BY KeysAssumption
<1>2. PICK j \in X : \A y \in X : j <= y
  <2> HIDE DEF X
  <2>1. QED BY <1>1, KeyMin
<1>3. Rank(S, j) \in Nat /\ Rank(S, j) > n
  BY <1>1, RankType
<1>4. ASSUME Rank(S, j) # n + 1 PROVE FALSE
  <2> DEFINE T == {i \in S : i < j}
  <2>1. T \in SUBSET Keys /\ j \notin T
    <3>1. ~ (j < j)
      BY <1>1
    <3>2. QED BY <3>1
  <2>2. {i \in S : i <= j} = T \cup {j}
    <3>1. j <= j /\ \A i \in S : i <= j <=> i < j \/ i = j
      BY <1>1
    <3>2. QED BY <3>1
  <2>3. Rank(S, j) = Cardinality(T) + 1
    <3> HIDE DEF T
    <3>1. QED BY <2>1, <2>2, PresentFinite, FS_AddElement DEF Rank
  <2>4. Cardinality(T) > n /\ Cardinality(T) \in Nat
    BY <1>3, <1>4, <2>1, <2>3, PresentFinite
  <2>5. T # {}
    BY <2>4, FS_EmptySet
  <2>6. PICK m \in T : \A y \in T : y <= m
    <3> HIDE DEF T
    <3>1. QED BY <2>1, <2>5, KeyMax
  <2>7. {i \in S : i <= m} = T
    <3>1. m < j /\ \A i \in S : i <= m => i < j
      BY <1>1, <2>6
    <3>2. QED BY <2>6, <3>1
  <2>8. Rank(S, m) = Cardinality(T)
    BY <2>7 DEF Rank
  <2>9. m \in X /\ m < j
    BY <2>4, <2>8
  <2>10. QED BY <1>1, <1>2, <2>9
<1>5. QED BY <1>4

------------------------------------------------------------------------------
(* What the statements read and write, in terms of ranks. *)

LEMMA SelectResultRows ==
  ASSUME NEW rows \in TableData, NEW off \in Int, NEW k \in Keys
  PROVE  k \in Present(SelectResult(rows, off)) <=>
           /\ k \in Present(rows)
           /\ off < Rank(Present(rows), k)
           /\ Rank(Present(rows), k) <= off + PageSize
BY DEF SelectResult, Slice, Present

(* A row of the page is in the next batch or is left for a later one. *)
LEMMA BatchRows ==
  ASSUME NEW rows \in TableData, NEW k \in Present(rows)
  PROVE  k \in Present(FirstBatch(rows)) \/ k \in Present(LaterBatches(rows))
<1>1. Present(rows) \in SUBSET Keys /\ k \in Keys
  BY DEF Present
<1>2. Rank(Present(rows), k) \in Nat /\ Rank(Present(rows), k) >= 1
  BY <1>1, RankType, RankPositive
<1>3. 0 < Rank(Present(rows), k)
  BY <1>2
<1>4. QED BY <1>1, <1>3 DEF FirstBatch, LaterBatches, Slice, Present

(* An INSERT keeps the rows of the table and adds those that do not clash. *)
LEMMA InsertIntoRows ==
  ASSUME NEW table \in TableData, NEW rows \in TableData
  PROVE  /\ Present(table) \subseteq Present(InsertInto(table, rows))
         /\ Clashes(table, rows) = {} =>
              Present(rows) \subseteq Present(InsertInto(table, rows))
BY DEF InsertInto, Present

LEMMA LiteralsRows ==
  ASSUME NEW rows \in TableData
  PROVE  Present(Literals(rows)) = Present(rows)
BY LiteralAssumption, RowAssumption DEF Literals, Present, TableData, Row

------------------------------------------------------------------------------
IInv == TypeOK /\ PassedRowsCovered /\ MissingRowExplained

(* The rows a step adds to the hosted tables, and the blemishes it adds.   *)
LEMMA MissingRowExplainedKept ==
  ASSUME IInv,
         \A t \in Tables : Present(hostedRows[t]) \subseteq Present(hostedRows'[t]),
         \A t \in Tables : stable'[t] \subseteq stable[t],
         \A t \in Tables : blemish[t] \subseteq blemish'[t],
         finished' \subseteq finished
  PROVE  MissingRowExplained'
<1>1. ASSUME NEW t \in finished', blemish'[t] = {}
      PROVE  stable'[t] \subseteq Present(hostedRows'[t])
  <2>1. t \in Tables /\ t \in finished
    BY DEF IInv, TypeOK
  <2>2. blemish[t] = {}
    BY <1>1, <2>1
  <2>3. stable[t] \subseteq Present(hostedRows[t])
    BY <2>1, <2>2 DEF IInv, MissingRowExplained
  <2>4. QED BY <2>1, <2>3
<1>2. QED BY <1>1 DEF MissingRowExplained, Present

(* The next batch, applied: the copy is past no row that is not covered.   *)
LEMMA ApplyBatchRows ==
  ASSUME IInv, pc = "insert", ApplyBatch
  PROVE  /\ \A t \in Tables : Present(hostedRows[t]) \subseteq Present(hostedRows'[t])
         /\ SkippedRows = {} => Present(FirstBatch(page)) \subseteq Present(hostedRows'[Current])
<1>1. Current \in Tables
  BY CurrentType DEF IInv, TypeOK, Scanning
<1>2. FirstBatch(page) \in TableData
  BY BatchTypes DEF IInv, TypeOK
<1>3. \A t \in Tables : hostedRows'[t] =
        IF t = Current THEN InsertInto(hostedRows[t], FirstBatch(page)) ELSE hostedRows[t]
  BY <1>1 DEF ApplyBatch, IInv, TypeOK
<1>4. \A t \in Tables : hostedRows[t] \in TableData
  BY DEF IInv, TypeOK
<1>5. SkippedRows = {} => Clashes(hostedRows[Current], FirstBatch(page)) = {}
  BY DEF SkippedRows
<1>6. QED BY <1>1, <1>2, <1>3, <1>4, <1>5, InsertIntoRows

LEMMA NextBatchCovers ==
  ASSUME IInv, pc = "insert", ApplyBatch, NextBatch, Blame(SkippedRows),
         UNCHANGED <<localRows, todo, stable>>
  PROVE  PassedRowsCovered'
<1>1. Current \in Tables /\ Current' = Current /\ Scanning
  BY CurrentType DEF IInv, TypeOK, Scanning, Current
<1> DEFINE rows == Present(localRows[Current])
<1> SUFFICES ASSUME blemish'[Current] = {}
             PROVE  /\ stable[Current] \subseteq rows
                    /\ \A k \in stable[Current] : Rank(rows, k) <= Passed' => Covered(k)'
  BY <1>1 DEF PassedRowsCovered
<1>2. blemish[Current] = {} /\ SkippedRows = {}
  BY <1>1, SkippedRowsType, BlameKept DEF IInv
<1>3. /\ stable[Current] \subseteq rows
      /\ \A k \in stable[Current] : Rank(rows, k) <= offset + PageSize =>
           k \in Present(hostedRows[Current]) \/ k \in Present(page)
  BY <1>1, <1>2 DEF IInv, PassedRowsCovered, Passed, Covered
<1>4. offset + PageSize \in Int
  BY SizeAssumption DEF IInv, TypeOK
<1>5. Passed' <= offset + PageSize /\ Passed' \in Int
  <2>1. CASE Present(LaterBatches(page)) # {}
    BY <1>4, <2>1 DEF NextBatch, Passed
  <2>2. CASE ~ (Present(LaterBatches(page)) # {})
    <3>1. pc' = "select" /\ offset' \in Sums(offset + PageSize)
      BY <2>2 DEF NextBatch
    <3>2. QED BY <3>1, <1>4, SumsBound DEF Passed
  <2>3. QED BY <2>1, <2>2
<1>6. ASSUME NEW k \in stable[Current], Rank(rows, k) <= Passed' PROVE Covered(k)'
  <2>1. k \in Keys
    BY <1>3 DEF Present
  <2>2. Rank(rows, k) \in Nat
    BY <2>1, RankType DEF Present
  <2>3. Rank(rows, k) <= offset + PageSize
    BY <1>4, <1>5, <1>6, <2>2
  <2>4. CASE k \in Present(hostedRows[Current])
    <3>1. k \in Present(hostedRows'[Current])
      BY <1>1, <2>4, ApplyBatchRows
    <3>2. QED BY <1>1, <3>1 DEF Covered, Present
  <2>5. CASE k \in Present(page)
    <3>1. k \in Present(FirstBatch(page)) \/ k \in Present(LaterBatches(page))
      BY <2>5, BatchRows DEF IInv, TypeOK
    <3>2. k \in Present(FirstBatch(page)) => k \in Present(hostedRows'[Current])
      BY <1>2, ApplyBatchRows
    <3>3. k \in Present(LaterBatches(page)) => pc' = "insert" /\ page' = LaterBatches(page)
      BY DEF NextBatch
    <3>4. QED BY <1>1, <3>1, <3>2, <3>3 DEF Covered, Present
  <2>6. QED BY <1>3, <2>3, <2>4, <2>5
<1>7. QED BY <1>3, <1>6

(* A step that leaves the copy where it is keeps what the copy is past.    *)
LEMMA PassedRowsCoveredKept ==
  ASSUME IInv, UNCHANGED <<localRows, hostedRows, pc, todo, offset, page, stable, blemish>>
  PROVE  PassedRowsCovered'
BY DEF IInv, PassedRowsCovered, Scanning, Current, Passed, Covered, Present, Rank

(* A statement that failed once more, whether it took effect or not.       *)
LEMMA CountInsertFailureCovers ==
  ASSUME IInv, pc = "insert", NEW reasons \in SUBSET Reasons, CountInsertFailure(reasons),
         ApplyBatch \/ UNCHANGED hostedRows,
         UNCHANGED <<localRows, todo, stable>>
  PROVE  /\ PassedRowsCovered'
         /\ \A t \in Tables : Present(hostedRows[t]) \subseteq Present(hostedRows'[t])
         /\ \A t \in Tables : blemish[t] \subseteq blemish'[t]
<1>1. Current \in Tables /\ Current' = Current /\ Scanning
  BY CurrentType DEF IInv, TypeOK, Scanning, Current
<1>2. \A t \in Tables : Present(hostedRows[t]) \subseteq Present(hostedRows'[t])
  BY ApplyBatchRows
<1>3. CASE attempt + 1 < MaxAttempts
  <2>1. UNCHANGED <<pc, offset, page>> /\ Blame(reasons)
    BY <1>3 DEF CountInsertFailure
  <2>2. ASSUME NEW k PROVE Covered(k) => Covered(k)'
    <3>1. Present(hostedRows[Current]) \subseteq Present(hostedRows'[Current])
      BY <1>1, <1>2
    <3>2. QED BY <1>1, <2>1, <3>1 DEF Covered, Present
  <2>3. \A t \in Tables : blemish[t] \subseteq blemish'[t]
    BY <1>1, <2>1, BlameKept DEF IInv
  <2>4. blemish'[Current] = {} => blemish[Current] = {}
    BY <1>1, <2>3
  <2>5. PassedRowsCovered'
    BY <1>1, <2>1, <2>2, <2>4 DEF IInv, PassedRowsCovered, Scanning, Passed, Present, Rank
  <2>6. QED BY <1>2, <2>3, <2>5
<1>4. CASE ~ (attempt + 1 < MaxAttempts)
  <2>1. Blame(reasons \cup {"unwritten"}) /\ reasons \cup {"unwritten"} \in SUBSET Reasons
    BY <1>4 DEF CountInsertFailure, Reasons
  <2>2. blemish'[Current'] # {} /\ \A t \in Tables : blemish[t] \subseteq blemish'[t]
    BY <1>1, <2>1, BlameKept DEF IInv
  <2>3. PassedRowsCovered'
    BY <2>2 DEF PassedRowsCovered
  <2>4. QED BY <1>2, <2>2, <2>3
<1>5. QED BY <1>3, <1>4

(* A page: the rows at places offset + 1 to offset + PageSize are on it.   *)
LEMMA SelectPageCovers ==
  ASSUME IInv, SelectPage
  PROVE  PassedRowsCovered'
<1>1. Current \in Tables /\ Current' = Current /\ Scanning /\ pc = "select"
  BY CurrentType DEF IInv, TypeOK, Scanning, SelectPage, Current
<1> DEFINE rows == Present(localRows[Current])
<1>2. SUFFICES ASSUME blemish[Current] = {}
               PROVE  /\ stable[Current] \subseteq rows
                      /\ \A k \in stable[Current] : Rank(rows, k) <= offset + PageSize => Covered(k)'
  BY <1>1 DEF PassedRowsCovered, SelectPage, dbVars, historyVars, Passed
<1>3. /\ stable[Current] \subseteq rows
      /\ \A k \in stable[Current] : Rank(rows, k) <= offset => k \in Present(hostedRows[Current])
  BY <1>1, <1>2 DEF IInv, PassedRowsCovered, Passed, Covered
<1>4. ASSUME NEW k \in stable[Current], Rank(rows, k) <= offset + PageSize PROVE Covered(k)'
  <2>1. k \in Keys /\ k \in rows /\ offset \in Int /\ localRows[Current] \in TableData
    BY <1>1, <1>3 DEF Present, IInv, TypeOK
  <2>2. Rank(rows, k) \in Nat
    BY <2>1, RankType DEF Present
  <2>3. CASE Rank(rows, k) <= offset
    BY <1>1, <1>3, <2>3 DEF Covered, SelectPage, dbVars, Present
  <2>4. CASE offset < Rank(rows, k)
    <3>1. k \in Present(SelectResult(localRows[Current], offset))
      BY <1>4, <2>1, <2>4, SelectResultRows
    <3>2. page' = Literals(SelectResult(localRows[Current], offset)) /\ pc' = "insert"
      BY DEF SelectPage
    <3>3. k \in Present(page')
      BY <2>1, <3>1, <3>2, SliceType, LiteralsRows DEF SelectResult
    <3>4. QED BY <1>1, <3>2, <3>3 DEF Covered, Present
  <2>5. QED BY <2>1, <2>2, <2>3, <2>4
<1>5. QED BY <1>3, <1>4

(* No row behind offset: the copy is past them all.                        *)
LEMMA SelectNothingCovers ==
  ASSUME IInv, SelectNothing
  PROVE  MissingRowExplained'
<1>1. Current \in Tables /\ Scanning /\ pc = "select" /\ offset \in Nat
  BY CurrentType DEF IInv, TypeOK, Scanning, SelectNothing
<1>2. localRows[Current] \in TableData
  BY <1>1 DEF IInv, TypeOK
<1> DEFINE rows == Present(localRows[Current])
<1>3. ASSUME NEW k \in rows PROVE Rank(rows, k) <= offset
  <2>1. rows \in SUBSET Keys /\ k \in Keys
    BY DEF Present
  <2>2. Rank(rows, k) \in Nat
    BY <2>1, RankType
  <2>3. ASSUME Rank(rows, k) > offset PROVE FALSE
    <3>1. PICK j \in rows : Rank(rows, j) = offset + 1
      BY <1>1, <2>1, <2>3, RankNoGap
    <3>2. offset < offset + 1 /\ offset + 1 <= offset + PageSize
      BY <1>1, SizeAssumption
    <3>3. j \in Present(SelectResult(localRows[Current], offset))
      BY <1>1, <1>2, <2>1, <3>1, <3>2, SelectResultRows
    <3>4. QED BY <3>3 DEF SelectNothing
  <2>4. QED BY <1>1, <2>2, <2>3
<1>4. blemish[Current] = {} => stable[Current] \subseteq Present(hostedRows[Current])
  BY <1>1, <1>3 DEF IInv, PassedRowsCovered, Passed, Covered
<1>5. /\ finished' = finished \cup {Current}
      /\ UNCHANGED <<hostedRows, stable, blemish>>
  BY DEF SelectNothing, EndTable, dbVars
<1>6. QED BY <1>4, <1>5 DEF IInv, MissingRowExplained, Present

(* Deleting a row the copy is not past moves none of the rows it is past.  *)
LEMMA LocalDeleteCovers ==
  ASSUME IInv, NEW t \in Tables, NEW k \in Keys, LocalDelete(t, k)
  PROVE  PassedRowsCovered'
<1>1. /\ localRows' = [localRows EXCEPT ![t][k] = NoRow]
      /\ UNCHANGED <<hostedRows, pc, todo, offset, page>>
      /\ stable' = [stable EXCEPT ![t] = @ \ {k}]
      /\ k \in Present(localRows[t])
  BY DEF LocalDelete, WriteLocal, loopVars, Present
<1>2. SUFFICES ASSUME Scanning, blemish'[Current] = {}
               PROVE  LET rows == Present(localRows'[Current]) IN
                      /\ stable'[Current] \subseteq rows
                      /\ \A j \in stable'[Current] : Rank(rows, j) <= Passed => Covered(j)
  BY <1>1 DEF PassedRowsCovered, Scanning, Current, Passed, Covered, Present
<1>3. Current \in Tables /\ offset \in Int /\ Passed \in Int
  BY <1>2, CurrentType, SizeAssumption DEF IInv, TypeOK, Passed
<1>4. blemish[Current] = {}
  BY <1>2, <1>3 DEF LocalDelete, IInv, TypeOK
<1> DEFINE rows == Present(localRows[Current])
<1>5. /\ stable[Current] \subseteq rows
      /\ \A j \in stable[Current] : Rank(rows, j) <= Passed => Covered(j)
  BY <1>2, <1>4 DEF IInv, PassedRowsCovered
<1>6. CASE t # Current
  <2>1. localRows'[Current] = localRows[Current] /\ stable'[Current] = stable[Current]
    BY <1>1, <1>3, <1>6 DEF IInv, TypeOK
  <2>2. QED BY <1>5, <2>1
<1>7. CASE t = Current
  <2>1. Present(localRows'[Current]) = rows \ {k} /\ stable'[Current] = stable[Current] \ {k}
    BY <1>1, <1>3, <1>7 DEF IInv, TypeOK, TableData, Present
  <2>2. Rank(rows, k) \in Nat /\ k \in rows /\ rows \in SUBSET Keys
    BY <1>1, <1>7, RankType DEF Present
  <2>3. ~ (Rank(rows, k) <= Passed)
    BY <1>2, <1>3, <1>7 DEF LocalDelete, IInv, TypeOK
  <2>4. Rank(rows, k) > Passed
    BY <1>3, <2>2, <2>3
  <2>5. ASSUME NEW j \in stable[Current] \ {k}, Rank(rows \ {k}, j) <= Passed PROVE Covered(j)
    <3>1. j \in rows \ {k}
      BY <1>5
    <3>2. Rank(rows, j) <= Passed
      <4> HIDE DEF rows
      <4>1. QED BY <1>3, <2>2, <2>4, <2>5, <3>1, RankAfterDelete
    <3>3. QED BY <1>5, <3>2
  <2>6. QED BY <1>5, <2>1, <2>5
<1>8. QED BY <1>6, <1>7

(* A row inserted or updated moves no other row towards the front.         *)
LEMMA LocalWriteCovers ==
  ASSUME IInv, NEW t \in Tables, NEW k \in Keys, NEW v \in Versions, WriteLocal(t, k, v),
         UNCHANGED historyVars
  PROVE  PassedRowsCovered'
<1>1. /\ localRows' = [localRows EXCEPT ![t][k] = v]
      /\ UNCHANGED <<hostedRows, pc, todo, offset, page, stable, blemish>>
  BY DEF WriteLocal, loopVars, historyVars
<1>2. SUFFICES ASSUME Scanning, blemish[Current] = {}
               PROVE  LET rows == Present(localRows'[Current]) IN
                      /\ stable[Current] \subseteq rows
                      /\ \A j \in stable[Current] : Rank(rows, j) <= Passed => Covered(j)
  BY <1>1 DEF PassedRowsCovered, Scanning, Current, Passed, Covered, Present
<1>3. Current \in Tables /\ Passed \in Int
  BY <1>2, CurrentType, SizeAssumption DEF IInv, TypeOK, Passed
<1> DEFINE rows == Present(localRows[Current])
           more == Present(localRows'[Current])
<1>4. /\ stable[Current] \subseteq rows
      /\ \A j \in stable[Current] : Rank(rows, j) <= Passed => Covered(j)
  BY <1>2 DEF IInv, PassedRowsCovered
<1>5. rows \subseteq more /\ more \in SUBSET Keys
  BY <1>1, <1>3, RowAssumption DEF Present, IInv, TypeOK, TableData
<1>6. ASSUME NEW j \in stable[Current], Rank(more, j) <= Passed PROVE Covered(j)
  <2>1. j \in Keys
    BY <1>4, <1>5
  <2>2. Rank(rows, j) <= Rank(more, j) /\ Rank(rows, j) \in Nat /\ Rank(more, j) \in Nat
    <3> HIDE DEF rows, more
    <3>1. QED BY <1>5, <2>1, RankMonotone, RankType
  <2>3. Rank(rows, j) <= Passed
    BY <1>3, <1>6, <2>2
  <2>4. QED BY <1>4, <2>3
<1>7. QED BY <1>4, <1>5, <1>6

LEMMA NextCovered ==
  IInv /\ TypeOK' /\ [Next]_vars => PassedRowsCovered' /\ MissingRowExplained'
<1> SUFFICES ASSUME IInv, TypeOK', [Next]_vars
             PROVE  PassedRowsCovered' /\ MissingRowExplained'
  OBVIOUS
<1> USE DEF dbVars, trackerVars, loopVars, historyVars
<1>1. CASE BeginSync
  BY <1>1, MissingRowExplainedKept DEF BeginSync, PassedRowsCovered, Scanning
<1>2. CASE SkipTable
  BY <1>2, MissingRowExplainedKept DEF SkipTable, PassedRowsCovered, Scanning
<1>3. CASE BeginTable
  <2>1. Current \in Tables /\ Current' = Current
    BY <1>3, CurrentType DEF BeginTable, IInv, Current
  <2>2. /\ stable'[Current] = Present(localRows[Current])
        /\ \A t \in Tables \ {Current} : stable'[t] = stable[t] /\ blemish'[t] = blemish[t]
    BY <1>3, <2>1 DEF BeginTable, IInv, TypeOK
  <2>3. \A k \in Present(localRows[Current]) : Rank(Present(localRows[Current]), k) >= 1
    BY RankPositive DEF Present
  <2>4. \A k \in Present(localRows[Current]) : ~ (Rank(Present(localRows[Current]), k) <= 0)
    <3> TAKE k \in Present(localRows[Current])
    <3>1. Rank(Present(localRows[Current]), k) \in Nat
      BY RankType DEF Present
    <3>2. QED BY <2>3, <3>1
  <2>5. PassedRowsCovered'
    BY <1>3, <2>1, <2>2, <2>4 DEF BeginTable, PassedRowsCovered, Passed, Present, Rank
  <2>6. MissingRowExplained'
    <3>1. finished' = finished \ {Current} /\ finished \subseteq Tables
      BY <1>3 DEF BeginTable, IInv, TypeOK
    <3>2. \A t \in finished' : t \in finished /\ stable'[t] = stable[t] /\ blemish'[t] = blemish[t]
      BY <2>2, <3>1
    <3>3. UNCHANGED hostedRows
      BY <1>3 DEF BeginTable
    <3>4. QED BY <3>2, <3>3 DEF MissingRowExplained, IInv, Present
  <2>7. QED BY <2>5, <2>6
<1>4. CASE EndSync
  BY <1>4, MissingRowExplainedKept DEF EndSync, PassedRowsCovered, Scanning
<1>5. CASE SelectPage
  BY <1>5, SelectPageCovers, MissingRowExplainedKept DEF SelectPage
<1>6. CASE SelectNothing
  BY <1>6, SelectNothingCovers DEF SelectNothing, EndTable, PassedRowsCovered, Scanning
<1>7. CASE RetrySelect
  BY <1>7, PassedRowsCoveredKept, MissingRowExplainedKept DEF RetrySelect
<1>8. CASE AbandonTable
  <2>1. Current \in Tables
    BY <1>8, CurrentType DEF AbandonTable, IInv, TypeOK, Scanning
  <2>2. /\ blemish'[Current] # {}
        /\ \A t \in Tables : blemish[t] \subseteq blemish'[t]
    BY <1>8, <2>1 DEF AbandonTable, IInv, TypeOK
  <2>3. MissingRowExplained'
    <3>1. ASSUME NEW t \in finished', blemish'[t] = {}
          PROVE  stable[t] \subseteq Present(hostedRows[t])
      <4>1. t \in finished /\ t \in Tables
        BY <1>8, <2>2, <3>1 DEF AbandonTable, EndTable, IInv, TypeOK
      <4>2. blemish[t] = {}
        BY <2>2, <3>1, <4>1
      <4>3. QED BY <4>1, <4>2 DEF IInv, MissingRowExplained
    <3>2. QED BY <1>8, <3>1 DEF AbandonTable, MissingRowExplained, Present
  <2>4. QED BY <1>8, <2>3 DEF AbandonTable, EndTable, PassedRowsCovered, Scanning
<1>9. CASE InsertBatch
  <2>1. \A t \in Tables : blemish[t] \subseteq blemish'[t]
    BY <1>9, SkippedRowsType, BlameKept DEF InsertBatch, IInv, Scanning
  <2>2. QED
    BY <1>9, <2>1, NextBatchCovers, ApplyBatchRows, MissingRowExplainedKept DEF InsertBatch
<1>10. CASE FailInsert
  <2>1. {} \in SUBSET Reasons
    OBVIOUS
  <2>2. /\ PassedRowsCovered'
        /\ \A t \in Tables : blemish[t] \subseteq blemish'[t]
    BY <1>10, <2>1, CountInsertFailureCovers DEF FailInsert
  <2>3. QED BY <1>10, <2>2, MissingRowExplainedKept DEF FailInsert
<1>11. CASE LoseInsertAnswer
  <2>1. /\ PassedRowsCovered'
        /\ \A t \in Tables : Present(hostedRows[t]) \subseteq Present(hostedRows'[t])
        /\ \A t \in Tables : blemish[t] \subseteq blemish'[t]
    BY <1>11, SkippedRowsType, CountInsertFailureCovers DEF LoseInsertAnswer
  <2>2. QED BY <1>11, <2>1, MissingRowExplainedKept DEF LoseInsertAnswer
<1>12. ASSUME NEW d \in Databases, LoseLink(d)
       PROVE  PassedRowsCovered' /\ MissingRowExplained'
  BY <1>12, PassedRowsCoveredKept, MissingRowExplainedKept DEF LoseLink
<1>13. ASSUME NEW t \in Tables, NEW k \in Keys, LocalDelete(t, k)
       PROVE  PassedRowsCovered' /\ MissingRowExplained'
  <2>1. \A u \in Tables : stable'[u] \subseteq stable[u] /\ blemish[u] \subseteq blemish'[u]
    BY <1>13 DEF LocalDelete, IInv, TypeOK
  <2>2. UNCHANGED <<hostedRows, finished>>
    BY <1>13 DEF LocalDelete, WriteLocal
  <2>3. MissingRowExplained'
    BY <2>1, <2>2, MissingRowExplainedKept
  <2>4. QED BY <1>13, <2>3, LocalDeleteCovers
<1>14. ASSUME NEW t \in Tables, NEW k \in Keys, NEW v \in Versions,
              LocalInsert(t, k, v) \/ LocalUpdate(t, k, v)
       PROVE  PassedRowsCovered' /\ MissingRowExplained'
  <2>1. WriteLocal(t, k, v) /\ UNCHANGED historyVars
    BY <1>14 DEF LocalInsert, LocalUpdate
  <2>2. PassedRowsCovered'
    BY <2>1, LocalWriteCovers
  <2>3. MissingRowExplained'
    BY <2>1, MissingRowExplainedKept DEF WriteLocal
  <2>4. QED BY <2>2, <2>3
<1>15. CASE MisreadPage \/ MisreadInsert
  <2>1. pc \in {"select", "insert"} /\ Scanning /\ Blame({"mixed"}) /\ {"mixed"} \in SUBSET Reasons
    BY <1>15 DEF MisreadPage, MisreadInsert, Scanning, Reasons
  <2>2. /\ "mixed" \in blemish'[Current]
        /\ \A t \in Tables : blemish[t] \subseteq blemish'[t]
    BY <2>1, BlameKept DEF IInv
  <2>3. Current' = Current /\ UNCHANGED <<stable, finished>>
    BY <1>15 DEF MisreadPage, MisreadInsert, Current
  <2>4. PassedRowsCovered'
    BY <2>2, <2>3 DEF PassedRowsCovered
  <2>5. \A t \in Tables : Present(hostedRows[t]) \subseteq Present(hostedRows'[t])
    BY <1>15, ApplyBatchRows DEF MisreadPage, MisreadInsert
  <2>6. QED BY <2>2, <2>3, <2>4, <2>5, MissingRowExplainedKept
<1>16. CASE UNCHANGED vars
  BY <1>16, PassedRowsCoveredKept, MissingRowExplainedKept DEF vars
<1>17. QED
  BY <1>1, <1>2, <1>3, <1>4, <1>5, <1>6, <1>7, <1>8, <1>9, <1>10, <1>11,
     <1>12, <1>13, <1>14, <1>15, <1>16 DEF Next, SyncNext, Environment

LEMMA InitCovered == Init => PassedRowsCovered /\ MissingRowExplained
BY DEF Init, PassedRowsCovered, MissingRowExplained, Scanning

LEMMA Inductive == Spec => []IInv
BY InitCovered, NextCovered, TypeCorrect, PTL DEF Spec, IInv

(***************************************************************************)
(* Whatever the paging parameters, the failures and the other writers, a   *)
(* row that a table held throughout its copy and that is not in the hosted *)
(* table is explained by a page not read, a batch not written, a clash, a  *)
(* result that was mixed up or a deleted row that the copy was past.       *)
(***************************************************************************)
THEOREM MissingRowsExplained == Spec => []MissingRowExplained
<1>1. IInv => MissingRowExplained
  BY DEF IInv
<1>2. QED BY <1>1, Inductive, PTL

(* So far, a row the table held all along is in the hosted table or on the *)
(* page as soon as its place is among those that the copy is past.         *)
THEOREM PassedRowsAreCovered == Spec => []PassedRowsCovered
<1>1. IInv => PassedRowsCovered
  BY DEF IInv
<1>2. QED BY <1>1, Inductive, PTL
------------------------------------------------------------------------------
(***************************************************************************)
(* LossStaysInBatch.  A row is accounted for if it is hosted or a row that *)
(* the server refuses is in its batch.                                     *)
(***************************************************************************)
Calm ==
  /\ Faults \subseteq {"link"} /\ LocalOps = {} /\ Unique = {}
  /\ \A d \in Databases : link[d]

Accounted(t, k) ==
  \/ k \in Present(hostedRows[t])
  \/ \E j \in Present(localRows[t]) :
       Batch(t, j) = Batch(t, k) /\ Literal[localRows[t][j]] \in Refused

(* The rows at the first n places of the current table are. *)
AccountedTo(n) ==
  \A k \in Present(localRows[Current]) :
    Rank(Present(localRows[Current]), k) <= n => Accounted(Current, k)

(* Pages and batches begin where those of the definition of Batch begin.   *)
Aligned ==
  \E q, b \in Nat :
    /\ offset = q * PageSize
    /\ AccountedTo(offset + b * BatchSize)
    /\ pc = "select" => b = 0
    /\ pc = "insert" =>
         /\ page = Literals(Slice(localRows[Current], offset + b * BatchSize, offset + PageSize))
         /\ Present(page) # {}

(* The largest number that offset is printed as. *)
Widest == 2 * IntMax + 1

(* They do until offset wraps around.  Then it is negative, and the SELECT *)
(* fails; or there are rows behind the widest offset, and the copy does    *)
(* not come to their end; or the copy has seen all rows, and starts again  *)
(* at places that are no longer those of a batch but lose nothing.         *)
LossInv ==
  Calm /\ Scanning =>
    /\ offset <= Widest
    /\ \/ offset < 0 /\ pc = "select"
       \/ \E k \in Present(localRows[Current]) : Rank(Present(localRows[Current]), k) > Widest
       \/ \A k \in Present(localRows[Current]) : Accounted(Current, k)
       \/ Aligned

LEMMA Quotient ==
  ASSUME NEW n \in Nat, NEW d \in Nat \ {0}
  PROVE  n \div d \in Int /\ n % d \in 0 .. d - 1 /\ n = d * (n \div d) + (n % d)
BY Z3

LEMMA Division ==
  ASSUME NEW q \in Nat, NEW d \in Nat \ {0}, NEW r \in Nat, r < d
  PROVE  (q * d + r) \div d = q /\ (q * d + r) % d = r
<1> DEFINE n == q * d + r
           p == n \div d
<1>1. q * d \in Nat /\ n \in Nat
  BY SMT
<1>2. p \in Int /\ n % d \in 0 .. d - 1 /\ n = d * p + (n % d)
  <2> HIDE DEF n
  <2> QED
    BY <1>1, Quotient DEF p
<1>3. ASSUME p < q PROVE FALSE
  <2>1. d * p + d <= d * q
    BY <1>2, <1>3, SMT
  <2> QED
    BY <1>1, <1>2, <2>1, SMT
<1>4. ASSUME q < p PROVE FALSE
  <2>1. d * q + d <= d * p
    BY <1>2, <1>4, SMT
  <2> QED
    BY <1>1, <1>2, <2>1, SMT
<1>5. p = q
  BY <1>2, <1>3, <1>4
<1> QED
  BY <1>1, <1>2, <1>5, SMT

(* Places in the batch number b of the page number q. *)
LEMMA SameBatch ==
  ASSUME NEW t \in Tables, NEW q \in Nat, NEW b \in Nat, NEW k \in Present(localRows[t]),
         q * PageSize + b * BatchSize < Rank(Present(localRows[t]), k),
         Rank(Present(localRows[t]), k) <= q * PageSize + b * BatchSize + BatchSize,
         Rank(Present(localRows[t]), k) <= q * PageSize + PageSize
  PROVE  Batch(t, k) = <<q, b>>
<1> DEFINE n == Rank(Present(localRows[t]), k)
           r == n - 1 - q * PageSize
<1>1. n \in Nat /\ q * PageSize \in Nat /\ b * BatchSize \in Nat
  <2>1. Present(localRows[t]) \in SUBSET Keys /\ k \in Keys
    BY DEF Present
  <2> QED
    BY <2>1, RankType, SizeAssumption
<1>2. r \in Nat /\ r < PageSize /\ n - 1 = q * PageSize + r
  BY <1>1, SizeAssumption
<1>3. (n - 1) \div PageSize = q /\ (n - 1) % PageSize = r
  <2>1. (q * PageSize + r) \div PageSize = q /\ (q * PageSize + r) % PageSize = r
    <3> HIDE DEF r
    <3> QED
      BY <1>2, Division, SizeAssumption
  <2> QED
    BY <1>2, <2>1
<1>4. r - b * BatchSize \in Nat /\ r - b * BatchSize < BatchSize
  BY <1>1, <1>2, SizeAssumption
<1>5. r \div BatchSize = b
  <2>1. (b * BatchSize + (r - b * BatchSize)) \div BatchSize = b
    BY <1>4, Division, SizeAssumption
  <2>2. b * BatchSize + (r - b * BatchSize) = r
    BY <1>1, <1>2
  <2> QED
    BY <2>1, <2>2
<1> QED
  BY <1>3, <1>5 DEF Batch

(* The rank of a row on a page that starts behind place lo. *)
LEMMA RankShift ==
  ASSUME NEW S \in SUBSET Keys, NEW lo \in Nat, NEW hi \in Int, NEW T,
         T = {k \in S : lo < Rank(S, k) /\ Rank(S, k) <= hi},
         NEW k \in T
  PROVE  Rank(T, k) = Rank(S, k) - lo
<1> DEFINE A == {j \in S : j <= k}
           B == {j \in S : Rank(S, j) <= lo}
<1>1. S \subseteq Int /\ k \in S /\ \A j \in S : Rank(S, j) \in Nat
  BY KeysAssumption, RankType
<1>2. \A i, j \in S : i <= j <=> Rank(S, i) <= Rank(S, j)
  <2> TAKE i, j \in S
  <2>1. CASE i < j
    BY <1>1, <2>1, RankStrict
  <2>2. CASE j < i
    BY <1>1, <2>2, RankStrict
  <2>3. CASE i = j
    BY <1>1, <2>3
  <2> QED
    BY <1>1, <2>1, <2>2, <2>3
<1>3. \A j \in S : j \in T /\ j <= k <=> j <= k /\ ~ (Rank(S, j) <= lo)
  BY <1>1, <1>2
<1>4. {j \in T : j <= k} = A \ B
  <2>1. \A j : j \in A \ B <=> j \in S /\ j <= k /\ ~ (Rank(S, j) <= lo)
    OBVIOUS
  <2>2. T \subseteq S
    OBVIOUS
  <2> HIDE DEF A, B
  <2> QED
    BY <1>3, <2>1, <2>2
<1>5. B \subseteq A
  <2>1. \A j \in S : Rank(S, j) <= lo => Rank(S, j) <= Rank(S, k)
    BY <1>1
  <2>2. \A j \in S : Rank(S, j) <= lo => j <= k
    BY <1>1, <1>2, <2>1
  <2> QED
    BY <2>2
<1>6. Cardinality(B) = lo
  <2>1. CASE lo = 0
    <3>1. ASSUME NEW j \in S PROVE Rank(S, j) >= 1
      BY RankPositive
    <3>2. \A j \in S : ~ (Rank(S, j) <= lo)
      BY <1>1, <2>1, <3>1
    <3>3. B = {}
      BY <3>2
    <3> QED
      BY <2>1, <3>3, FS_EmptySet
  <2>2. CASE lo # 0
    <3>1. lo - 1 \in Nat /\ Rank(S, k) > lo - 1 /\ (lo - 1) + 1 = lo
      BY <1>1, <2>2
    <3>2. PICK m \in S : Rank(S, m) = lo
      BY <1>1, <3>1, RankNoGap
    <3>3. B = {j \in S : j <= m}
      BY <1>2, <3>2
    <3> QED
      BY <3>2, <3>3 DEF Rank
  <2> QED
    BY <2>1, <2>2
<1>7. A \in SUBSET Keys /\ IsFiniteSet(A) /\ A \cap B = B
  BY <1>1, <1>5, PresentFinite
<1>8. Cardinality(A \ B) = Cardinality(A) - Cardinality(B)
  <2> HIDE DEF A, B
  <2> QED
    BY <1>7, FS_Difference
<1> QED
  BY <1>4, <1>6, <1>8 DEF Rank

(* What an INSERT carries of the rest of a page, and what it leaves. *)
LEMMA BatchOfPage ==
  ASSUME NEW rows \in TableData, NEW lo \in Nat, NEW hi \in Int, NEW p,
         p = Literals(Slice(rows, lo, hi))
  PROVE  /\ Present(p) = {k \in Present(rows) : /\ lo < Rank(Present(rows), k)
                                               /\ Rank(Present(rows), k) <= hi}
         /\ \A k \in Present(p) : p[k] = Literal[rows[k]]
         /\ Present(FirstBatch(p)) =
              {k \in Present(p) : Rank(Present(rows), k) <= lo + BatchSize}
         /\ LaterBatches(p) = Literals(Slice(rows, lo + BatchSize, hi))
<1> DEFINE S == Present(rows)
           T == {k \in S : lo < Rank(S, k) /\ Rank(S, k) <= hi}
<1>1. S \in SUBSET Keys /\ \A k \in S : Rank(S, k) \in Nat
  BY RankType DEF Present
<1>2. Slice(rows, lo, hi) \in TableData /\ p \in TableData
  BY SliceType, LiteralsType
<1>3. Present(p) = T
  <2>1. Present(p) = Present(Slice(rows, lo, hi))
    BY <1>2, LiteralsRows
  <2>2. Present(Slice(rows, lo, hi)) = T
    BY DEF Slice, Present
  <2> QED
    BY <2>1, <2>2
<1>4. \A k \in T : p[k] = Literal[rows[k]]
  BY DEF Literals, Slice, Present
<1>5. \A k \in T : Rank(T, k) = Rank(S, k) - lo
  <2> HIDE DEF S
  <2> TAKE k \in T
  <2> QED
    BY <1>1, RankShift
<1>6. \A k \in T : Rank(T, k) <= BatchSize <=> Rank(S, k) <= lo + BatchSize
  BY <1>1, <1>5, SizeAssumption
<1>7. \A k \in T : 0 < Rank(T, k)
  BY <1>1, <1>5
<1>8. Present(FirstBatch(p)) = {k \in T : Rank(S, k) <= lo + BatchSize}
  <2>1. Present(FirstBatch(p)) = {k \in T : 0 < Rank(T, k) /\ Rank(T, k) <= BatchSize}
    <3> HIDE DEF T
    <3> QED
      BY <1>3 DEF FirstBatch, Slice, Present
  <2> QED
    BY <1>6, <1>7, <2>1
<1>9. LaterBatches(p) = Literals(Slice(rows, lo + BatchSize, hi))
  <2> DEFINE l == Literals(Slice(rows, lo + BatchSize, hi))
  <2>1. \A k \in Keys : l[k] = IF k \in T /\ lo + BatchSize < Rank(S, k)
                               THEN Literal[rows[k]] ELSE NoRow
    <3>1. \A k \in Keys : k \in T /\ lo + BatchSize < Rank(S, k) <=>
            k \in S /\ lo + BatchSize < Rank(S, k) /\ Rank(S, k) <= hi
      BY <1>1, SizeAssumption
    <3>2. \A k \in Keys : Rank(S, k) \in Nat /\ (k \in S <=> rows[k] # NoRow)
      BY <1>1, RankType DEF Present
    <3>3. \A k \in Keys : l[k] = IF k \in S /\ lo + BatchSize < Rank(S, k) /\ Rank(S, k) <= hi
                                 THEN Literal[rows[k]] ELSE NoRow
      <4> HIDE DEF T
      <4> QED
        BY <3>2 DEF Literals, Slice
    <3> QED
      BY <3>1, <3>3
  <2>2. \A k \in Keys : LaterBatches(p)[k] = IF k \in T /\ lo + BatchSize < Rank(S, k)
                                             THEN Literal[rows[k]] ELSE NoRow
    <3> TAKE k \in Keys
    <3>1. LaterBatches(p)[k] = IF Rank(T, k) <= BatchSize THEN NoRow ELSE p[k]
      BY <1>3 DEF LaterBatches
    <3>2. CASE k \in T
      BY <1>1, <1>4, <1>6, <3>1, <3>2, SizeAssumption
    <3>3. CASE k \notin T
      BY <1>3, <3>1, <3>3 DEF Present
    <3> QED
      BY <3>2, <3>3
  <2>3. l = [k \in Keys |-> l[k]] /\ LaterBatches(p) = [k \in Keys |-> LaterBatches(p)[k]]
    BY DEF Literals, LaterBatches
  <2> HIDE DEF l, T, S
  <2>4. [k \in Keys |-> l[k]] = [k \in Keys |-> LaterBatches(p)[k]]
    BY <2>1, <2>2
  <2> QED
    BY <2>3, <2>4 DEF l
<1> QED
  BY <1>3, <1>4, <1>8, <1>9

(* Whatever the local tables keep, a row that is accounted for stays so. *)
LEMMA AccountedKept ==
  ASSUME NEW t \in Tables, UNCHANGED localRows,
         Present(hostedRows[t]) \subseteq Present(hostedRows'[t])
  PROVE  \A k : Accounted(t, k) => Accounted(t, k)'
BY DEF Accounted, Batch, Rank, Present

LEMMA LossInvKept ==
  ASSUME TypeOK, LossInv, Calm, UNCHANGED <<localRows, pc, todo, offset, page>>,
         \A t \in Tables : Present(hostedRows[t]) \subseteq Present(hostedRows'[t])
  PROVE  LossInv'
<1> SUFFICES ASSUME Scanning PROVE LossInv'
  BY DEF LossInv, Scanning
<1>1. Current \in Tables /\ Current' = Current
  BY CurrentType DEF TypeOK, Current
<1>2. \A k : Accounted(Current, k) => Accounted(Current, k)'
  BY <1>1, AccountedKept
<1>3. Aligned => Aligned'
  <2> SUFFICES ASSUME Aligned PROVE Aligned'
    OBVIOUS
  <2>1. PICK q, b \in Nat :
          /\ offset = q * PageSize
          /\ AccountedTo(offset + b * BatchSize)
          /\ pc = "select" => b = 0
          /\ pc = "insert" =>
               /\ page = Literals(Slice(localRows[Current], offset + b * BatchSize, offset + PageSize))
               /\ Present(page) # {}
    BY DEF Aligned
  <2>2. AccountedTo(offset + b * BatchSize)'
    BY <1>1, <1>2, <2>1 DEF AccountedTo, Rank, Present
  <2>3. pc' = "insert" =>
          /\ page' = Literals(Slice(localRows[Current], offset + b * BatchSize, offset + PageSize))'
          /\ Present(page') # {}
    BY <1>1, <2>1 DEF Literals, Slice, Rank, Present
  <2> QED
    BY <1>1, <2>1, <2>2, <2>3 DEF Aligned
<1>4. (\E k \in Present(localRows[Current]) : Rank(Present(localRows[Current]), k) > Widest)
        => (\E k \in Present(localRows[Current]) : Rank(Present(localRows[Current]), k) > Widest)'
  BY <1>1 DEF Rank, Present, Widest
<1>5. (\A k \in Present(localRows[Current]) : Accounted(Current, k))
        => (\A k \in Present(localRows[Current]) : Accounted(Current, k))'
  BY <1>1, <1>2 DEF Present
<1> QED
  BY <1>3, <1>4, <1>5 DEF LossInv, Widest

(* A batch that is never accepted has a row that is refused.               *)
LEMMA RefusedBatchAccounted ==
  ASSUME TypeOK, pc = "insert", Aligned, ~ Acceptable
  PROVE  \A k \in Present(FirstBatch(page)) : Accounted(Current, k)
<1>1. Current \in Tables /\ localRows[Current] \in TableData /\ offset \in Int
  BY CurrentType DEF TypeOK, Scanning
<1>2. PICK q, b \in Nat :
        /\ offset = q * PageSize
        /\ page = Literals(Slice(localRows[Current], offset + b * BatchSize, offset + PageSize))
        /\ Present(page) # {}
  BY DEF Aligned
<1> DEFINE rows == Present(localRows[Current])
           lo == offset + b * BatchSize
           hi == offset + PageSize
<1>3. lo \in Nat /\ hi \in Int /\ lo = q * PageSize + b * BatchSize
  BY <1>2, SizeAssumption
<1>4. /\ Present(page) = {k \in rows : lo < Rank(rows, k) /\ Rank(rows, k) <= hi}
      /\ \A k \in Present(page) : page[k] = Literal[localRows[Current][k]]
      /\ Present(FirstBatch(page)) = {k \in Present(page) : Rank(rows, k) <= lo + BatchSize}
  <2> HIDE DEF lo, hi
  <2> QED
    BY <1>1, <1>2, <1>3, BatchOfPage DEF lo, hi
<1>5. \A k \in Present(FirstBatch(page)) : k \in rows /\ Batch(Current, k) = <<q, b>>
  <2> TAKE k \in Present(FirstBatch(page))
  <2>1. /\ k \in rows /\ lo < Rank(rows, k)
        /\ Rank(rows, k) <= lo + BatchSize /\ Rank(rows, k) <= q * PageSize + PageSize
    BY <1>2, <1>4
  <2> QED
    BY <1>1, <1>3, <2>1, SameBatch
<1>6. PICK j \in Present(FirstBatch(page)) : page[j] \in Refused
  BY <1>2 DEF Acceptable
<1>7. j \in rows /\ Literal[localRows[Current][j]] \in Refused
  BY <1>4, <1>5, <1>6
<1> QED
  BY <1>5, <1>6, <1>7 DEF Accounted

(* The copy goes on behind a batch whose rows are all accounted for.       *)
LEMMA NextBatchLoss ==
  ASSUME TypeOK, LossInv, Calm, pc = "insert", NextBatch, UNCHANGED <<localRows, todo>>,
         \A t \in Tables : Present(hostedRows[t]) \subseteq Present(hostedRows'[t]),
         Aligned => \A k \in Present(FirstBatch(page)) : Accounted(Current, k)'
  PROVE  LossInv'
<1> DEFINE rows == Present(localRows[Current])
<1>1. Current \in Tables /\ Current' = Current /\ Scanning
  BY CurrentType DEF TypeOK, Current, Scanning
<1>2. localRows[Current] \in TableData /\ offset \in Int /\ rows \in SUBSET Keys
      /\ \A k \in rows : Rank(rows, k) \in Nat
  BY <1>1, RankType DEF TypeOK, Present
<1>3. \A k : Accounted(Current, k) => Accounted(Current, k)'
  BY <1>1, AccountedKept
<1>4. offset' <= Widest
  <2>1. CASE UNCHANGED offset
    BY <1>1, <2>1 DEF LossInv, Widest
  <2>2. CASE offset' \in Sums(offset + PageSize)
    BY <1>2, <2>2, SizeAssumption DEF Sums, Widest
  <2> QED
    BY <2>1, <2>2 DEF NextBatch
<1>5. CASE \E k \in rows : Rank(rows, k) > Widest
  BY <1>1, <1>4, <1>5 DEF LossInv, Rank, Present, Widest
<1>6. CASE \A k \in rows : Accounted(Current, k)
  BY <1>1, <1>3, <1>4, <1>6 DEF LossInv, Present, Widest
<1>7. CASE Aligned /\ ~ \E k \in rows : Rank(rows, k) > Widest
  <2>1. PICK q, b \in Nat :
          /\ offset = q * PageSize
          /\ AccountedTo(offset + b * BatchSize)
          /\ page = Literals(Slice(localRows[Current], offset + b * BatchSize, offset + PageSize))
    BY <1>7 DEF Aligned
  <2> DEFINE lo == offset + b * BatchSize
             hi == offset + PageSize
  <2>2. lo \in Nat /\ hi \in Int /\ lo + BatchSize \in Nat
    BY <2>1, SizeAssumption
  <2>3. /\ Present(page) = {k \in rows : lo < Rank(rows, k) /\ Rank(rows, k) <= hi}
        /\ Present(FirstBatch(page)) = {k \in Present(page) : Rank(rows, k) <= lo + BatchSize}
        /\ LaterBatches(page) = Literals(Slice(localRows[Current], lo + BatchSize, hi))
    <3> HIDE DEF lo, hi
    <3> QED
      BY <1>2, <2>1, <2>2, BatchOfPage DEF lo, hi
  <2>4. Present(LaterBatches(page)) =
          {k \in rows : lo + BatchSize < Rank(rows, k) /\ Rank(rows, k) <= hi}
    <3> HIDE DEF lo, hi
    <3> QED
      BY <1>2, <2>2, <2>3, BatchOfPage
  <2>5. \A k \in rows : Rank(rows, k) <= lo + BatchSize /\ Rank(rows, k) <= hi =>
          Accounted(Current, k)'
    <3> TAKE k \in rows
    <3> HAVE Rank(rows, k) <= lo + BatchSize /\ Rank(rows, k) <= hi
    <3>1. CASE Rank(rows, k) <= lo
      BY <1>3, <2>1, <3>1 DEF AccountedTo
    <3>2. CASE lo < Rank(rows, k)
      <4>1. k \in Present(FirstBatch(page))
        BY <2>3, <3>2
      <4> QED
        BY <1>7, <4>1
    <3> QED
      BY <1>2, <2>2, <3>1, <3>2
  <2>6. CASE Present(LaterBatches(page)) # {}
    <3>1. pc' = "insert" /\ offset' = offset /\ page' = LaterBatches(page)
      BY <2>6 DEF NextBatch
    <3>2. lo + BatchSize < hi
      BY <1>2, <2>2, <2>4, <2>6
    <3>3. b + 1 \in Nat /\ offset + (b + 1) * BatchSize = lo + BatchSize
      BY <1>2, SizeAssumption
    <3>4. \A k \in rows : Rank(rows, k) <= lo + BatchSize => Accounted(Current, k)'
      BY <1>2, <2>2, <2>5, <3>2
    <3>5. AccountedTo(offset + (b + 1) * BatchSize)'
      <4> HIDE DEF lo, hi
      <4> QED
        BY <1>1, <3>1, <3>3, <3>4 DEF AccountedTo, Rank, Present
    <3>6. page' = Literals(Slice(localRows[Current], offset + (b + 1) * BatchSize, offset + PageSize))'
      BY <1>1, <2>3, <3>1, <3>3 DEF Literals, Slice, Rank, Present
    <3>7. Present(page') # {}
      BY <2>6, <3>1
    <3>8. Aligned'
      BY <1>1, <2>1, <3>1, <3>3, <3>5, <3>6, <3>7 DEF Aligned, Present
    <3> QED
      BY <1>4, <3>8 DEF LossInv, Widest
  <2>7. CASE Present(LaterBatches(page)) = {}
    <3>1. pc' = "select" /\ offset' \in Sums(hi)
      BY <2>7 DEF NextBatch
    <3>2. \A k \in rows : Rank(rows, k) <= hi => Accounted(Current, k)'
      BY <1>2, <2>2, <2>4, <2>5, <2>7
    <3>3. CASE offset' = hi
      <4>1. q + 1 \in Nat /\ offset' = (q + 1) * PageSize /\ offset' + 0 * BatchSize = hi
        BY <1>2, <2>1, <3>3, SizeAssumption
      <4>2. AccountedTo(offset + 0 * BatchSize)'
        BY <1>1, <3>2, <4>1 DEF AccountedTo, Rank, Present
      <4>3. Aligned'
        BY <3>1, <4>1, <4>2 DEF Aligned
      <4> QED
        BY <1>4, <4>3 DEF LossInv, Widest
    <3>4. CASE offset' # hi
      <4>1. offset' = hi - 2 * (IntMax + 1)
        BY <3>1, <3>4 DEF Sums
      <4>2. CASE offset' < 0
        BY <1>4, <3>1, <4>2 DEF LossInv, Widest
      <4>3. CASE ~ (offset' < 0)
        <5>1. Widest <= hi /\ Widest \in Int
          BY <1>2, <2>2, <4>1, <4>3, SizeAssumption DEF Widest
        <5>2. \A k \in rows : Rank(rows, k) <= hi
          BY <1>2, <1>7, <2>2, <5>1
        <5>3. (\A k \in Present(localRows[Current]) : Accounted(Current, k))'
          BY <1>1, <3>2, <5>2 DEF Present
        <5> QED
          BY <1>4, <5>3 DEF LossInv, Widest
      <4> QED
        BY <4>2, <4>3
    <3> QED
      BY <3>3, <3>4
  <2> QED
    BY <2>6, <2>7
<1> QED
  BY <1>1, <1>5, <1>6, <1>7 DEF LossInv

(* The losses of the finished tables, in the words of the definitions above.*)
LossesAccounted ==
  Calm => \A t \in finished : blemish[t] \subseteq {"unwritten"} =>
            \A k \in Present(localRows[t]) : Accounted(t, k)

LEMMA LossesAccountedKept ==
  ASSUME TypeOK, LossesAccounted, Calm, UNCHANGED localRows,
         \A t \in Tables : Present(hostedRows[t]) \subseteq Present(hostedRows'[t]),
         \A t \in finished' : t \in finished /\ blemish[t] \subseteq blemish'[t]
  PROVE  LossesAccounted'
<1> SUFFICES ASSUME NEW t \in finished', blemish'[t] \subseteq {"unwritten"},
                    NEW k \in Present(localRows[t])
             PROVE  Accounted(t, k)'
  BY DEF LossesAccounted, Present
<1>1. t \in finished /\ t \in Tables /\ blemish[t] \subseteq {"unwritten"}
  BY DEF TypeOK
<1> QED
  BY <1>1, AccountedKept DEF LossesAccounted

(* When a SELECT returns nothing the copy has come to the end of the table.*)
LEMMA SelectNothingLoss ==
  ASSUME TypeOK, LossInv, LossesAccounted, Calm, SelectNothing
  PROVE  LossesAccounted'
<1> DEFINE rows == Present(localRows[Current])
<1>1. Current \in Tables /\ Scanning /\ pc = "select" /\ offset \in Nat
  BY CurrentType DEF TypeOK, Scanning, SelectNothing
<1>2. localRows[Current] \in TableData /\ rows \in SUBSET Keys
      /\ \A k \in rows : Rank(rows, k) \in Nat
  BY <1>1, RankType DEF TypeOK, Present
<1>3. ASSUME NEW k \in rows PROVE Rank(rows, k) <= offset
  <2> SUFFICES ASSUME Rank(rows, k) > offset PROVE FALSE
    BY <1>1, <1>2
  <2>1. PICK j \in rows : Rank(rows, j) = offset + 1
    BY <1>1, <1>2, RankNoGap
  <2>2. offset < offset + 1 /\ offset + 1 <= offset + PageSize
    BY <1>1, SizeAssumption
  <2>3. j \in Present(SelectResult(localRows[Current], offset))
    BY <1>1, <1>2, <2>1, <2>2, SelectResultRows
  <2> QED
    BY <2>3 DEF SelectNothing
<1>4. \A k \in rows : Accounted(Current, k)
  <2>1. CASE \A k \in rows : Accounted(Current, k)
    BY <2>1
  <2>2. CASE \E k \in rows : Rank(rows, k) > Widest
    BY <1>1, <1>2, <1>3, <2>2, SizeAssumption DEF LossInv, Widest
  <2>3. CASE Aligned
    <3>1. PICK b \in Nat : b = 0 /\ AccountedTo(offset + b * BatchSize)
      BY <1>1, <2>3 DEF Aligned
    <3>2. offset + b * BatchSize = offset
      BY <1>1, <3>1, SizeAssumption
    <3> QED
      BY <1>3, <3>1, <3>2 DEF AccountedTo
  <2> QED
    BY <1>1, <2>1, <2>2, <2>3 DEF LossInv
<1>5. finished' = finished \cup {Current} /\ UNCHANGED <<localRows, hostedRows, blemish, link>>
  BY DEF SelectNothing, EndTable, dbVars
<1>6. \A t \in finished' : blemish[t] \subseteq {"unwritten"} =>
        \A k \in Present(localRows[t]) : Accounted(t, k)
  BY <1>4, <1>5 DEF LossesAccounted
<1>7. \A t \in Tables : \A k : Accounted(t, k) => Accounted(t, k)'
  BY <1>5, AccountedKept
<1> QED
  BY <1>1, <1>5, <1>6, <1>7 DEF LossesAccounted, TypeOK, Present

(* A connection that is up was never down.                                 *)
LEMMA CalmBefore == TypeOK /\ Next /\ Calm' => Calm
<1> SUFFICES ASSUME TypeOK, Next, Calm' PROVE \A d \in Databases : link'[d] => link[d]
  BY DEF Calm
<1>1. CASE LoseInsertAnswer \/ \E d \in Databases : LoseLink(d)
  BY <1>1 DEF LoseInsertAnswer, LoseLink, TypeOK
<1> QED
  BY <1>1
  DEF Next, SyncNext, Environment, dbVars, BeginSync, SkipTable, BeginTable, EndSync, SelectPage,
      SelectNothing, RetrySelect, AbandonTable, MisreadPage, InsertBatch, FailInsert,
      MisreadInsert, LocalDelete, LocalInsert, LocalUpdate, WriteLocal

LEMMA NextLoss ==
  IInv /\ LossInv /\ LossesAccounted /\ TypeOK' /\ [Next]_vars => LossInv' /\ LossesAccounted'
<1> SUFFICES ASSUME IInv, LossInv, LossesAccounted, TypeOK', [Next]_vars
             PROVE  LossInv' /\ LossesAccounted'
  OBVIOUS
<1> USE DEF dbVars, trackerVars, loopVars, historyVars
<1>0. CASE UNCHANGED vars
  <2>1. \A t \in Tables : \A k : Accounted(t, k) <=> Accounted(t, k)'
    BY <1>0 DEF vars, Accounted, Batch, Rank, Present
  <2>2. Calm' => Calm
    BY <1>0 DEF vars, Calm
  <2> QED
    BY <1>0, <2>2, LossInvKept, LossesAccountedKept DEF vars, IInv, LossInv, LossesAccounted
<1> SUFFICES ASSUME Next, Calm' PROVE LossInv' /\ LossesAccounted'
  BY <1>0 DEF LossInv, LossesAccounted
<1>1. TypeOK /\ Calm
  BY CalmBefore DEF IInv
<1>2. CASE BeginSync \/ SkipTable \/ EndSync
  <2>1. ~ Scanning'
    BY <1>2 DEF BeginSync, SkipTable, EndSync, Scanning
  <2> QED
    BY <1>1, <1>2, <2>1, LossesAccountedKept DEF BeginSync, SkipTable, EndSync, LossInv
<1>3. CASE BeginTable
  <2>1. Current \in Tables /\ Current' = Current
    BY <1>1, <1>3, CurrentType DEF BeginTable, Current
  <2>2. AccountedTo(0)'
    <3> DEFINE rows == Present(localRows[Current])
    <3>1. ASSUME NEW k \in rows PROVE ~ (Rank(rows, k) <= 0)
      <4>1. Rank(rows, k) \in Nat /\ Rank(rows, k) >= 1
        BY RankType, RankPositive DEF Present
      <4> QED
        BY <4>1
    <3> QED
      BY <1>3, <2>1, <3>1 DEF BeginTable, AccountedTo, Rank, Present
  <2>3. offset' = 0 /\ pc' = "select" /\ 0 = 0 * PageSize /\ 0 + 0 * BatchSize = 0
    BY <1>3, SizeAssumption DEF BeginTable
  <2>4. Aligned'
    BY <2>2, <2>3 DEF Aligned
  <2>5. LossInv'
    BY <2>3, <2>4, SizeAssumption DEF LossInv, Widest
  <2>6. \A t \in finished' : t \in finished /\ blemish[t] \subseteq blemish'[t]
    BY <1>1, <1>3, <2>1 DEF BeginTable, TypeOK
  <2> QED
    BY <1>1, <1>3, <2>5, <2>6, LossesAccountedKept DEF BeginTable
<1>4. CASE SelectPage
  <2>1. Scanning /\ Current' = Current /\ Current \in Tables /\ offset \in Nat
    BY <1>1, <1>4, CurrentType DEF SelectPage, Scanning, Current, TypeOK
  <2>2. \A k : Accounted(Current, k) => Accounted(Current, k)'
    BY <1>4, <2>1, AccountedKept DEF SelectPage
  <2>3. Aligned => Aligned'
    <3> SUFFICES ASSUME Aligned PROVE Aligned'
      OBVIOUS
    <3>1. PICK q, b \in Nat : b = 0 /\ offset = q * PageSize /\ AccountedTo(offset + b * BatchSize)
      BY <1>4 DEF Aligned, SelectPage
    <3>2. offset + b * BatchSize = offset
      BY <2>1, <3>1, SizeAssumption
    <3>3. AccountedTo(offset + b * BatchSize)'
      BY <1>4, <2>1, <2>2, <3>1 DEF SelectPage, AccountedTo, Rank, Present
    <3>4. page' = Literals(SelectResult(localRows[Current], offset))
          /\ Present(SelectResult(localRows[Current], offset)) # {}
      BY <1>4 DEF SelectPage
    <3>5. page' = Literals(Slice(localRows[Current], offset + b * BatchSize, offset + PageSize))
      BY <3>2, <3>4 DEF SelectResult
    <3>6. Present(page') # {}
      <4>1. SelectResult(localRows[Current], offset) \in TableData
        BY <1>1, <2>1, SliceType DEF SelectResult, TypeOK
      <4> QED
        BY <3>4, <4>1, LiteralsRows
    <3>7. page' = Literals(Slice(localRows[Current], offset + b * BatchSize, offset + PageSize))'
      BY <1>4, <2>1, <3>5 DEF SelectPage, Literals, Slice, Rank, Present
    <3> QED
      BY <1>4, <3>1, <3>3, <3>6, <3>7 DEF Aligned, SelectPage, Present
  <2>4. LossInv'
    BY <1>1, <1>4, <2>1, <2>2, <2>3 DEF SelectPage, LossInv, Widest, Rank, Present
  <2> QED
    BY <1>1, <1>4, <2>4, LossesAccountedKept DEF SelectPage
<1>5. CASE SelectNothing
  BY <1>1, <1>5, SelectNothingLoss DEF SelectNothing, EndTable, LossInv, Scanning
<1>6. CASE RetrySelect
  BY <1>1, <1>6, LossInvKept, LossesAccountedKept DEF RetrySelect
<1>7. CASE AbandonTable
  <2>1. Current \in Tables
    BY <1>1, <1>7, CurrentType DEF AbandonTable, TypeOK, Scanning
  <2>2. "unread" \in blemish'[Current] /\ \A t \in Tables \ {Current} : blemish'[t] = blemish[t]
    BY <1>1, <1>7, <2>1 DEF AbandonTable, TypeOK
  <2>3. finished' = finished \cup {Current}
    BY <1>7 DEF AbandonTable, EndTable
  <2>4. ASSUME NEW t \in finished', blemish'[t] \subseteq {"unwritten"},
               NEW k \in Present(localRows[t])
        PROVE  Accounted(t, k)'
    <3>1. t # Current /\ t \in finished /\ t \in Tables /\ blemish[t] \subseteq {"unwritten"}
      BY <1>1, <2>2, <2>3, <2>4 DEF TypeOK
    <3> QED
      BY <1>1, <1>7, <2>4, <3>1, AccountedKept DEF LossesAccounted, AbandonTable
  <2> QED
    BY <1>7, <2>4 DEF AbandonTable, EndTable, LossInv, LossesAccounted, Scanning, Present
<1>8. ASSUME pc = "insert", ApplyBatch
      PROVE  \A t \in Tables : Present(hostedRows[t]) \subseteq Present(hostedRows'[t])
  BY <1>8, ApplyBatchRows
<1>9. CASE InsertBatch
  <2>1. \A t \in Tables : blemish[t] \subseteq blemish'[t]
    BY <1>1, <1>9, SkippedRowsType, BlameKept DEF InsertBatch, Scanning
  <2>2. SkippedRows = {}
    BY <1>1 DEF Calm, SkippedRows, Clashes
  <2>3. Present(FirstBatch(page)) \subseteq Present(hostedRows'[Current])
    BY <1>9, <2>2, ApplyBatchRows DEF InsertBatch
  <2>4. Current' = Current
    BY <1>9 DEF InsertBatch, Current
  <2>5. \A k \in Present(FirstBatch(page)) : Accounted(Current, k)'
    BY <2>3, <2>4 DEF Accounted, Present
  <2>6. LossInv'
    BY <1>1, <1>8, <1>9, <2>5, NextBatchLoss DEF InsertBatch
  <2> QED
    BY <1>1, <1>8, <1>9, <2>1, <2>6, LossesAccountedKept DEF InsertBatch, TypeOK
<1>10. CASE FailInsert
  <2>1. ~ Acceptable
    BY <1>1, <1>10 DEF FailInsert, InsertCanFail, Calm, Databases
  <2>2. CountInsertFailure({}) /\ pc = "insert" /\ Scanning
    BY <1>10 DEF FailInsert, Scanning
  <2>3. \A t \in Tables : blemish[t] \subseteq blemish'[t]
    <3>1. {} \in SUBSET Reasons
      OBVIOUS
    <3> QED
      BY <1>10, <2>2, <3>1, CountInsertFailureCovers DEF FailInsert
  <2>4. LossesAccounted'
    BY <1>1, <1>10, <2>3, LossesAccountedKept DEF FailInsert, TypeOK
  <2>5. CASE attempt + 1 < MaxAttempts
    BY <1>1, <1>10, <2>2, <2>4, <2>5, LossInvKept DEF FailInsert, CountInsertFailure
  <2>6. CASE ~ (attempt + 1 < MaxAttempts)
    <3>1. Current' = Current /\ Current \in Tables
      BY <1>1, <1>10, <2>2, CurrentType DEF FailInsert, Current, TypeOK
    <3>2. Aligned => \A k \in Present(FirstBatch(page)) : Accounted(Current, k)
      BY <1>1, <2>1, <2>2, RefusedBatchAccounted
    <3>3. Aligned => \A k \in Present(FirstBatch(page)) : Accounted(Current, k)'
      BY <1>10, <3>1, <3>2, AccountedKept DEF FailInsert
    <3>4. NextBatch
      BY <2>2, <2>6 DEF CountInsertFailure
    <3> QED
      BY <1>1, <1>10, <2>2, <2>4, <3>3, <3>4, NextBatchLoss DEF FailInsert
  <2> QED
    BY <2>5, <2>6
<1>11. CASE LoseInsertAnswer \/ \E d \in Databases : LoseLink(d)
  BY <1>1, <1>11 DEF LoseInsertAnswer, LoseLink, Calm, TypeOK, Databases
<1>12. CASE MisreadPage \/ MisreadInsert \/ (\E t \in Tables, k \in Keys : LocalDelete(t, k))
            \/ \E t \in Tables, k \in Keys, v \in Versions :
                 LocalInsert(t, k, v) \/ LocalUpdate(t, k, v)
  BY <1>1, <1>12 DEF Calm, MisreadPage, MisreadInsert, LocalDelete, LocalInsert, LocalUpdate
<1> QED
  BY <1>2, <1>3, <1>4, <1>5, <1>6, <1>7, <1>9, <1>10, <1>11, <1>12
  DEF Next, SyncNext, Environment

(***************************************************************************)
(* While the connections last and nobody else writes, a row is missing     *)
(* from the copy of a table only if the server refuses a row of its batch, *)
(* for every page and batch size, whether one divides the other or not,    *)
(* and however often a table is configured.                                *)
(***************************************************************************)
THEOREM LossesStayInBatches == Spec => []LossStaysInBatch
<1>1. Init => LossInv /\ LossesAccounted
  BY DEF Init, LossInv, LossesAccounted, Scanning
<1>2. LossesAccounted => LossStaysInBatch
  BY DEF LossesAccounted, LossStaysInBatch, Calm, Accounted
<1> QED
  BY <1>1, <1>2, NextLoss, Inductive, TypeCorrect, PTL DEF Spec

------------------------------------------------------------------------------
(* A tracked table with a key is finished or still to be copied: the loop  *)
(* over the tables leaves out none of them, however their copies go.       *)
InHand(t) == t \in finished \/ \E j \in 1 .. Len(todo) : todo[j] = t

TablesInHand ==
  pc # "idle" =>
    /\ pc = "done" => todo = <<>>
    /\ \A i \in 1 .. Len(trackedTables) :
         getPrimaryKeys(trackedTables[i]) # <<>> => InHand(trackedTables[i])

LEMMA HeadOrTail ==
  ASSUME TypeOK, todo # <<>>, NEW t, InHand(t)
  PROVE  \/ t = Current
         \/ t \in finished
         \/ \E j \in 1 .. Len(Tail(todo)) : Tail(todo)[j] = t
<1> SUFFICES ASSUME NEW j \in 1 .. Len(todo), todo[j] = t, j # 1
             PROVE  \E k \in 1 .. Len(Tail(todo)) : Tail(todo)[k] = t
  BY DEF InHand, Current
<1>1. /\ Len(todo) \in Nat /\ Len(Tail(todo)) = Len(todo) - 1
      /\ \A k \in 1 .. Len(Tail(todo)) : Tail(todo)[k] = todo[k + 1]
  BY DEF TypeOK
<1>2. j - 1 \in 1 .. Len(Tail(todo)) /\ Tail(todo)[j - 1] = todo[j]
  BY <1>1
<1> QED
  BY <1>2

LEMMA NextInHand == TypeOK /\ TablesInHand /\ [Next]_vars => TablesInHand'
<1> SUFFICES ASSUME TypeOK, TablesInHand, [Next]_vars PROVE TablesInHand'
  OBVIOUS
<1> USE DEF dbVars, trackerVars, loopVars, historyVars
<1>1. CASE BeginSync
  BY <1>1 DEF BeginSync, TablesInHand, InHand, getPrimaryKeys
<1>2. ASSUME pc = "table" \/ Scanning, todo # <<>>, todo' = Tail(todo), pc' = "table",
             finished \subseteq finished', UNCHANGED trackerVars,
             Current \in finished' \/ getPrimaryKeys(Current) = <<>>
      PROVE  TablesInHand'
  <2>1. ASSUME NEW i \in 1 .. Len(trackedTables), getPrimaryKeys(trackedTables[i]) # <<>>
        PROVE  InHand(trackedTables[i])'
    <3>1. InHand(trackedTables[i])
      BY <1>2, <2>1 DEF TablesInHand, Scanning
    <3> QED
      BY <1>2, <2>1, <3>1, HeadOrTail DEF InHand
  <2> QED
    BY <1>2, <2>1 DEF TablesInHand, getPrimaryKeys
<1>3. CASE SkipTable
  BY <1>2, <1>3 DEF SkipTable
<1>4. CASE SelectNothing \/ AbandonTable
  BY <1>2, <1>4 DEF SelectNothing, AbandonTable, EndTable, Scanning, TypeOK
<1>5. CASE BeginTable
  <2>1. /\ todo # <<>> /\ finished' = finished \ {Current}
        /\ pc = "table" /\ pc' = "select" /\ UNCHANGED <<trackerVars, todo>>
    BY <1>5 DEF BeginTable
  <2>2. Len(todo) \in Nat \ {0} /\ todo[1] = Current
    BY <2>1 DEF TypeOK, Current
  <2>3. \A t : InHand(t) => InHand(t)'
    BY <2>1, <2>2 DEF InHand
  <2> QED
    BY <2>1, <2>3 DEF TablesInHand, getPrimaryKeys
<1>6. CASE EndSync
  BY <1>6 DEF EndSync, TablesInHand, InHand, getPrimaryKeys
<1>7. ASSUME UNCHANGED <<trackerVars, todo, finished>>, pc' = pc \/ (Scanning /\ Scanning')
      PROVE  TablesInHand'
  BY <1>7 DEF TablesInHand, InHand, getPrimaryKeys, Scanning
<1>8. CASE SelectPage \/ RetrySelect \/ MisreadPage
  BY <1>7, <1>8 DEF SelectPage, RetrySelect, MisreadPage, Scanning
<1>9. CASE InsertBatch \/ FailInsert \/ LoseInsertAnswer \/ MisreadInsert
  BY <1>7, <1>9
  DEF InsertBatch, FailInsert, LoseInsertAnswer, MisreadInsert, CountInsertFailure,
      NextBatch, Scanning
<1>10. CASE Environment \/ UNCHANGED vars
  BY <1>7, <1>10
  DEF Environment, LoseLink, LocalDelete, LocalInsert, LocalUpdate, WriteLocal, vars
<1> QED
  BY <1>1, <1>3, <1>4, <1>5, <1>6, <1>8, <1>9, <1>10 DEF Next, SyncNext

------------------------------------------------------------------------------
(***************************************************************************)
(* initialSync implements OneWayCopy, for every value of the constants:    *)
(* the rows in flight are those of the page being inserted.                *)
(***************************************************************************)

LEMMA EmptyTableType == EmptyTable \in TableData
BY DEF EmptyTable, TableData, Row

LEMMA InFlightType ==
  ASSUME TypeOK
  PROVE  InFlight \in [Tables -> TableData]
BY EmptyTableType DEF InFlight, TypeOK

(* What an INSERT does to each row of the hosted tables.                   *)
LEMMA ApplyBatchEffect ==
  ASSUME TypeOK, pc = "insert", ApplyBatch, NEW t \in Tables, NEW k \in Keys
  PROVE  \/ hostedRows'[t][k] = hostedRows[t][k]
         \/ t = Current /\ hostedRows[t][k] = NoRow /\ hostedRows'[t][k] = page[k]
<1>1. Current \in Tables
  BY CurrentType DEF TypeOK, Scanning
<1>2. hostedRows'[t] =
        IF t = Current THEN InsertInto(hostedRows[t], FirstBatch(page)) ELSE hostedRows[t]
  BY <1>1 DEF ApplyBatch, TypeOK
<1>3. FirstBatch(page)[k] \in {page[k], NoRow}
  BY DEF FirstBatch, Slice
<1>4. QED BY <1>2, <1>3 DEF InsertInto

(* The hosted version of a row wins, whatever is copied and retried.       *)
THEOREM HostedRowsNeverChange == Spec => HostedRowsKept
<1> DEFINE Kept == \A t \in Tables, k \in Keys :
                     hostedRows[t][k] # NoRow => hostedRows'[t][k] = hostedRows[t][k]
<1>1. TypeOK /\ [Next]_vars => [Kept]_vars
  <2> SUFFICES ASSUME TypeOK, Next PROVE Kept
    OBVIOUS
  <2>1. CASE InsertBatch \/ LoseInsertAnswer \/ MisreadInsert
    BY <2>1, ApplyBatchEffect DEF InsertBatch, LoseInsertAnswer, MisreadInsert
  <2>2. CASE ~ (InsertBatch \/ LoseInsertAnswer \/ MisreadInsert)
    <3>1. UNCHANGED hostedRows
      BY <2>2 DEF Next, SyncNext, Environment, BeginSync, SkipTable, BeginTable, EndSync,
        SelectPage, SelectNothing, RetrySelect, AbandonTable, MisreadPage, FailInsert, LoseLink,
        LocalInsert, LocalUpdate, LocalDelete, WriteLocal, dbVars
    <3>2. QED BY <3>1
  <2>3. QED BY <2>1, <2>2
<1>2. QED BY <1>1, TypeCorrect, PTL DEF Spec, HostedRowsKept

------------------------------------------------------------------------------
(* Away from INSERT no row is in flight. *)
LEMMA NothingInFlight ==
  ASSUME pc # "insert"
  PROVE  InFlight = [t \in Tables |-> EmptyTable]
BY DEF InFlight

(* A step of the copy that neither starts from nor reaches an INSERT.      *)
LEMMA StutterMaps ==
  ASSUME UNCHANGED <<localRows, hostedRows>>,
         \/ pc # "insert" /\ pc' # "insert"
         \/ UNCHANGED <<pc, todo, page>>
  PROVE  UNCHANGED Copy!vars
<1>1. InFlight' = InFlight
  <2>1. CASE pc # "insert" /\ pc' # "insert"
    BY <2>1 DEF InFlight, EmptyTable
  <2>2. CASE UNCHANGED <<pc, todo, page>>
    BY <2>2 DEF InFlight, Current, EmptyTable
  <2>3. QED BY <2>1, <2>2
<1>2. QED BY <1>1 DEF Copy!vars

LEMMA SelectPageMaps ==
  ASSUME TypeOK, TypeOK', SelectPage
  PROVE  Copy!Read(Current)
<1>1. Current \in Tables /\ Current' = Current
  BY CurrentType DEF TypeOK, Scanning, SelectPage, Current
<1>2. /\ UNCHANGED <<localRows, hostedRows>>
      /\ page' = Literals(SelectResult(localRows[Current], offset))
      /\ pc = "select" /\ pc' = "insert"
  BY DEF SelectPage, dbVars
<1>3. /\ InFlight'[Current] = page'
      /\ \A u \in Tables \ {Current} : InFlight'[u] = InFlight[u]
  BY <1>1, <1>2 DEF InFlight, EmptyTable
<1>4. Copy!PartOf(page', Literals(localRows[Current]))
  BY <1>1, <1>2 DEF Copy!PartOf, Literals, SelectResult, Slice
<1>5. Copy!Literals(localRows[Current]) = Literals(localRows[Current])
  BY DEF Copy!Literals, Literals
<1>6. InFlight' \in [Tables -> Copy!TableData]
  <2>1. InFlight' \in [Tables -> TableData]
    BY <1>1, <1>2, EmptyTableType DEF InFlight, TypeOK, TableData, EmptyTable
  <2>2. QED BY <2>1 DEF TableData, Copy!TableData, Row
<1>7. QED
  BY <1>1, <1>2, <1>3, <1>4, <1>5, <1>6 DEF Copy!Read, Copy!FlightOf

(* The result of a health check brings no row into flight. *)
LEMMA MisreadPageMaps ==
  ASSUME TypeOK, TypeOK', MisreadPage
  PROVE  UNCHANGED Copy!vars
<1>1. InFlight = [t \in Tables |-> EmptyTable]
  BY DEF MisreadPage, InFlight
<1>2. InFlight' = [t \in Tables |-> EmptyTable]
  BY DEF MisreadPage, InFlight, EmptyTable
<1>3. UNCHANGED <<localRows, hostedRows>>
  BY DEF MisreadPage, dbVars
<1>4. QED BY <1>1, <1>2, <1>3 DEF Copy!vars, EmptyTable

(* An INSERT, applied or not, after which the copy goes on or tries again. *)
LEMMA InsertMaps ==
  ASSUME TypeOK, TypeOK', pc = "insert", UNCHANGED <<localRows, todo>>,
         ApplyBatch \/ UNCHANGED hostedRows,
         NextBatch \/ UNCHANGED <<pc, page>>
  PROVE  Copy!Write(Current)
<1>1. Current \in Tables /\ Current' = Current
  BY CurrentType DEF TypeOK, Scanning, Current
<1>2. InFlight[Current] = page /\ \A u \in Tables \ {Current} : InFlight[u] = EmptyTable
  BY <1>1 DEF InFlight
<1>3. hostedRows' \in [Tables -> Copy!TableData]
  BY DEF TypeOK, TableData, Copy!TableData, Row
<1>4. ASSUME NEW u \in Tables, NEW k \in Keys
      PROVE  \/ hostedRows'[u][k] = hostedRows[u][k]
             \/ u = Current /\ hostedRows[u][k] = NoRow /\ hostedRows'[u][k] = InFlight[u][k]
  BY <1>2, ApplyBatchEffect
<1>5. /\ InFlight'[Current] \in {page', EmptyTable}
      /\ \A u \in Tables \ {Current} : InFlight'[u] = EmptyTable
  BY <1>1 DEF InFlight, EmptyTable
<1>6. Copy!PartOf(InFlight'[Current], page)
  <2>1. page' \in {LaterBatches(page), page}
    BY DEF NextBatch
  <2>2. \A k \in Keys : page'[k] \in {page[k], NoRow}
    BY <2>1 DEF LaterBatches
  <2>3. \A k \in Keys : EmptyTable[k] = NoRow
    BY DEF EmptyTable
  <2>4. QED BY <1>5, <2>2, <2>3 DEF Copy!PartOf
<1>7. InFlight' \in [Tables -> Copy!TableData]
  <2>1. page' \in TableData
    BY DEF TypeOK, TableData
  <2>2. InFlight' \in [Tables -> TableData]
    BY <2>1, EmptyTableType DEF InFlight, EmptyTable, TableData
  <2>3. QED BY <2>2 DEF TableData, Copy!TableData, Row
<1>8. Copy!FlightOf(Current, InFlight[Current])
  BY <1>2, <1>5, <1>6, <1>7 DEF Copy!FlightOf
<1>9. QED BY <1>3, <1>4, <1>8 DEF Copy!Write

LEMMA WriteLocalMaps ==
  ASSUME NEW t \in Tables, NEW k \in Keys, NEW row \in Row, WriteLocal(t, k, row)
  PROVE  Copy!Next
<1>1. UNCHANGED InFlight
  BY DEF WriteLocal, loopVars, InFlight, Current, EmptyTable
<1>2. Copy!WriteSource(t, k, row)
  BY <1>1 DEF WriteLocal, Copy!WriteSource
<1>3. QED BY <1>2 DEF Copy!Next, Row

(***************************************************************************)
(* Whatever fails and whatever is retried: what the copy adds to the       *)
(* hosted database was read from the local one in the same table, in the   *)
(* version it had then, and nothing is taken away or changed.              *)
(***************************************************************************)
THEOREM CopyIsOneWay == Spec => ImplementsOneWayCopy
<1>1. Init => Copy!Init
  <2> SUFFICES ASSUME Init PROVE Copy!Init
    OBVIOUS
  <2>1. InFlight = [t \in Tables |-> [k \in Keys |-> NoRow]]
    BY NothingInFlight DEF Init, EmptyTable
  <2>2. localRows \in [Tables -> TableData] /\ hostedRows \in [Tables -> TableData]
    BY DEF Init
  <2>3. QED BY <2>1, <2>2 DEF Copy!Init, Copy!TableData, TableData, Row
<1>2. TypeOK /\ TypeOK' /\ [Next]_vars => [Copy!Next]_Copy!vars
  <2> SUFFICES ASSUME TypeOK, TypeOK', [Next]_vars
               PROVE  Copy!Next \/ UNCHANGED Copy!vars
    OBVIOUS
  <2>1. CASE BeginSync \/ SkipTable \/ BeginTable \/ EndSync
    BY <2>1, StutterMaps DEF BeginSync, SkipTable, BeginTable, EndSync, dbVars
  <2>2. CASE SelectPage
    <3>1. Current \in Tables
      BY <2>2, CurrentType DEF TypeOK, Scanning, SelectPage
    <3>2. QED BY <2>2, <3>1, SelectPageMaps DEF Copy!Next
  <2>3. CASE SelectNothing \/ RetrySelect \/ AbandonTable
    BY <2>3, StutterMaps DEF SelectNothing, RetrySelect, AbandonTable, EndTable, dbVars
  <2>4. CASE InsertBatch \/ FailInsert \/ LoseInsertAnswer \/ MisreadInsert
    <3>1. /\ pc = "insert" /\ UNCHANGED <<localRows, todo>>
          /\ ApplyBatch \/ UNCHANGED hostedRows
          /\ NextBatch \/ UNCHANGED <<pc, page>>
      BY <2>4 DEF InsertBatch, FailInsert, LoseInsertAnswer, MisreadInsert, CountInsertFailure, dbVars
    <3>2. Current \in Tables
      BY <3>1, CurrentType DEF TypeOK, Scanning
    <3>3. QED BY <3>1, <3>2, InsertMaps DEF Copy!Next
  <2>5. CASE \E d \in Databases : LoseLink(d)
    BY <2>5, StutterMaps DEF LoseLink, loopVars
  <2>6. ASSUME NEW t \in Tables, NEW k \in Keys, LocalDelete(t, k) PROVE Copy!Next
    BY <2>6, WriteLocalMaps DEF LocalDelete, Row
  <2>7. ASSUME NEW t \in Tables, NEW k \in Keys, NEW v \in Versions,
               LocalInsert(t, k, v) \/ LocalUpdate(t, k, v)
        PROVE  Copy!Next
    BY <2>7, WriteLocalMaps DEF LocalInsert, LocalUpdate, Row
  <2>8. CASE MisreadPage
    BY <2>8, MisreadPageMaps
  <2>9. CASE UNCHANGED vars
    BY <2>9, StutterMaps DEF vars, dbVars, loopVars
  <2>10. QED
    BY <2>1, <2>2, <2>3, <2>4, <2>5, <2>6, <2>7, <2>8, <2>9 DEF Next, SyncNext, Environment
<1>3. QED BY <1>1, <1>2, TypeCorrect, PTL DEF Spec, ImplementsOneWayCopy, Copy!Spec
==============================================================================
