----------------------- MODULE ReplicationManagerProofs -----------------------
(***************************************************************************)
(* Proofs about ReplicationManager.  The copy and the discovery are parts  *)
(* of its rounds, so what is proved of InitialSync and of TableTracker is  *)
(* used here of instances of the modules with their proofs.                *)
(***************************************************************************)
EXTENDS ReplicationManager, FiniteSetTheorems, SequenceTheorems, TLAPS

Copying == INSTANCE InitialSyncProofs WITH
             pc <- syncPc, TrackedLists <- {},
             Faults <- Faults \cap {"select", "insert", "link", "race"}

Discovery == INSTANCE TableTrackerProofs WITH
               pc <- trackerPc, connected <- link["local"], Faults <- Faults \cap {"list", "key"}

(* What InitialSync assumes of its constants holds of those of the copy.   *)
LEMMA CopyParameters ==
  /\ Copying!KeysAssumption /\ Copying!RowAssumption /\ Copying!LiteralAssumption
  /\ Copying!UniqueAssumption /\ Copying!ListAssumption /\ Copying!SizeAssumption
  /\ Copying!EnvironmentAssumption
<1>1. \A S : Sync!IsFiniteSet(S) = Copying!IsFiniteSet(S)
  BY Zenon DEF Sync!IsFiniteSet, Copying!IsFiniteSet
<1> QED
  BY <1>1, CopyAssumption
  DEF Copying!KeysAssumption, Copying!RowAssumption, Copying!LiteralAssumption,
      Copying!UniqueAssumption, Copying!ListAssumption, Copying!SizeAssumption,
      Copying!EnvironmentAssumption, Sync!KeysAssumption, Sync!RowAssumption,
      Sync!LiteralAssumption, Sync!UniqueAssumption, Sync!SizeAssumption,
      Sync!EnvironmentAssumption

(* The copy within ReplicationManager is that of InitialSync. *)
LEMMA SyncRank ==
  /\ \A S : Sync!Cardinality(S) = Copying!Cardinality(S)
  /\ \A S, k : Sync!Rank(S, k) = Copying!Rank(S, k)
<1>1. \A S : Sync!Cardinality(S) = Copying!Cardinality(S)
  BY Zenon DEF Sync!Cardinality, Copying!Cardinality
<1> QED
  BY <1>1 DEF Sync!Rank, Copying!Rank

LEMMA SyncRows ==
  /\ \A r : Sync!Present(r) = Copying!Present(r)
  /\ \A r, lo, hi : Sync!Slice(r, lo, hi) = Copying!Slice(r, lo, hi)
  /\ \A r, o : Sync!SelectResult(r, o) = Copying!SelectResult(r, o)
  /\ \A r : Sync!FirstBatch(r) = Copying!FirstBatch(r)
  /\ \A r : Sync!LaterBatches(r) = Copying!LaterBatches(r)
  /\ \A r : Sync!Literals(r) = Copying!Literals(r)
  /\ \A r, q : Sync!Clashes(r, q) = Copying!Clashes(r, q)
  /\ \A r, q : Sync!InsertInto(r, q) = Copying!InsertInto(r, q)
  /\ \A n : Sync!Sums(n) = Copying!Sums(n)
  /\ Sync!EmptyTable = Copying!EmptyTable
  /\ Sync!Databases = Copying!Databases
  /\ Sync!Current = Copying!Current
  /\ Sync!Current' = Copying!Current'
<1>1. \A r : Sync!Present(r) = Copying!Present(r)
  BY DEF Sync!Present, Copying!Present
<1>2. \A r, lo, hi : Sync!Slice(r, lo, hi) = Copying!Slice(r, lo, hi)
  BY <1>1, SyncRank DEF Sync!Slice, Copying!Slice
<1> QED
  BY <1>1, <1>2, SyncRank
  DEF Sync!SelectResult, Sync!FirstBatch, Sync!LaterBatches,
      Sync!Literals, Sync!Clashes, Sync!InsertInto, Sync!Sums,
      Sync!EmptyTable, Sync!Databases, Sync!Current, Copying!SelectResult,
      Copying!FirstBatch, Copying!LaterBatches, Copying!Literals, Copying!Clashes,
      Copying!InsertInto, Copying!Sums, Copying!EmptyTable, Copying!Databases, Copying!Current

(* A step of that copy is a step of InitialSync, ... *)
LEMMA SyncSteps ==
  ASSUME Sync!SyncNext
  PROVE  Copying!SyncNext
<1> USE SyncRows
    DEF Copying!SyncNext, Copying!dbVars, Copying!trackerVars, Copying!historyVars,
        Sync!dbVars, Sync!trackerVars, Sync!historyVars
<1>1. CASE Sync!BeginSync
  BY <1>1 DEF Sync!BeginSync, Copying!BeginSync
<1>2. CASE Sync!SkipTable
  BY <1>2 DEF Sync!SkipTable, Sync!getPrimaryKeys, Copying!SkipTable, Copying!getPrimaryKeys
<1>3. CASE Sync!BeginTable
  BY <1>3 DEF Sync!BeginTable, Sync!getPrimaryKeys, Copying!BeginTable, Copying!getPrimaryKeys
<1>4. CASE Sync!EndSync
  BY <1>4 DEF Sync!EndSync, Copying!EndSync
<1>5. CASE Sync!SelectPage
  BY <1>5 DEF Sync!SelectPage, Copying!SelectPage
<1>6. CASE Sync!SelectNothing
  BY <1>6 DEF Sync!SelectNothing, Sync!EndTable, Copying!SelectNothing, Copying!EndTable
<1>7. CASE Sync!RetrySelect
  BY <1>7 DEF Sync!RetrySelect, Sync!SelectCanFail, Copying!RetrySelect, Copying!SelectCanFail
<1>8. CASE Sync!AbandonTable
  BY <1>8 DEF Sync!AbandonTable, Sync!SelectCanFail, Sync!EndTable,
              Copying!AbandonTable, Copying!SelectCanFail, Copying!EndTable
<1>9. CASE Sync!MisreadPage
  BY <1>9 DEF Sync!MisreadPage, Sync!Blame, Copying!MisreadPage, Copying!Blame
<1>10. CASE Sync!InsertBatch
  BY <1>10 DEF Sync!InsertBatch, Sync!Acceptable, Sync!ApplyBatch,
               Sync!NextBatch, Sync!Blame, Sync!SkippedRows, Copying!InsertBatch,
               Copying!Acceptable, Copying!ApplyBatch, Copying!NextBatch, Copying!Blame,
               Copying!SkippedRows
<1>11. CASE Sync!FailInsert
  BY <1>11 DEF Sync!FailInsert, Sync!InsertCanFail, Sync!Acceptable,
               Sync!CountInsertFailure, Sync!NextBatch, Sync!Blame,
               Copying!FailInsert, Copying!InsertCanFail, Copying!Acceptable,
               Copying!CountInsertFailure, Copying!NextBatch, Copying!Blame
<1>12. CASE Sync!LoseInsertAnswer
  BY <1>12 DEF Sync!LoseInsertAnswer, Sync!Acceptable, Sync!ApplyBatch,
               Sync!CountInsertFailure, Sync!NextBatch, Sync!Blame,
               Sync!SkippedRows, Copying!LoseInsertAnswer, Copying!Acceptable, Copying!ApplyBatch,
               Copying!CountInsertFailure, Copying!NextBatch, Copying!Blame, Copying!SkippedRows
<1>13. CASE Sync!MisreadInsert
  BY <1>13 DEF Sync!MisreadInsert, Sync!Acceptable, Sync!ApplyBatch,
               Sync!NextBatch, Sync!Blame, Copying!MisreadInsert, Copying!Acceptable,
               Copying!ApplyBatch,
               Copying!NextBatch, Copying!Blame
<1> QED
  BY <1>1, <1>2, <1>3, <1>4, <1>5, <1>6, <1>7, <1>8, <1>9, <1>10, <1>11, <1>12, <1>13
     DEF Sync!SyncNext

(* ... and so is what others do meanwhile. *)
LEMMA SyncEnvironment ==
  ASSUME Sync!Environment, UNCHANGED <<trackedTables, tablePrimaryKeys>>
  PROVE  Copying!Environment
<1> USE SyncRows, SyncRank
    DEF Copying!dbVars, Copying!trackerVars, Copying!loopVars, Copying!historyVars, Sync!dbVars,
        Sync!trackerVars, Sync!loopVars, Sync!historyVars
<1>1. ASSUME NEW d \in Copying!Databases, Sync!LoseLink(d) PROVE Copying!LoseLink(d)
  BY <1>1 DEF Copying!LoseLink, Sync!LoseLink
<1>2. ASSUME NEW t, NEW k, NEW row, Sync!WriteLocal(t, k, row) PROVE Copying!WriteLocal(t, k, row)
  BY <1>2 DEF Copying!WriteLocal, Sync!WriteLocal, Copying!Consistent, Sync!Consistent
<1>3. ASSUME NEW t \in Tables, NEW k \in Keys, Sync!LocalDelete(t, k)
      PROVE  Copying!LocalDelete(t, k)
  BY <1>2, <1>3 DEF Copying!LocalDelete, Sync!LocalDelete, Copying!Scanning, Sync!Scanning,
                    Copying!Passed, Sync!Passed
<1>4. ASSUME NEW t \in Tables, NEW k \in Keys, NEW v \in Versions
      PROVE  /\ Sync!LocalInsert(t, k, v) => Copying!LocalInsert(t, k, v)
             /\ Sync!LocalUpdate(t, k, v) => Copying!LocalUpdate(t, k, v)
  BY <1>2 DEF Copying!LocalInsert, Sync!LocalInsert, Copying!LocalUpdate, Sync!LocalUpdate
<1> QED
  BY <1>1, <1>3, <1>4 DEF Copying!Environment, Sync!Environment

------------------------------------------------------------------------------
(* A round takes steps of initialSync or leaves the copy as it is, except  *)
(* when a copy is over and when the process is started again.              *)
RoundInv == Copying!IInv /\ catalog \in Catalogs /\ config \in Configs

(* Steps between copies that touch at most the list of tables *)
LEMMA CopyUntouched ==
  ASSUME Copying!IInv, trackedTables' \in Seq(Tables),
         UNCHANGED <<localRows, hostedRows, link, syncPc, todo, offset, page, attempt,
                     finished, stable, blemish>>
  PROVE  Copying!IInv'
<1>1. Copying!TypeOK'
  BY DEF Copying!IInv, Copying!TypeOK, Copying!Scanning
<1>2. Copying!PassedRowsCovered' /\ Copying!MissingRowExplained'
  BY CopyParameters, Copying!PassedRowsCoveredKept, Copying!MissingRowExplainedKept
<1> QED
  BY <1>1, <1>2 DEF Copying!IInv

(* Steps that end the copy, or begin the next *)
LEMMA CopyOver ==
  ASSUME Copying!IInv, syncPc' \in {"idle", "done"}, finished' \in {finished, {}},
         todo' \in {todo, <<>>}, offset' \in {offset, 0}, page' \in {page, Copying!EmptyTable},
         attempt' \in {attempt, 0},
         link' \in [Copying!Databases -> BOOLEAN], trackedTables' \in {trackedTables, <<>>},
         UNCHANGED <<localRows, hostedRows, stable, blemish>>
  PROVE  Copying!IInv'
<1>1. <<>> \in Seq(Tables) /\ Copying!EmptyTable \in Copying!TableData
  BY DEF Copying!EmptyTable, Copying!TableData, Copying!Row
<1>2. Copying!TypeOK'
  <2>1. trackedTables' \in Seq(Tables) /\ todo' \in Seq(Tables)
    BY <1>1 DEF Copying!IInv, Copying!TypeOK
  <2>2. page' \in Copying!TableData /\ attempt' \in 0 .. MaxAttempts - 1 /\ offset' \in Int
    BY <1>1, CopyParameters DEF Copying!IInv, Copying!TypeOK
  <2>3. finished' \in SUBSET Tables
    BY DEF Copying!IInv, Copying!TypeOK
  <2>4. ~ Copying!Scanning'
    BY DEF Copying!Scanning
  <2> QED
    BY <2>1, <2>2, <2>3, <2>4 DEF Copying!IInv, Copying!TypeOK
<1>3. Copying!PassedRowsCovered' /\ Copying!MissingRowExplained'
  BY CopyParameters, Copying!MissingRowExplainedKept DEF Copying!PassedRowsCovered, Copying!Scanning
<1> QED
  BY <1>2, <1>3 DEF Copying!IInv

LEMMA InitRound == Init => RoundInv
<1> SUFFICES ASSUME Init PROVE RoundInv
  OBVIOUS
<1>1. Copying!EmptyTable \in Copying!TableData /\ Sync!TableData = Copying!TableData
  BY DEF Copying!EmptyTable, Copying!TableData, Copying!Row, Sync!TableData, Sync!Row
<1>2. <<>> \in Seq(Tables)
  OBVIOUS
<1>3. catalog \in Catalogs /\ config \in Configs /\ trackedTables = <<>>
  BY DEF Init, Tracker!Init
<1>4. Copying!TypeOK
  BY <1>1, <1>2, <1>3, SyncRows, CopyParameters DEF Init, Copying!TypeOK, Copying!Scanning,
                                                    Copying!Databases
<1>5. Copying!PassedRowsCovered /\ Copying!MissingRowExplained
  BY DEF Init, Copying!PassedRowsCovered, Copying!MissingRowExplained, Copying!Scanning
<1> QED
  BY <1>3, <1>4, <1>5 DEF RoundInv, Copying!IInv

(* What discovery does to the list of tables. *)
LEMMA DiscoveryTypes ==
  ASSUME RoundInv, Tracker!Discover
  PROVE  trackedTables' \in Seq(Tables) /\ UNCHANGED <<catalog, config>>
<1> USE DEF RoundInv, Copying!IInv, Copying!TypeOK, Tracker!outside, Tracker!trackerVars
<1>1. <<>> \in Seq(Tables)
  OBVIOUS
<1>2. CASE Tracker!StartDiscovery
  BY <1>1, <1>2 DEF Tracker!StartDiscovery
<1>3. CASE Tracker!ListTables
  <2> DEFINE S == Tracker!PublicTables(catalog)
  <2>1. PICK list \in Tracker!SetToSeqs(S) :
          trackedTables' = list /\ UNCHANGED <<catalog, config>>
    BY <1>3 DEF Tracker!ListTables, Tracker!TrackTables
  <2>2. S \subseteq Tables /\ IsFiniteSet(Tables)
    BY TablesAssumption DEF Tracker!PublicTables, TablesKnown
  <2>3. Cardinality(S) \in Nat
    BY <2>2, FS_Subset, FS_CardinalityType
  <2>4. list \in [1 .. Cardinality(S) -> S]
    <3>1. Tracker!Cardinality(S) = Cardinality(S)
      BY Zenon DEF Tracker!Cardinality, Cardinality
    <3> QED
      BY <2>1, <3>1 DEF Tracker!SetToSeqs
  <2> HIDE DEF S
  <2>5. list \in Seq(Tables)
    <3>1. list \in [1 .. Cardinality(S) -> Tables]
      BY <2>2, <2>4
    <3> QED
      BY <2>3, <3>1, SeqDef
  <2> QED
    BY <2>1, <2>5
<1>4. CASE Tracker!FailList \/ Tracker!UseConfigured
  BY <1>1, <1>4, TablesAssumption
  DEF Tracker!FailList, Tracker!UseConfigured, Tracker!TrackTables, TablesKnown
<1>5. CASE Tracker!FindKey \/ Tracker!FailKey \/ Tracker!EndDiscovery
  BY <1>5 DEF Tracker!FindKey, Tracker!FailKey, Tracker!EndDiscovery
<1> QED
  BY <1>2, <1>3, <1>4, <1>5 DEF Tracker!Discover

LEMMA NextRound ==
  ASSUME RoundInv, [Next]_vars
  PROVE  RoundInv'
<1> USE DEF trackerVars, loopVars, syncVars, roundVars
<1>1. Copying!IInv /\ trackedTables \in Seq(Tables)
  BY DEF RoundInv, Copying!IInv, Copying!TypeOK
<1>2. ASSUME UNCHANGED <<syncVars, trackerVars>> PROVE RoundInv'
  BY <1>1, <1>2, CopyUntouched DEF RoundInv
<1>3. CASE \/ StartRound \/ AbortRound
           \/ \E d \in Sync!Databases : Probe(d)
           \/ BeginInitialSync \/ SkipInitialSync
           \/ FetchChanges \/ DrainQueue
  BY <1>2, <1>3 DEF StartRound, Probe, AbortRound, BeginInitialSync,
                    SkipInitialSync, FetchChanges, DrainQueue
<1>4. CASE BeginDiscovery \/ DiscoverTables
  <2>1. Tracker!Discover /\ UNCHANGED syncVars
    BY <1>4 DEF BeginDiscovery, DiscoverTables, Tracker!Discover
  <2> QED
    BY <1>1, <2>1, DiscoveryTypes, CopyUntouched DEF RoundInv
<1>5. ASSUME [Copying!Next]_Copying!vars, UNCHANGED <<catalog, config>> PROVE RoundInv'
  <2>1. Copying!IInv'
    BY <1>1, <1>5, CopyParameters, Copying!NextType, Copying!NextCovered DEF Copying!IInv
  <2> QED
    BY <1>5, <2>1 DEF RoundInv
<1>6. CASE InitialSync
  BY <1>5, <1>6, SyncSteps DEF InitialSync, Copying!Next
<1>7. CASE UNCHANGED <<trackerVars, roundVars>> /\ Sync!Environment
  BY <1>5, <1>7, SyncEnvironment DEF Copying!Next
<1>8. CASE UNCHANGED <<syncVars, roundVars>> /\ Tracker!Migrate
  BY <1>1, <1>8, CopyUntouched
  DEF Tracker!Migrate, Tracker!trackerVars, RoundInv
<1>9. CASE EndInitialSync
  BY <1>1, <1>9, CopyOver DEF EndInitialSync, RoundInv, Copying!IInv, Copying!TypeOK
<1>10. CASE Restart
  <2>1. link' \in [Copying!Databases -> BOOLEAN]
    BY <1>10, SyncRows DEF Restart
  <2> QED
    BY <1>1, <1>10, <2>1, CopyOver, SyncRows DEF Restart, RoundInv
<1>11. CASE UNCHANGED vars
  BY <1>2, <1>11 DEF vars
<1> QED
  BY <1>3, <1>4, <1>6, <1>7, <1>8, <1>9, <1>10, <1>11
  DEF Next, Round, Environment

(* Whatever rounds are aborted, however often the process is killed and    *)
(* started again and the schema migrated: when a copy has come to the end  *)
(* of a table, a row the table held all along is in the hosted table, or   *)
(* its absence is explained.                                               *)
THEOREM RoundsExplainMissingRows == Spec => []CopyExplained
<1>1. Init => RoundInv
  BY InitRound
<1>2. RoundInv /\ [Next]_vars => RoundInv'
  BY NextRound
<1>3. RoundInv => CopyExplained
  BY SyncRows DEF RoundInv, Copying!IInv, Copying!MissingRowExplained, CopyExplained,
     Sync!MissingRowExplained
<1> QED
  BY <1>1, <1>2, <1>3, PTL DEF Spec

------------------------------------------------------------------------------
(* DoneMeansAllTables.  The discovery within ReplicationManager is that of *)
(* TableTracker, ...                                                       *)
LEMMA DiscoveryParameters ==
  Discovery!CatalogAssumption /\ Discovery!ConfigAssumption /\ Discovery!FaultAssumption
<1>1. \A S : Tracker!IsFiniteSet(S) = Discovery!IsFiniteSet(S)
  BY Zenon DEF Tracker!IsFiniteSet, Discovery!IsFiniteSet
<1> QED
  BY <1>1, DiscoveryAssumption
  DEF Discovery!CatalogAssumption, Discovery!ConfigAssumption, Discovery!FaultAssumption,
      Tracker!CatalogAssumption, Tracker!ConfigAssumption

LEMMA DiscoveryQueries ==
  /\ \A S : Tracker!SetToSeqs(S) = Discovery!SetToSeqs(S)
  /\ \A s : Tracker!ToSet(s) = Discovery!ToSet(s)
  /\ \A c : Tracker!PublicTables(c) = Discovery!PublicTables(c)
  /\ \A c, n : Tracker!KeyColumns(c, n) = Discovery!KeyColumns(c, n)
  /\ \A c, n : Tracker!OwnKey(c, n) = Discovery!OwnKey(c, n)
  /\ Tracker!Asked = Discovery!Asked
<1>1. \A S : Tracker!Cardinality(S) = Discovery!Cardinality(S)
  BY Zenon DEF Tracker!Cardinality, Discovery!Cardinality
<1>2. \A S : Tracker!SetToSeqs(S) = Discovery!SetToSeqs(S)
  BY <1>1 DEF Tracker!SetToSeqs, Discovery!SetToSeqs
<1>3. /\ \A s : Tracker!ToSet(s) = Discovery!ToSet(s)
      /\ \A c : Tracker!PublicTables(c) = Discovery!PublicTables(c)
  BY DEF Tracker!ToSet, Discovery!ToSet, Tracker!PublicTables, Discovery!PublicTables
<1>4. \A K : Tracker!ByPosition(K) = Discovery!ByPosition(K)
  BY <1>2 DEF Tracker!ByPosition, Discovery!ByPosition
<1>5. \A c, n : Tracker!KeyConstraints(c, n) = Discovery!KeyConstraints(c, n)
  BY DEF Tracker!KeyConstraints, Discovery!KeyConstraints, Tracker!SchemaOf, Discovery!SchemaOf,
         Tracker!TableOf, Discovery!TableOf
<1>6. \A c, n : Tracker!KeyColumns(c, n) = Discovery!KeyColumns(c, n)
  BY <1>4, <1>5 DEF Tracker!KeyColumns, Discovery!KeyColumns
<1>7. \A c, n : Tracker!OwnKey(c, n) = Discovery!OwnKey(c, n)
  BY DEF Tracker!OwnKey, Discovery!OwnKey, Tracker!TableNamed, Discovery!TableNamed
<1>8. Tracker!Asked = Discovery!Asked
  BY <1>3 DEF Tracker!Asked, Discovery!Asked
<1> QED
  BY <1>2, <1>3, <1>6, <1>7, <1>8

LEMMA DiscoverySteps ==
  ASSUME Tracker!Discover \/ Tracker!Migrate
  PROVE  Discovery!Next
<1> USE DiscoveryQueries
    DEF Tracker!outside, Tracker!trackerVars, Discovery!outside, Discovery!trackerVars,
        Tracker!TrackTables, Discovery!TrackTables
<1>1. CASE Tracker!StartDiscovery
  BY <1>1 DEF Tracker!StartDiscovery, Discovery!StartDiscovery, Discovery!Next, Discovery!Discover
<1>2. CASE Tracker!ListTables
  BY <1>2 DEF Tracker!ListTables, Discovery!ListTables, Discovery!Next, Discovery!Discover
<1>3. CASE Tracker!FailList
  BY <1>3 DEF Tracker!FailList, Discovery!FailList, Discovery!Next, Discovery!Discover
<1>4. CASE Tracker!UseConfigured
  BY <1>4 DEF Tracker!UseConfigured, Discovery!UseConfigured, Discovery!Next, Discovery!Discover
<1>5. CASE Tracker!FindKey
  BY <1>5 DEF Tracker!FindKey, Discovery!FindKey, Discovery!Next, Discovery!Discover
<1>6. CASE Tracker!FailKey
  BY <1>6 DEF Tracker!FailKey, Discovery!FailKey, Discovery!Next, Discovery!Discover
<1>7. CASE Tracker!EndDiscovery
  BY <1>7 DEF Tracker!EndDiscovery, Discovery!EndDiscovery, Discovery!Next, Discovery!Discover
<1>8. CASE Tracker!Migrate
  BY <1>8 DEF Tracker!Migrate, Discovery!Migrate, Discovery!Next
<1> QED
  BY <1>1, <1>2, <1>3, <1>4, <1>5, <1>6, <1>7, <1>8 DEF Tracker!Discover

(* ... the copy comes to the end of every table tracked, and in between    *)
(* the list of tables and their keys stay as the discovery left them.      *)
Informed == phase = "sync" \/ (phase = "discover" /\ trackerPc = "idle")

DoneInv ==
  /\ Discovery!TypeOK /\ Discovery!TablesFound /\ Copying!TablesInHand
  /\ trackerPc # "idle" => phase = "discover"
  /\ syncPc # "idle" => phase = "sync"
  /\ Informed /\ Discovery!Calm => Tracker!ToSet(trackedTables) = Tracker!Asked

LEMMA InitDone == Init => DoneInv
<1> SUFFICES ASSUME Init PROVE DoneInv
  OBVIOUS
<1>1. /\ trackerPc = "idle" /\ syncPc = "idle" /\ phase = "asleep" /\ next = 1
      /\ catalog \in Catalogs /\ config \in Configs /\ seen = {catalog}
      /\ troubled = FALSE /\ trackedTables = <<>>
  BY DEF Init, Tracker!Init
<1>2. Discovery!TypeOK
  <2>1. trackedTables \in Seq(Seq(STRING))
    BY <1>1
  <2>2. troubled \in BOOLEAN
    BY <1>1, Zenon
  <2> QED
    BY <1>1, <2>1, <2>2 DEF Discovery!TypeOK
<1>3. Discovery!TablesFound
  BY <1>1 DEF Discovery!TablesFound
<1>4. Copying!TablesInHand
  BY <1>1 DEF Copying!TablesInHand
<1> QED
  BY <1>1, <1>2, <1>3, <1>4 DEF DoneInv, Informed

(* Steps that leave the tracker alone *)
LEMMA DiscoveryKept ==
  ASSUME DoneInv, UNCHANGED trackerVars
  PROVE  /\ Discovery!TypeOK' /\ Discovery!TablesFound'
         /\ Discovery!Calm' <=> Discovery!Calm
         /\ Tracker!Asked' = Tracker!Asked
BY DEF DoneInv, trackerVars, Discovery!TypeOK, Discovery!TablesFound, Discovery!Calm,
       Discovery!Findable, Discovery!getPrimaryKeys, Discovery!Asked, Tracker!Asked

LEMMA InHandKept ==
  ASSUME Copying!TablesInHand,
         UNCHANGED <<trackedTables, tablePrimaryKeys, syncPc, todo, finished>>
  PROVE  Copying!TablesInHand'
BY DEF Copying!TablesInHand, Copying!InHand, Copying!getPrimaryKeys

LEMMA DiscoveryDone ==
  ASSUME DoneInv, Tracker!Discover, UNCHANGED <<syncVars, health, initialSyncDone, queue>>,
         \/ phase = "decide" /\ Tracker!StartDiscovery
         \/ phase = "discover" /\ trackerPc # "idle",
         phase' = "discover"
  PROVE  DoneInv'
<1>1. Discovery!TypeOK' /\ Discovery!TablesFound'
  BY DiscoveryParameters, DiscoverySteps, Discovery!NextTypes, Discovery!NextFound DEF DoneInv
<1>2. syncPc = "idle" /\ syncPc' = "idle"
  BY DEF DoneInv, syncVars, loopVars
<1>3. Copying!TablesInHand'
  BY <1>2 DEF Copying!TablesInHand
<1>4. ASSUME trackerPc' = "idle", Discovery!Calm'
      PROVE  Tracker!ToSet(trackedTables') = Tracker!Asked'
  <2>1. Tracker!EndDiscovery
    BY <1>4 DEF DoneInv, Tracker!Discover, Tracker!StartDiscovery, Tracker!ListTables,
                Tracker!FailList, Tracker!UseConfigured, Tracker!TrackTables, Tracker!FindKey,
                Tracker!FailKey
  <2>2. trackerPc = "keys" /\ UNCHANGED <<catalog, config, trackedTables, seen, troubled>>
    BY <2>1 DEF Tracker!EndDiscovery, Tracker!outside
  <2>3. Discovery!Calm
    BY <1>4, <2>2 DEF Discovery!Calm
  <2>4. Tracker!ToSet(trackedTables) = Tracker!Asked
    BY <2>2, <2>3, DiscoveryQueries DEF DoneInv, Discovery!TablesFound
  <2> QED
    BY <2>2, <2>4 DEF Tracker!Asked
<1> QED
  BY <1>1, <1>2, <1>3, <1>4 DEF DoneInv, Informed

LEMMA NextDone ==
  ASSUME RoundInv, DoneInv, [Next]_vars
  PROVE  DoneInv'
<1> USE DEF loopVars, syncVars, roundVars
<1>1. ASSUME UNCHANGED <<syncVars, trackerVars>>,
             \/ phase' = phase
             \/ trackerPc = "idle" /\ phase \notin {"sync"} /\ phase' \notin {"sync", "discover"}
             \/ AfterDiscovery /\ phase' = "sync"
      PROVE  DoneInv'
  BY <1>1, DiscoveryKept, InHandKept DEF DoneInv, Informed, trackerVars, AfterDiscovery
<1>2. CASE \/ StartRound \/ AbortRound
           \/ \E d \in Sync!Databases : Probe(d)
           \/ BeginInitialSync \/ SkipInitialSync
           \/ FetchChanges \/ DrainQueue
  BY <1>1, <1>2
  DEF StartRound, Probe, AbortRound, BeginInitialSync, SkipInitialSync, AfterDiscovery,
      FetchChanges, DrainQueue, DoneInv, Sync!Databases
<1>3. CASE BeginDiscovery \/ DiscoverTables
  BY <1>3, DiscoveryDone DEF BeginDiscovery, DiscoverTables, Tracker!Discover
<1>4. ASSUME Copying!Next, UNCHANGED <<trackerVars, roundVars>>,
             syncPc' # "idle" => phase = "sync"
      PROVE  DoneInv'
  <2>1. Copying!TypeOK
    BY DEF RoundInv, Copying!IInv
  <2>2. Copying!TablesInHand'
    BY <1>4, <2>1, CopyParameters, Copying!NextInHand DEF DoneInv
  <2> QED
    BY <1>4, <2>2, DiscoveryKept DEF DoneInv, Informed, trackerVars
<1>5. CASE InitialSync
  BY <1>4, <1>5, SyncSteps DEF InitialSync, Copying!Next
<1>6. CASE UNCHANGED <<trackerVars, roundVars>> /\ Sync!Environment
  <2>1. UNCHANGED syncPc
    BY <1>6 DEF Sync!Environment, Sync!LoseLink, Sync!LocalDelete, Sync!LocalInsert,
                Sync!LocalUpdate, Sync!WriteLocal, Sync!loopVars
  <2>2. Copying!Next
    BY <1>6, SyncEnvironment DEF Copying!Next, trackerVars
  <2> QED
    BY <1>4, <1>6, <2>1, <2>2 DEF DoneInv
<1>7. CASE UNCHANGED <<syncVars, roundVars>> /\ Tracker!Migrate
  <2>1. Discovery!TypeOK' /\ Discovery!TablesFound'
    BY <1>7, DiscoveryParameters, DiscoverySteps, Discovery!NextTypes, Discovery!NextFound
    DEF DoneInv
  <2>2. Copying!TablesInHand'
    BY <1>7, InHandKept DEF Tracker!Migrate, Tracker!trackerVars, DoneInv
  <2>3. ~ Discovery!Calm'
    BY <1>7 DEF Tracker!Migrate, Discovery!Calm, Discovery!TypeOK, DoneInv
  <2> QED
    BY <1>7, <2>1, <2>2, <2>3 DEF DoneInv, Tracker!Migrate, Tracker!trackerVars
<1>8. CASE EndInitialSync
  <2>1. Copying!TablesInHand'
    BY <1>8 DEF EndInitialSync, Copying!TablesInHand
  <2> QED
    BY <1>8, <2>1, DiscoveryKept DEF EndInitialSync, DoneInv, Informed, trackerVars
<1>9. CASE Restart
  <2>1. /\ trackerPc' = "idle" /\ syncPc' = "idle" /\ phase' = "asleep" /\ next' = 1
        /\ catalog' \in Catalogs /\ config' \in Configs /\ seen' = {catalog'}
        /\ troubled' = FALSE /\ trackedTables' = <<>>
    BY <1>9 DEF Restart, RoundInv
  <2>2. trackedTables' \in Seq(Seq(STRING)) /\ Len(trackedTables') = 0
    BY <2>1
  <2>3. troubled' \in BOOLEAN
    BY <2>1, Zenon
  <2>4. Discovery!TypeOK'
    BY <2>1, <2>2, <2>3 DEF Discovery!TypeOK
  <2>5. Discovery!TablesFound'
    BY <2>1, <2>2 DEF Discovery!TablesFound
  <2>6. Copying!TablesInHand'
    BY <2>1 DEF Copying!TablesInHand
  <2> QED
    BY <2>1, <2>4, <2>5, <2>6 DEF DoneInv, Informed
<1>10. CASE UNCHANGED vars
  BY <1>1, <1>10 DEF vars
<1> QED
  BY <1>2, <1>3, <1>5, <1>6, <1>7, <1>8, <1>9, <1>10 DEF Next, Round, Environment

(* For every configuration, catalogue and set of tables, and whatever else *)
(* fails: unless the discovery was disturbed, no table asked for that has  *)
(* a key is left out of the copy that is recorded as done.                 *)
THEOREM DoneLeavesOutNothing == Spec => DoneMeansAllTables
<1> DEFINE Complete ==
      \/ troubled \/ seen # {catalog}
      \/ \A t \in Tracker!Asked :
           Len(t) = 2 /\ Tracker!OwnKey(catalog, t) # <<>> => t \in finished
<1>1. ASSUME RoundInv, DoneInv, Next, ~ initialSyncDone, initialSyncDone' PROVE Complete
  <2>1. EndInitialSync
    <3>1. initialSyncDone' # initialSyncDone
      BY <1>1, Zenon
    <3>2. CASE Restart
      BY <1>1, <3>2, Zenon DEF Restart
    <3> QED
      BY <1>1, <3>1, <3>2
      DEF Next, Round, Environment, roundVars, StartRound, Probe, AbortRound, BeginDiscovery,
          DiscoverTables, BeginInitialSync, InitialSync, SkipInitialSync, FetchChanges, DrainQueue
  <2>2. phase = "sync" /\ syncPc = "done" /\ trackerPc = "idle" /\ todo = <<>>
    BY <1>1, <2>1 DEF EndInitialSync, DoneInv, Copying!TablesInHand
  <2> SUFFICES ASSUME Discovery!Calm, NEW t \in Tracker!Asked, Len(t) = 2,
                      Tracker!OwnKey(catalog, t) # <<>>
               PROVE  t \in finished
    BY DEF Discovery!Calm
  <2>3. PICK i \in 1 .. Len(trackedTables) : trackedTables[i] = t
    <3>1. trackedTables \in Seq(Tables) /\ t \in Tracker!ToSet(trackedTables)
      BY <1>1, <2>2 DEF DoneInv, Informed, RoundInv, Copying!IInv, Copying!TypeOK
    <3> QED
      BY <3>1, LenProperties DEF Tracker!ToSet
  <2>4. Discovery!getPrimaryKeys(t) # <<>>
    BY <1>1, <2>2, <2>3, DiscoveryQueries
    DEF DoneInv, Discovery!TablesFound, Discovery!Findable
  <2>5. Copying!InHand(t)
    BY <1>1, <2>2, <2>3, <2>4
    DEF DoneInv, Copying!TablesInHand, Copying!getPrimaryKeys, Discovery!getPrimaryKeys
  <2> QED
    BY <2>2, <2>5, EmptySeq DEF Copying!InHand
<1>2. RoundInv /\ DoneInv /\ [Next]_vars =>
        [~ initialSyncDone /\ initialSyncDone' => Complete]_vars
  BY <1>1
<1>3. Init => RoundInv /\ DoneInv
  BY InitRound, InitDone
<1>4. RoundInv /\ DoneInv /\ [Next]_vars => RoundInv' /\ DoneInv'
  BY NextRound, NextDone
<1> QED
  BY <1>2, <1>3, <1>4, PTL DEF Spec, DoneMeansAllTables
=============================================================================
