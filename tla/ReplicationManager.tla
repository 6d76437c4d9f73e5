-------------------------- MODULE ReplicationManager --------------------------
(***************************************************************************)
(* ReplicationManager::start(), called by the main loop once an hour: a    *)
(* health check, the discovery of the tables (TableTracker), in the first  *)
(* healthy round of a process the initial copy (InitialSync), and then the *)
(* changes: a stub of the tracker makes some up and the queue drops them.  *)
(* The process can be killed at any time and is then started again, with   *)
(* the two databases as they are.                                          *)
(***************************************************************************)
EXTENDS Integers, Sequences, FiniteSets

CONSTANTS
  Tables, Keys, Versions, NoRow, Literal, Unique, Refused, PageSize, BatchSize, MaxAttempts,
  IntMax, LocalOps, Catalogs, Configs,
  Faults,           \* those of InitialSync and TableTracker, "probe" and "kill"
  ChangeBatchSize   \* sync.batch_size, which only bounds fetchChanges

ASSUME BatchAssumption == ChangeBatchSize \in Int

(* Tables has every name that the discovery of tables can come up with.    *)
TablesKnown ==
  /\ IsFiniteSet(Tables)
  /\ \A c \in Catalogs : c.tables \subseteq Tables
  /\ \A g \in Configs : g.tables \in Seq(Tables)
ASSUME TablesAssumption == TablesKnown

VARIABLES
  localRows, hostedRows, link,                              \* the databases
  catalog, config, trackedTables, tablePrimaryKeys, trackerPc, next, seen, troubled,
  syncPc, todo, offset, page, attempt, finished, stable, blemish,
  phase,            \* where the thread is in start()
  health,           \* the HealthStatus of the round: does each database answer?
  initialSyncDone,  \* initialSyncDone_
  queue             \* q_ of the QueueHandler

trackerVars == <<catalog, config, trackedTables, tablePrimaryKeys, trackerPc, next, seen, troubled>>
loopVars == <<syncPc, todo, offset, page, attempt>>
syncVars == <<localRows, hostedRows, link, loopVars, finished, stable, blemish>>
roundVars == <<phase, health, initialSyncDone, queue>>
vars == <<syncVars, trackerVars, roundVars>>

Tracker == INSTANCE TableTracker WITH
             pc <- trackerPc, connected <- link["local"], Faults <- Faults \cap {"list", "key"}

Sync == INSTANCE InitialSync WITH
          pc <- syncPc, TrackedLists <- {},
          Faults <- Faults \cap {"select", "insert", "link", "race"}

ASSUME CopyAssumption ==
  /\ Sync!KeysAssumption /\ Sync!RowAssumption /\ Sync!LiteralAssumption
  /\ Sync!UniqueAssumption /\ Sync!SizeAssumption /\ Sync!EnvironmentAssumption
ASSUME DiscoveryAssumption == Tracker!CatalogAssumption /\ Tracker!ConfigAssumption

------------------------------------------------------------------------------
(* A process that has just connected to both databases. *)
Init ==
  /\ localRows \in [Tables -> {rows \in Sync!TableData : Sync!Consistent(rows)}]
  /\ hostedRows = [t \in Tables |-> Sync!EmptyTable]
  /\ link = [d \in Sync!Databases |-> TRUE]
  /\ Tracker!Init
  /\ syncPc = "idle"
  /\ todo = <<>>
  /\ offset = 0
  /\ page = Sync!EmptyTable
  /\ attempt = 0
  /\ finished = {}
  /\ stable = [t \in Tables |-> {}]
  /\ blemish = [t \in Tables |-> {}]
  /\ phase = "asleep"
  /\ health = [d \in Sync!Databases |-> FALSE]
  /\ initialSyncDone = FALSE
  /\ queue = <<>>

(* main wakes up and calls start(). *)
StartRound ==
  /\ phase = "asleep"
  /\ phase' = "local"
  /\ health' = [d \in Sync!Databases |-> FALSE]
  /\ UNCHANGED <<syncVars, trackerVars, initialSyncDone, queue>>

(* SELECT 1, and the queries after it, whose failures do not matter. *)
Probe(d) ==
  /\ phase = d
  /\ \E answered \in {link[d], link[d] /\ "probe" \notin Faults} :
       health' = [health EXCEPT ![d] = answered]
  /\ phase' = IF d = "local" THEN "hosted" ELSE "decide"
  /\ UNCHANGED <<syncVars, trackerVars, initialSyncDone, queue>>

(* health.overall *)
Healthy == \A d \in Sync!Databases : health[d]

AbortRound ==
  /\ phase = "decide"
  /\ ~ Healthy
  /\ phase' = "asleep"
  /\ UNCHANGED <<syncVars, trackerVars, health, initialSyncDone, queue>>

BeginDiscovery ==
  /\ phase = "decide"
  /\ Healthy
  /\ phase' = "discover"
  /\ UNCHANGED <<syncVars, health, initialSyncDone, queue>>
  /\ Tracker!StartDiscovery

(* The loops of discoverTables. *)
DiscoverTables ==
  /\ phase = "discover"
  /\ trackerPc # "idle"
  /\ UNCHANGED <<syncVars, roundVars>>
  /\ Tracker!Discover

AfterDiscovery == phase = "discover" /\ trackerPc = "idle"

BeginInitialSync ==
  /\ AfterDiscovery
  /\ ~ initialSyncDone
  /\ phase' = "sync"
  /\ UNCHANGED <<syncVars, trackerVars, health, initialSyncDone, queue>>

InitialSync ==
  /\ phase = "sync"
  /\ syncPc # "done"
  /\ UNCHANGED <<trackerVars, roundVars>>
  /\ Sync!SyncNext

(* initialSync returns void: however it went, it is done. *)
EndInitialSync ==
  /\ phase = "sync"
  /\ syncPc = "done"
  /\ syncPc' = "idle"
  /\ initialSyncDone' = TRUE
  /\ phase' = "fetch"
  /\ UNCHANGED <<localRows, hostedRows, link, todo, offset, page, attempt,
                 finished, stable, blemish, trackerVars, health, queue>>

SkipInitialSync ==
  /\ AfterDiscovery
  /\ initialSyncDone
  /\ phase' = "fetch"
  /\ UNCHANGED <<syncVars, trackerVars, health, initialSyncDone, queue>>

(* QueueHandler::enqueue, for each of the fetched changes. *)
FetchChanges ==
  /\ phase = "fetch"
  /\ queue' = queue \o Tracker!FetchedChanges(ChangeBatchSize)
  /\ phase' = "drain"
  /\ UNCHANGED <<syncVars, trackerVars, health, initialSyncDone>>

(* QueueHandler::drainTo logs each event and drops it: no SQL is executed. *)
DrainQueue ==
  /\ phase = "drain"
  /\ queue' = <<>>
  /\ phase' = "asleep"
  /\ UNCHANGED <<syncVars, trackerVars, health, initialSyncDone>>

------------------------------------------------------------------------------
(* The process is killed, started again, and connects to both databases.   *)
Restart ==
  /\ "kill" \in Faults
  /\ link' = [d \in Sync!Databases |-> TRUE]
  /\ trackedTables' = <<>>
  /\ tablePrimaryKeys' = [n \in {} |-> <<>>]
  /\ trackerPc' = "idle"
  /\ next' = 1
  /\ seen' = {catalog}
  /\ troubled' = FALSE
  /\ syncPc' = "idle"
  /\ todo' = <<>>
  /\ offset' = 0
  /\ page' = Sync!EmptyTable
  /\ attempt' = 0
  /\ finished' = {}
  /\ phase' = "asleep"
  /\ health' = [d \in Sync!Databases |-> FALSE]
  /\ initialSyncDone' = FALSE
  /\ queue' = <<>>
  /\ UNCHANGED <<localRows, hostedRows, catalog, config, stable, blemish>>

Environment ==
  \/ UNCHANGED <<trackerVars, roundVars>> /\ Sync!Environment
  \/ UNCHANGED <<syncVars, roundVars>> /\ Tracker!Migrate
  \/ Restart

Round ==
  \/ StartRound \/ (\E d \in Sync!Databases : Probe(d)) \/ AbortRound
  \/ BeginDiscovery \/ DiscoverTables
  \/ BeginInitialSync \/ InitialSync \/ EndInitialSync \/ SkipInitialSync
  \/ FetchChanges \/ DrainQueue

Next == Round \/ Environment

Spec == Init /\ [][Next]_vars

(* The main thread runs, sleeps end and every statement is answered.       *)
FairSpec == Spec /\ WF_vars(Round)

------------------------------------------------------------------------------
(* What InitialSync promises holds when the copy is a part of the rounds,  *)
(* of a process that is killed and started again, and of a schema that is  *)
(* migrated.                                                               *)
CopyExplained == Sync!MissingRowExplained

(* When the initial copy is recorded as done, for good, it has come to the *)
(* end of every table with a key that the configuration asks for by its    *)
(* qualified name or by auto_fetch, unless the discovery before it was     *)
(* disturbed: then tables may be missing, and no later round copies them.  *)
DoneMeansAllTables ==
  [][~ initialSyncDone /\ initialSyncDone' =>
       \/ troubled \/ seen # {catalog}
       \/ \A t \in Tracker!Asked :
            Len(t) = 2 /\ Tracker!OwnKey(catalog, t) # <<>> => t \in finished]_vars

(* Every round of a process that is not killed comes to its end, although  *)
(* rows are inserted behind the paging loop, unless offset goes round for  *)
(* ever: a table of as many rows as an unsigned int has values is never    *)
(* copied to its end.                                                      *)
RoundsEnd ==
  (phase # "asleep" ~> phase = "asleep") \/ []<><<Sync!WrapsAround>>_vars
==============================================================================
