----------------------------- MODULE TableTracker -----------------------------
(***************************************************************************)
(* TableTracker: which tables to copy and by which columns to order them.  *)
(* discoverTables() asks the catalogue of the local database, one query    *)
(* for the list of tables and one per table for its primary key; a query   *)
(* that fails is logged and not repeated.  Whoever migrates the schema     *)
(* interleaves with the queries.                                           *)
(*                                                                         *)
(* A name is the sequence of its parts between dots: <<"public", "t">>,    *)
(* or <<"t">> as a configuration may say.                                  *)
(***************************************************************************)
EXTENDS Integers, Sequences, FiniteSets, SequencesExt

CONSTANTS
  Catalogs,  \* what the catalogue of the local database can say
  Configs,   \* the values of auto_fetch and tables in the configuration
  Faults     \* what can fail: the queries "list" and "key", the "link"

(***************************************************************************)
(* A catalogue has the names of its tables, and its constraints.  The name *)
(* of a constraint need not be unique: it is not across schemas.           *)
(***************************************************************************)
ASSUME CatalogAssumption ==
  \A c \in Catalogs :
    /\ IsFiniteSet(c.tables) /\ IsFiniteSet(c.constraints)
    /\ \A t \in c.tables : t \in Seq(STRING) /\ Len(t) = 2
    /\ \A k \in c.constraints :
         /\ k.table \in c.tables
         /\ k.columns \in Seq(STRING)
         /\ k.kind = "PRIMARY KEY" =>
              \A l \in c.constraints : l.kind = k.kind /\ l.table = k.table => l = k
ASSUME ConfigAssumption == \A g \in Configs : g.tables \in Seq(Seq(STRING))
ASSUME FaultAssumption == Faults \subseteq {"list", "key", "link"}

VARIABLES
  connected,         \* is the connection to the local database up?
  catalog,           \* the catalogue of the local database
  config,            \* auto_fetch and tables
  trackedTables,     \* trackedTables_
  tablePrimaryKeys,  \* tablePrimaryKeys_
  pc,                \* where the thread is in discoverTables
  next,              \* the index of the next table of the loop
  seen,              \* history: the catalogues there were during the discovery
  troubled           \* history: has a query of it failed?

trackerVars == <<trackedTables, tablePrimaryKeys, pc, next>>
outside == <<connected, catalog, config>>
vars == <<outside, trackerVars, seen, troubled>>

------------------------------------------------------------------------------
(* Up to the first dot and after it; without a dot, the name and the name. *)
SchemaOf(name) == Head(name)
TableOf(name) == IF Len(name) = 1 THEN name ELSE Tail(name)

PublicTables(c) == {t \in c.tables : t[1] = "public"}

(***************************************************************************)
(* The sequences of columns that the query for the primary key can return: *)
(* constraint_name alone joins key_column_usage, so the columns of every   *)
(* constraint of that name come, in the order of their positions.          *)
(***************************************************************************)
KeyConstraints(c, name) ==
  {k \in c.constraints : /\ k.kind = "PRIMARY KEY"
                         /\ k.table = <<SchemaOf(name)>> \o TableOf(name)}
ByPosition(constraints) ==
  LET rows == UNION {{<<k, i>> : i \in DOMAIN k.columns} : k \in constraints}
      sorted == {s \in SetToSeqs(rows) : \A i, j \in DOMAIN s : i < j => s[i][2] <= s[j][2]}
  IN {[i \in DOMAIN s |-> s[i][1].columns[s[i][2]]] : s \in sorted}
KeyColumns_Unordered(c, name) ==
  UNION {SetToSeqs(ToSet(k.columns)) : k \in KeyConstraints(c, name)}
KeyColumns(c, name) ==
  ByPosition({k \in c.constraints : \E tc \in KeyConstraints(c, name) : tc.name = k.name})

getPrimaryKeys(name) ==
  IF name \in DOMAIN tablePrimaryKeys THEN tablePrimaryKeys[name] ELSE <<>>

(* fetchChanges is a stub: up to three made-up events. *)
FetchedChanges(batchSize) ==
  LET table == IF trackedTables = <<>> THEN <<"public", "sample">> ELSE Head(trackedTables)
  IN [i \in {i \in 1 .. 3 : i <= batchSize} |-> [table |-> table, operation |-> "insert"]]

------------------------------------------------------------------------------
Init ==
  /\ connected = TRUE
  /\ catalog \in Catalogs
  /\ config \in Configs
  /\ trackedTables = <<>>
  /\ tablePrimaryKeys = [n \in {} |-> <<>>]
  /\ pc = "idle"
  /\ next = 1
  /\ seen = {catalog}
  /\ troubled = FALSE

StartDiscovery_KeepKeys ==
  /\ pc = "idle"
  /\ pc' = "list"
  /\ trackedTables' = <<>>
  /\ seen' = {catalog}
  /\ troubled' = FALSE
  /\ UNCHANGED <<outside, tablePrimaryKeys, next>>
StartDiscovery ==
  /\ pc = "idle"
  /\ pc' = "list"
  /\ trackedTables' = <<>>
  /\ tablePrimaryKeys' = [n \in {} |-> <<>>]
  /\ seen' = {catalog}
  /\ troubled' = FALSE
  /\ UNCHANGED <<outside, next>>

TrackTables(list) ==
  /\ trackedTables' = list
  /\ pc' = "keys"
  /\ next' = 1
  /\ UNCHANGED <<outside, tablePrimaryKeys, seen>>

(* The query has no ORDER BY. *)
ListTables ==
  /\ pc = "list"
  /\ config.autoFetch
  /\ connected
  /\ \E list \in SetToSeqs(PublicTables(catalog)) : TrackTables(list)
  /\ UNCHANGED troubled

FailList ==
  /\ pc = "list"
  /\ config.autoFetch
  /\ "list" \in Faults \/ ~ connected
  /\ TrackTables(<<>>)
  /\ troubled' = TRUE

UseConfigured ==
  /\ pc = "list"
  /\ ~ config.autoFetch
  /\ TrackTables(config.tables)
  /\ UNCHANGED troubled

FindKey ==
  /\ pc = "keys"
  /\ next <= Len(trackedTables)
  /\ connected
  /\ LET name == trackedTables[next] IN
       \E columns \in KeyColumns(catalog, name) :
         tablePrimaryKeys' = [n \in DOMAIN tablePrimaryKeys \cup {name} |->
                                IF n = name THEN columns ELSE tablePrimaryKeys[n]]
  /\ next' = next + 1
  /\ UNCHANGED <<outside, trackedTables, pc, seen, troubled>>

FailKey ==
  /\ pc = "keys"
  /\ next <= Len(trackedTables)
  /\ "key" \in Faults \/ ~ connected
  /\ next' = next + 1
  /\ troubled' = TRUE
  /\ UNCHANGED <<outside, trackedTables, tablePrimaryKeys, pc, seen>>

EndDiscovery ==
  /\ pc = "keys"
  /\ next > Len(trackedTables)
  /\ pc' = "idle"
  /\ next' = 1
  /\ UNCHANGED <<outside, trackedTables, tablePrimaryKeys, seen, troubled>>

(* A migration of the local schema. *)
Migrate ==
  /\ \E c \in Catalogs : c # catalog /\ catalog' = c /\ seen' = seen \cup {c}
  /\ UNCHANGED <<connected, config, trackerVars, troubled>>

LoseConnection ==
  /\ "link" \in Faults
  /\ connected
  /\ connected' = FALSE
  /\ UNCHANGED <<catalog, config, trackerVars, seen, troubled>>

Discover ==
  \/ StartDiscovery \/ ListTables \/ FailList \/ UseConfigured
  \/ FindKey \/ FailKey \/ EndDiscovery

Next == Discover \/ Migrate \/ LoseConnection

Spec == Init /\ [][Next]_vars

------------------------------------------------------------------------------
(* The tables that are to be copied. *)
Asked == IF config.autoFetch THEN PublicTables(catalog) ELSE ToSet(config.tables)

(* The key that a table has: a bare name is looked up in public. *)
TableNamed(name) == IF Len(name) = 1 THEN <<"public">> \o name ELSE name
OwnKey(c, name) ==
  LET own == {k \in c.constraints : k.kind = "PRIMARY KEY" /\ k.table = TableNamed(name)}
  IN IF own = {} THEN <<>> ELSE (CHOOSE k \in own : TRUE).columns

Discovered == pc = "idle" /\ seen = {catalog} /\ ~ troubled

UniqueNames(c) == \A k, l \in c.constraints : k.name = l.name => k = l

(* A discovery that nothing disturbed finds for every qualified name the   *)
(* columns of the table's own primary key in key order, if no other        *)
(* constraint anywhere has the name of that key.                           *)
KeysFound ==
  Discovered /\ UniqueNames(catalog) =>
    \A name \in ToSet(trackedTables) :
      Len(name) = 2 => getPrimaryKeys(name) = OwnKey(catalog, name)

(* Whatever fails and whatever is migrated, a key in use was the answer of *)
(* the catalogue some time since this discovery began, never an older one. *)
KeysAreRecent ==
  \A name \in DOMAIN tablePrimaryKeys :
    \E c \in seen : tablePrimaryKeys[name] \in KeyColumns(c, name)

(* "Discover primary keys for each table": of that table and no other.     *)
OwnKeysOnly ==
  Discovered => \A name \in ToSet(trackedTables) :
                  getPrimaryKeys(name) \in {<<>>, OwnKey(catalog, name)}
==============================================================================
