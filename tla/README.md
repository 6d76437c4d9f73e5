# A TLA+ model of SyncLayer

SyncLayer copies the tables of a *local* PostgreSQL database to a *hosted* one
and answers `GET /health`. It is one process: a main thread that runs a round of
replication every hour, the thread of an HTTP server, and the server's workers.
All of them use the same two libpq connections.

This directory models that process in TLA+, checks it with TLC and proves its
invariants, but for those of recursive functions, with TLAPS. Paths below are those of the repository.

## 1. The system

| component | state | operations | talks to |
|---|---|---|---|
| `main` (`src/main.cpp`) | – | load, `run()` then sleep 1 h, for ever; an exception ends it | Engine |
| `Engine` (`src/core/Engine.cpp`) | `config_`, `logger_`, `replicationManager_` (may be null), `healthServer_` | construct, `run`, destroy | all below |
| `ReplicationManager` (`src/replication/`) | two `DBConnection`s, tracker, queue, `initialSyncDone_` | `start`, `initialSync`, `executeWithRetry`, `healthCheck` | both databases, tracker, queue |
| `TableTracker` (`src/tracker/`) | `trackedTables_`, `tablePrimaryKeys_` | `discoverTables`, `fetchChanges` (a stub), getters | local database |
| `QueueHandler` (`src/queue/`) | `q_` | `enqueue`, `drainTo` (a placeholder: it logs and drops) | – |
| `HealthServer` (`src/health/`) | `running_`, the server thread, a *reference* to Engine's `replicationManager_` | `start`, `stop`, `runServer`, the handler | ReplicationManager, from worker threads |
| `DBConnection` (`src/db/`) | `conn_` | connect (constructor, throws), close | libpq |
| `Retry` (`src/utils/`) | – | `withExponentialBackoff`: three attempts, result ignored | – |
| `Config` (`src/config/`) | the settings | load: environment over file over default | – |
| `Logger`, exceptions | – | formatting | – |
| `httplib.h`, `Server` | listening socket, thread pool, connections | `listen`, `stop`, one `process_request` per request | handlers of HealthServer, on worker threads |
| `httplib.h`, `ClientImpl` | one connection, a request mutex | `send`, redirects, `stop` | not used by the service |

A **round** (`ReplicationManager::start`) is: health check; `discoverTables`; the
first time, `initialSync`; `fetchChanges`; `enqueue` each; `drainTo`. The
**initial copy** pages through each table by `LIMIT 1000 OFFSET n` in key order
and sends each page in batches of 100, `INSERT ... ON CONFLICT DO NOTHING`.

What is hard here:

* every statement is a transaction of its own, while other applications write the
  local database, and `OFFSET` addresses rows by a place that those writers move;
* statements fail, connections die, also *after* the server has committed;
  failures are retried three times, logged, and then passed over;
* the process is killed and started again (`docker/docker-compose.yml:4`), and all
  it remembers is in the hosted tables;
* schemas are migrated between the queries of a discovery;
* worker threads run health checks on the connections the main thread is using,
  without a lock, and use a manager that somebody else destroys;
* the HTTP server hands connections from a listener over a queue to workers, each of
  which reads ahead, keeps connections alive and must neither lose nor leak one;
* what a request says is parsed, decoded, cut, merged and matched in many small
  functions whose results have to agree with each other;
* connection strings are concatenated without quoting, and read by libpq.

What makes each component correct: of the copy, that it adds only rows it read,
keeps what is there, misses none without a reason and ends; of the tracker, that
keys in use are those of the last discovery; of the rounds, that retries and
restarts change none of this and no event is left behind; of the process, that
"healthy" is true, "unhealthy" has a reason, no destroyed manager is used, and
rounds and checks end; of the HTTP server, that every accepted connection has one owner
and is closed, that client and server stay in step, and that `listen` returns after `stop`;
of the client, that no socket is closed under a request and every call returns; of the
values, that decoding inverts encoding and parts agree with the whole; of the
configuration, that libpq connects to what was configured.

## 2. The modules

| module | models | kind |
|---|---|---|
| `InitialSync` | `initialSync` and `executeWithRetry` with the two databases | component |
| `OneWayCopy` | what a one-way copy promises | abstract specification |
| `TableTracker` | `discoverTables` and the catalogue it reads | component |
| `ReplicationManager` | `start()`, with `TableTracker` and `InitialSync` as instances, the queue, crashes | composition |
| `Engine` | `main`, Engine, HealthServer, connections, threads | component |
| `Config` | where settings come from, connection strings and libpq's reading of them | operators |
| `HttpServer` | `httplib::Server`: listener, thread pool, keep-alive, `stop` | component |
| `HttpService` | what the server promises about connections | abstract specification |
| `HttpExchange` | one connection: `process_request` against any client | component |
| `HttpRanges` | a `Range` field, from `parse_range_header` to the pieces that are written | component |
| `HttpFiles` | a target, from its decoding to the file that the system opens for it | component |
| `HttpCodec` | a text on its way through an encoding and the decoding of it | component |
| `HttpText` | codes of one byte, queries, routes, header fields | operators |
| `HttpFormData` | `FormDataParser`, fed chunk by chunk | component |
| `HttpClient` | `httplib::ClientImpl`, shared by threads, and its peers | component |
| `MC...` | values for TLC; `MCValues` joins `HttpRanges`, `HttpFiles`, `HttpCodec`, `HttpFormData`, `HttpText` and `Config` in one run | instances |
| `InitialSyncProofs`, `TableTrackerProofs`, `ReplicationManagerProofs` | theorems about the copy, the discovery and the rounds | proofs |
| `EngineProofs`, `HttpServerProofs`, `HttpExchangeProofs`, `HttpClientProofs`, `HttpValuesProofs` | theorems about the process and `httplib` | proofs |

Operators whose names have a `_` (`Take_EndFirst`) are the forms that a plausible bug would
give a definition; no specification uses them.

### InitialSync

`localRows` and `hostedRows` are the tables, functions from keys to a version or
`NoRow`; `trackedTables` and `tablePrimaryKeys` are the members of the tracker, which
`getTrackedTables` and `getPrimaryKeys` return. `pc`, `todo`, `offset`, `page` and `attempt` are the locals of
`initialSync` and of the retry loop. Actions and code:

| action | code in `ReplicationManager.cpp` |
|---|---|
| `BeginSync`, `SkipTable`, `BeginTable`, `EndSync` | the loop over tables, 23-44, 129-132 |
| `SelectPage`, `SelectNothing` | 46-58: a page, made into literals (61-81), or the end of the table |
| `RetrySelect`, `AbandonTable` | a failed SELECT, 244-258; after the last attempt, 48-52 |
| `InsertBatch` | 82-101 and 104-122: a batch is written, and the loop goes on (126) |
| `FailInsert` | a failed INSERT, also of a batch with a row the server refuses (`Refused`): attempt again, or go on *as if it had succeeded* |
| `MisreadPage`, `MisreadInsert` | a health check on the same `PGconn` (fault "race"): its result is taken for the page, or for the answer to the INSERT, which is then neither repeated nor known to have been executed |
| `LoseInsertAnswer` | the batch is committed and the connection dies before the answer |
| `LoseLink`, `LocalInsert`, `LocalUpdate`, `LocalDelete` | the environment |

Three history variables say what the properties are about: `finished` (tables
whose loop has ended), `stable` (keys a table has held ever since its copy began)
and `blemish` (why rows may be missing). No action of the code reads them.

`offset` is an `int`. Its overflow is undefined, and builds differ: without
optimisation the negative number is printed, which PostgreSQL refuses; with `-O2`
the compiler concludes that the number is never negative and the unsigned one is
printed, which is the right one, up to the values of an `unsigned`: beyond them `offset` goes round to small
ones. `Sums` allows both. `WrapsAround` is the step that makes the unsigned number smaller: only a table with more rows than
it can count, or one that grows as fast as it is copied, has it again and again, and then the loop has no end.
`SyncEnds` and `RoundsEnd` say that nothing else keeps it going.

### TableTracker

`catalog` is what `information_schema` says; a discovery is the list query and one
query per table, each answered by the catalogue of its moment or failing.
`KeyColumns` is the join of the query as it is written, by constraint name alone.
`seen` and `troubled` are histories.

### ReplicationManager

`phase` is the place in `start()`. The steps of `discoverTables` and `initialSync`
are those of the instances `Tracker` and `Sync`, whose variables are shared:
`trackedTables` and `tablePrimaryKeys` are written by the one and read by the other.
`TablesKnown` says that `Tables` has every name of a catalogue or a configuration. `DoneMeansAllTables` is about the
tables that the configuration asks for (`Asked`: its list, or with `auto_fetch` those in `public`). `Restart` is a kill at any point
followed by a start that reaches both databases; only the databases survive it.
The loops of `Sync` go on while applications insert rows, so rounds end under the condition of the copy.

### Engine

`pc` is where `main` is, from loading the configuration to its return; `manager`,
`running` and `server` are the members. `at[th]` is the stage of the check or round
of a thread, `using[th]` the connection it has a PQexec in progress on, and
`spoiled[th]` whether another PQexec overlapped. libpq gives two concurrent PQexec
on one PGconn no defined result: a spoiled one may appear to succeed or fail, and
fairness does not promise that it returns. What the main thread does between its
health check and the end of the round is abstracted to one statement on the local and
one on the hosted connection (`Execute`, `Executed`): to the other threads, longer
rounds are more of the same. A connected database may refuse a statement (fault "probe"). `server` is "closing" from an
accept error (`FailAccept`, `httplib.h:8088`) until the pool has finished what it was serving (`ReturnFromListen`): the only way
in which `listen()` returns after it has served, since nothing stops it. Histories `upAtStart`, `upSince`, `clean` describe
a check: were the connections up, and was no statement spoiled, or refused by a database that was connected?

### HttpServer and HttpService

`listener` is where the thread in `listen()` is: `bind_to_port`, the loop of `listen_internal`
with `accept`, the two halves of `enqueue` (the list under the lock, `notify_one` after it), and
the shutdown of the pool. `at[w]` is where a worker is: waiting on the condition variable, or in
`process_server_socket_core` with the connection `serving[w]`. A critical section of the pool's mutex
is one step; that `notify_one` comes after it is two. `svrSock` is `svr_sock_`, which `stop()` sets
to invalid and which an accept error closes without resetting. `stop()` does nothing before `is_running_` is set, which is
after the socket was bound (8058): a stop in between is lost. `stuck` are workers
whose handler never returns. Clients connect, ask and leave as they like.

`HttpService` has a line of connections and those that are served; the refinement maps to the line
the queue and the connection that the listener holds.

### HttpExchange

A client sends the requests of one of `Scripts` (sequences of `Requests`), cut into pieces (request line, header block, units of
content, trailer lines), patiently or ahead, and may stop anywhere. Trailer lines it may send without end (`SendField`). The worker goes through `process_request`: `Fill` and
`buffer` are the read-ahead of `SocketStream`, thrown away by `Return`; `ReadLine` to `Expect`
are request line, headers and what is decided from them; `ReadLength`, `ReadChunks`, `ReadTrailer`,
`ReadAll` are the ways to read content (`ReadTrailer` a line at a time, since only lines that the head announced count
against a limit), and `SkipContent` is that of a DELETE without length, which is not read; `Dispatch` is routing and the handler; `Respond` is
`write_response_core`, whose body may be cut by its provider or by `stop()`. Content that nobody
reads (`LeftUnread`: an early handler, a method without content) is taken for a request line (`mixed`).

### HttpClient

`call[t]` is where a thread is in `send()`, and its locals; `depth` counts the sends on its stack, one
for the request and one for each redirect to the same host. `holder` is `request_mutex_`;
`socket_mutex_` is held within single steps only. `Stop` is `stop()` of any thread. Socket numbers are
reused at once. The peer of a connection answers at its leisure, or leaves: as many `100 Continue` as it likes, a head, and a body with a length, in
chunks with a last one and trailer lines, or until it leaves (`ReadBody`, `ReadTrailer`). After the last chunk, that nothing
comes in time is a success (`EndLate`, `httplib.h:4894`): what comes later is on a connection that may be kept.
A redirect to another host is made by a client of its own, of which only the result is modelled (`RedirectElsewhere`).

### HttpRanges

One request with a `Range` field, `request.header`, the sequence of what its commas separate. The loops
of the code are steps: `ReadPart` is an iteration of `parse_range_header`, which ends in `EndHeader` or
`RejectHeader`; `Handle` is the return of the handler with the status it set or left to the server;
`RejectRanges`, `AcceptRanges` and `LeaveRanges` are the three outcomes of `range_error`, of which the second
normalises the ranges in place and sorts them; `Coalesce` is an iteration of `coalesce_ranges`, and `Respond` writes. An
answer is its status, the length it announces (`apply_ranges`) and the pieces that are written
(`write_content_with_provider`, which looks at the ranges again). `std::sort` is not stable, so `SortedByFirst`
leaves the order of ranges with the same first byte open. `range_error` counts overlaps while it
normalises; nothing is read in between, so `Normalised` and `RangeError` do one after the other.

### HttpFiles

`target` is what the client sent, as bytes. `DecodeTarget` is an iteration of `decode_path_component` over it, without
fragment and query. In the loop over `base_dirs_` (`SkipMount`, `EnterMount`, `EndMounts`) the path below
a mount point goes through `is_valid_path`, a component at a time (`SkipSlash`, `ReadComponent`, `RejectPath`), with `level`
as in the code; `AcceptPath` appends `index.html` to what ends with a slash. Then the operating system
reads the name for itself, up to a zero byte (`WalkSlash`, `WalkComponent`), `depth` levels below the directory, and finds
a file or directory (`Found`), nothing (`NotFound`, the next mount is tried) or something that cannot be mapped
(`NotOpened`). There are no symbolic links, and the `stat` of `is_file` and the `open` after it see the same file.

### HttpCodec

`codec` chooses one of the four pairs of functions, `plain` is what is encoded, `coded` and `decoded` are the
results so far, and `cursor` is the index of the loop; `EncodeByte` and `DecodeCode` are its iterations. What one byte is
encoded as and what one code is decoded as are operators of `HttpText`, which `HttpFiles` uses too.

### Values

`HttpText` has the codes of single bytes, queries, `PathParamsMatcher`, header fields and `Accept`, with recursive
functions for what runs over a text. `HttpFormData` is the state machine of `FormDataParser` over buffer and chunks.
`Config` is `Config::loadFromFile` with `makeConn`, and (external) the grammar with which libpq reads a connection
string. Characters are bytes or one-letter strings; of those the code does not treat differently, one or two
stand for all. Operators that are declared RECURSIVE are in `HttpFormData` and `Config` only, which no theorem uses.

## 3. The runs

Passing runs:

| run | bounds | shows |
|---|---|---|
| `sync_pages` | 1 table, 3 keys, 2 versions (one garbled, one unique), pages of 2, batches of 1, 2 attempts, `IntMax` 2 | `TypeOK`, `MissingRowExplained`, `PassedRowsCovered`, `ImplementsOneWayCopy`, `SyncEnds`, with failures, races with a health check, inserts, updates and deletes |
| `sync_refused` | 4 keys, pages of 3, batches of 2, 3 attempts, rows that the server refuses, connections that die | `LossStaysInBatch` |
| `tracker` | 3 catalogues, 3 configurations | `KeysFound`, `KeysAreRecent` under failures and migrations |
| `rounds` | 1 table, 4 keys, pages and batches of 1, `IntMax` 1 (so that `offset` goes round after 4 rows), inserts, migration, kills, failing lists and probes | `CopyExplained`, `DoneMeansAllTables`, `RoundsEnd` |
| `process` | main and 2 workers, every failure, also of `accept` and of statements on live connections | `ManagerOutlivesChecks`, `HealthyMeansConnected`, `AlarmsExplained`, `RoundsEnd`, `ChecksEnd` |
| `http_server` | 2 connections, 2 workers, a queue of 1, 2 answers per connection | `OneOwner`, `NothingOutlivesListen`, `NoLostWakeup`, `ConnectionsEnd`, `StopReturns`, `ImplementsService` |
| `http_exchange` | 2 requests, 3 answers, content up to 3 units with 2 allowed, trailer lines while less than 2 pieces are on the wire | `InStep`, `AnswersInOrder`, `LastIsLast`, `NoMutualWait`, `ConversationEnds` |
| `http_client` | 2 threads, 2 socket numbers, 2 calls, 1 redirect, 1 stop, 2 pieces of answers on the wire | `SocketsOwned`, `FreshExchange`, `ShutIsClosed`, `CallsEnd` |
| `values` | 1 to 5 ranges with `MaxRanges` 4, positions 0 to 3 and open ones, contents of 0 to 6 bytes, four statuses; targets of up to 4 fragments and two mount points; texts of up to 3 of 9 bytes for the codecs; forms of up to 2 entries in chunks of up to 3; patterns of up to 3 segments; 3 settings of 8 words | `AskedBytesServed`, `LengthIsTold`, `DecodingInverts`, `FilesStayInside`, `RoutesMatch`, `FieldsSurvive`, `FormsRead`, `ChunkingIrrelevant`, `ConnectsAsConfigured` |

Why these bounds. Three keys with pages of two and batches of one give a full page of two batches, a
partial one, an empty one, a boundary that a delete can move, and an offset that overflows inside the
table; the initial databases are arbitrary, as after an earlier copy. In `rounds` the table has as many rows as an `unsigned` of
its width has values, so that rows can be inserted until `offset` goes round. The one unique column besides the key is
in `sync_pages` that of the values that arrive as NULL; clashes in other columns are in no run, but in the theorems about the
copy, which are for any `Unique`. A dying connection (fault "link") is left
to `sync_refused` and `rounds`: to the copy it is a statement that fails for ever or an answer that is lost, both
in `sync_pages`. Two attempts have a first and a last one; `sync_refused` makes three, like the code.
Two workers and main are the fewest with which a connection has more users than a check of one's own.
One catalogue has the same constraint name in two schemas, one a composite key, one a table without key.
Two connections and a queue of one fill the queue while a worker is busy, and two workers can both
sleep or both be stuck. `MaxAhead` and `MaxWire` limit how much is sent ahead, and not how much in all: trailer lines, pieces of
bodies and interim answers go on for ever in these runs. Two requests have a next one, which is what can go wrong with the first; a
third answer is reached by errors that are not requests. Two socket numbers let the system reuse one while
the other is open, and two calls of two threads overlap on the mutex. Four ranges allow three overlaps, where the
code refuses, and five are too many; `HeaderMax`, `MaxEntries` and `MaxRanges` are the limits of the code
made small.

Violation runs show where the code does not do what its documentation or comments say:

| run | the code | the claim |
|---|---|---|
| `find_offset` | a delete moves the page boundary, and a row that was always there is never read (`ReplicationManager.cpp:46`) | `README.md:8,10` |
| `find_keys` | key columns of two tables are mixed when constraints share a name (`TableTracker.cpp:39`) | comment at 33 |
| `find_exit` | an exception never ends the process: the destructor joins a server that nobody stops (`HealthServer.cpp:28`) | `main.cpp:33`, `docker-compose.yml:4` |

Divergences seen while modelling that have no run of their own:

* after the copy nothing is ever replicated: `fetchChanges` makes events up and `drainTo` drops them
  (`TableTracker.cpp:71`, `QueueHandler.cpp:15`, against `README.md:10`);
* a disturbed discovery makes the only initial copy one of too few tables, or none
  (`ReplicationManager.cpp:151`): the excuse in `DoneMeansAllTables`;
* overlapping statements can make a connected database "unhealthy" (`ReplicationManager.cpp:176`, against
  `README.md:225`): the excuse in `AlarmsExplained`; and can cost rows of the copy: reason "mixed";
* a connection is never made again once lost, or missed at start (`DBConnection.cpp:9`, against
  `README.md:33` "Retry logic, error handling, and graceful degradation");
* `totalRows` counts rows whose INSERT failed (`ReplicationManager.cpp:125`);
* a configured table name without schema finds no key (`TableTracker.cpp:35`);
* `SYNC_TABLES` (`.example.env:15`) is never read, although `README.md:139` says that all options
  can be overridden with environment variables; `interval_seconds` is only logged, as the loop sleeps an
  hour (`main.cpp:27`);
* an empty password, the default, makes libpq read `dbname=...` as the password (`Config.cpp:43`):
  `ConnectsAsConfigured` says for which values the string means what it should;
* in `httplib.h`, an error is answered with "Connection: close" under the comment "Don't leave
  connections open after errors" (7731), but the connection stays open: the excuse in `LastIsLast`;
* a handler for `Expect` that returns 417 has the request answered twice (8494): the exception in
  `AnswersInOrder`;
* in `httplib.h`, a `stop()` between the binding of the socket and `is_running_` (7633, 8058) is lost, and `listen()` runs
  on: `StopReturns` speaks of a stop that closed the socket;
* trailer lines that the head of a request did not announce are read without limit (4932), so a client can
  hold a worker for ever: the exception in `ConversationEnds`. A client is held likewise by a server that never ends its interim answers
  (8809), its body or its trailer lines: the exception in `CallsEnd`;
* an answer in chunks whose final CRLF is late is a success (4894), and on a kept connection the late line is what the next
  request reads instead of its head: that request fails, which is what remains of it in `FreshExchange`. On the
  server's side it is the blemish "late" of `InStep`, and the client gets an error for its next request;
* a POST without length is read to the end of the connection (4811): a client that awaits the answer and the server wait for each
  other until the time limit, and the answer is 400: the exception in `NoMutualWait`;
* a copy whose table grows as fast as it is copied has no end, and one of more than 2^32 rows none either, where the build prints
  the unsigned number (`ReplicationManager.cpp:45,126`): the exceptions in `SyncEnds` and `RoundsEnd`;
* `stop()` during a request whose redirect begins afterwards is forgotten for that request (8839);
  `ShutIsClosed` says what remains of it.

### Fairness

`InitialSync` and `ReplicationManager` assume that their one thread runs and that each
statement is answered, with success or failure (`WF_vars(SyncNext)`, `WF_vars(Round)`):
the loops contain nothing else that waits. The code sets no time limit on statements,
so without this assumption nothing ends. Nothing of the environment is fair: not the
writers, not failures, not success. In `Engine` threads are fair as long as no other thread has spoiled their
statement, and the server thread (but for failing to accept) and the container runtime are. Requests, failures and kills are not.

In `HttpServer` the listener and each worker are fair, as threads of the system are: what they wait for
is in the guards, and a handler that does not return is a choice (`stuck`), under which the liveness
properties exempt what it holds. Clients and `stop()` are not fair. In `HttpExchange` the worker is
fair, since every read ends by its time limit (`CPPHTTPLIB_SERVER_READ_TIMEOUT_SECOND`) if not before; the client is
not. In `HttpClient` each thread is fair, by the same limits, also in waiting for the mutex: there are
finitely many calls, so no thread can be passed over for ever but by a call that never returns (`GoesOn`). The peers and `stop()` are not.

The runs with `CHECK_DEADLOCK FALSE` are those of `InitialSync`, which stops when the
copy is done, of `HttpExchange`, which stops when its connection is closed, of `HttpClient`, which
has a number of calls, and of `MCValues`, whose behaviours end with the value or the request they are about. The other systems never stop.

## 4. The theorems

| module | theorem | says |
|---|---|---|
| `InitialSyncProofs` | `TypeCorrect` | `Spec => []TypeOK` |
| | `MissingRowsExplained` | `Spec => []MissingRowExplained` |
| | `PassedRowsAreCovered` | `Spec => []PassedRowsCovered` |
| | `LossesStayInBatches` | `Spec => []LossStaysInBatch` |
| | `HostedRowsNeverChange` | `Spec => HostedRowsKept` |
| | `CopyIsOneWay` | `Spec => Copy!Spec`: `InitialSync` implements `OneWayCopy` |
| `TableTrackerProofs` | `KeysRecent` | `Spec => []KeysAreRecent` |
| | `UndisturbedFindsKeys` | `Spec => []KeysFound` |
| `ReplicationManagerProofs` | `RoundsExplainMissingRows` | `Spec => []CopyExplained` |
| | `DoneLeavesOutNothing` | `Spec => DoneMeansAllTables` |
| `EngineProofs` | `TypeCorrect` | `Spec => []TypeOK` |
| | `ChecksHaveManager` | `Spec => []ManagerOutlivesChecks` |
| | `HealthyAnswersAreTrue` | `Spec => []HealthyMeansConnected` |
| | `AlarmsHaveReasons` | `Spec => []AlarmsExplained` |
| `HttpServerProofs` | `EveryConnectionOwned` | `Spec => []OneOwner` |
| | `ListenEndsAll` | `Spec => []NothingOutlivesListen` |
| | `NoWorkerOversleeps` | `Spec => []NoLostWakeup` |
| | `ServesInOrder` | `Spec => ImplementsService`: `HttpServer` implements `HttpService` |
| `HttpExchangeProofs` | `StaysInStep` | `Spec => []InStep` |
| | `AnswersKeepOrder` | `Spec => []AnswersInOrder` |
| | `ClosingIsKept` | `Spec => []LastIsLast` |
| | `NeverBothWait` | `Spec => []NoMutualWait` |
| `HttpClientProofs` | `TypeCorrect` | `Spec => []TypeOK` |
| | `RequestsOwnSockets` | `Spec => []SocketsOwned` |
| | `RequestsAreFresh` | `Spec => []FreshExchange` |
| `HttpValuesProofs` | `AskedAreServed` | `RangesSpec => []AskedBytesServed` |
| | `LengthsAreTold` | `RangesSpec => []LengthIsTold` |
| | `FilesAreInside` | `FilesSpec => []FilesStayInside` |
| | `DecodingGivesBack` | `CodecSpec => []DecodingInverts` |

They hold for all tables, finite sets of keys, page and batch sizes, attempts, widths of
`int`, catalogues, configurations, failures, scripts of requests and limits, and any finite set of workers,
threads, connections and sockets, and for all headers, contents, targets, mount points and texts of bytes, of any length, from the named `ASSUME`s of the modules they are about. Those are
statements about the parameters: TLC evaluates them in the runs. Those that are more than a type are
`CatalogAssumption` (PostgreSQL: a table has at most one primary key, a constraint's table exists),
`UniqueAssumption` (a value sent as NULL violates no unique column) and `TablesKnown`.

### The copy

*MissingRowsExplained* and *PassedRowsAreCovered.* The property speaks of finished tables and is not
inductive. The invariant is `IInv == TypeOK /\ PassedRowsCovered /\ MissingRowExplained`:
`PassedRowsCovered` says that in an unblemished copy each stable row whose *rank* in
the current local table is at most `Passed` is in the hosted table or on the page. Inserts
elsewhere only raise ranks; a delete lowers them, and if it is at a rank the copy is past
it is a blemish, otherwise the ranks within `Passed` do not change. SELECT returns
exactly the ranks from `offset + 1` to `offset + PageSize`, an empty page means that
every rank is at most `offset` (`RankNoGap`), and an overflowed offset
is never larger than the true one.

*LossesStayInBatches.* Here it matters where batches begin, which `PassedRowsCovered` does not say.
`LossInv` adds `Aligned`: `offset` is a multiple of `PageSize`, the page is what is behind a number of whole
batches of it, and all rows before are hosted or have a refused row in their batch (`Accounted`).
`RankShift` relates the place of a row on the page to its place in the table, `Division` the place in the table
to the batch. `Aligned` is lost when `offset` wraps around an `int`, after which pages begin in the
middle of batches; the invariant then says why this does no harm: either the number is negative and the
table is given up as unread, or there are rows behind the widest offset and the copy never comes to their
end, or all rows had been passed before.

*CopyIsOneWay.* The refinement maps `inFlight` to the page of the current table. Each step of the copy is
a `Read`, a `Write` of part of what is in flight, a write of the source, or a stutter.

### The discovery and the rounds

*UndisturbedFindsKeys.* `KeysSoFar`: as long as the catalogue is the one and only `seen` and no query has
failed, every key found is the table's own, and every table before `next` has one. What a query returns
is a sorted sequence of the columns (`ByPosition`); that there is only one, `SortedIsIdentity`, is proved by counting, not by
induction. *KeysRecent* needs only that `tablePrimaryKeys` is cleared when a discovery begins.

`ReplicationManagerProofs` instantiates the modules with the proofs about the copy and about the discovery
(`Copying` and `Discovery`) with the substitutions of `Sync` and `Tracker`. Their lemmas come with the assumptions
of those modules about the constants as they are in the rounds; `CopyParameters` and `DiscoveryParameters` prove
them from `CopyAssumption` and `DiscoveryAssumption`, which TLC evaluates in `rounds`.

*RoundsExplainMissingRows.* A step of the copy within a round is a step of `InitialSync`;
a discovery changes only the tracker's variables while no copy is going on; a start of a new process empties
`finished`. So the lemmas about single steps of `InitialSync` apply to each step of a round, although the
lists and keys of tables change between copies, which `InitialSync` alone does not do.

*DoneLeavesOutNothing.* The property is about one step, the end of the copy, and is the end of a chain through
three components. Each link is an invariant of its component: `TablesFound`, that an undisturbed discovery has the tables
asked for in its list, and a key for each that it has come to (`Findable`: with a qualified name and a key of its own);
`TablesInHand`, that a tracked table with a key is finished or still to be copied, until there is nothing left to do;
and in `DoneInv`, that the list is still the one asked for when the copy ends, though the configuration
and the catalogue are no longer looked at (`Informed`). A table is skipped only for want of a key, given up only as
finished, and a migration during the copy changes `seen` or `catalog`, which is the excuse. Without the condition
on names (`Len(t) = 2`) it is false: a bare name is looked up in a schema of its own name and has no key.

### The process

*ChecksHaveManager.* `ServerInv`: before the server listens and after its thread has
returned no worker is in a check; `~Engine` passes the join only then. It matters where `listen()` gives up after a failed
accept: workers have served then and may still be in checks, so that the property rests on the pool being joined
before `listen()` returns, which `HttpServer` models in detail (`NothingOutlivesListen`). Otherwise the join never ends
(`find_exit`), and that keeps workers safe.

*HealthyAnswersAreTrue.* `CheckInv`: no connection is made while checks go on, so a
connection that is up now was up when the check began; a database that was found, and the one
yet to be asked, are evidence about that moment.

*AlarmsHaveReasons.* `AlarmInv` is about the check in progress: if both connections have been up since it
began they are up now, and if no other thread used them and no statement was refused on a live connection either, the
databases asked so far were found.
An answer, once given, keeps its reason because a manager never comes to be after the server was started.

### The server

*EveryConnectionOwned, ListenEndsAll, NoWorkerOversleeps.* One invariant, `TypeOK /\ Ownership /\ Lifetime
/\ Wakeups`, whose parts need each other. `Ownership` says who has a connection without counting:
listener, queue and workers exclude each other, and the queue and the backlog have no element twice;
`OneOwner`, which counts, follows. `Lifetime` relates the stages of `listen()` and of its workers: a worker exits
only when the queue is empty and `shutdown` is set, and `listen()` returns only after the last one. `Wakeups`:
while a worker sleeps there are at least as many awake as there are jobs, but for one while the listener is
between unlocking the queue and `notify_one`.

*ServesInOrder.* Each step is one of `HttpService` or a stutter, under the mapping of section 2; `Ownership`
gives that what is taken is at the head of the line.

### One connection

The worker's steps are first brought to a normal form (`Step`, lemma `Normal`), which says of each what it does to
the *stream* `buffer \o wire \o unsent` and to the answers. Two invariants are about any client, two about
one that awaits its answers:

* `OrderInv`: the stream is in the order of the requests, a line is its request's first piece, and lines that are
  still to come are of requests after all that are answered. `AnswersInOrder` follows.
* `Lasting`: `LastIsLast` holds of *all* answers as long as the connection is open, so that the next answer may come.
* `Permitted`: a worker that reads the content of a request which asked for permission has given or
  refused it. The first part of `NoMutualWait` follows.
* `Clean => Synchrony`: as long as there is no blemish and no error, the client is at the request of the worker,
  and the stream is that request without what has been taken (`Remains`, with any number of trailer lines put in before
  its end: `Rest`), so nothing is ever left over. `MoreComes` is the second part of `NoMutualWait`: wherever the worker reads, some of
  that request is still in the stream, unless its content has no length; if all was sent, it is in `buffer` or `wire`.

`InStep` itself is a part of the invariant, since it promises what was answered before the first error also
after it. An earlier form of it was refuted by this proof: a GET with a `Content-Length` that is no
number has content that is not read and answered without an error, so that the content is taken for
the next request. TLC confirmed it; `LeftUnread` names the case now, `MCHttpExchange` has the request, and the comment at
`InStep` says so.

### The client

*RequestsOwnSockets.* `stop()` closes the socket only when it sees no request in flight, so the
invariant has to say what the counter counts: `Mutex`, that only the thread with the mutex has sends on
its stack, and `Counted`, that `inFlight` is their number, less one before the first and after the second use of
`socket_mutex_`. With `OneOpen` (`socket_` is the one connection that is not closed) and `OwnStream`
it is inductive. The bounds on calls and stops play no part in it.

*RequestsAreFresh.* `Exchange` says what can be on the wire at each place of `send()`: nothing before
the request but the late lines of an earlier answer, interim answers and an answer or its beginning before the head is
read, what its body leaves to come after it (chunks, a last one, lines), and nothing but late lines
again, or a connection that will not be used, when the call is done. A request that breaks off in between
leaves `ret` false, and that closes the connection. A late line is no head, so a request that finds one fails
and its connection is closed: no answer is ever taken for that of another request.

### Byte ranges

*AskedAreServed.* The invariant `RangesHold` says of each place what the ranges there have in common with the
header. While it is read, the ranges so far ask for the bytes of the parts so far. Normalised ranges lie
within the content and ask for the same bytes (`Resolved` keeps `Asked`). While they are merged, `Coalescing`
holds of the merged list `ranges` and of `rest`: together they still cover what was asked for; `Runs`, that members
of `ranges` overlap only where they begin with the same byte; `Ascending`, that the order of first bytes
is kept across both; and `Begun`, that the members of `ranges` stand for as many different ranges of the list as
there are, each beginning with the same byte. `Begun` is what carries the limit of `range_error` through the
merge: in a list with at most two overlaps at most three ranges begin with one byte, so at most
three members of `ranges` hold any byte. Without `Runs` a merged range could have covered a later duplicate.

*LengthsAreTold.* `LengthOf` is a fold; its value is the same function of the same pieces on both sides, and is
computed only for an answer without a piece and with one.

### Files

*FilesAreInside.* Two readers go over a name, `is_valid_path` and the operating system, and what the first found out
has to hold for the second. `CheckInv` says that the check leaves a `Way`: a set of places in the name, each with the
level there, which has the start, has the end of what is checked, is closed under passing a slash or a
component, and has no negative level and no zero byte in between. `OpenInv` says that the system is at a place of that
way, at its level, or has read `index.html` (`FileParts`). From a place of the way the system can only take the
steps that are on it (`OneEnd`: a component ends in one place), so that `depth` is a level of `is_valid_path` and never
negative. That the check compares the level *before* it lowers it keeps every level of the way natural; without the
way as a whole, that the last level is natural would not be inductive. `PathCodeType` is about any bytes, so the proof
does not depend on how dots and slashes were encoded: the check comes after decoding, and nothing decodes again.

### Percent codecs

*DecodingGivesBack.* `Laid(starts, n)` says where in `coded` the form of each of the first `n` bytes starts, that
the forms lie there one after the other, and that nothing else does; `EncodeByte` adds one. `DecodeInv` says that the cursor
of the decoder is always at a start, that of the next byte. `FormRead` is about one byte: the form it has in
one of the four encodings is read by the decoding of the pair as that byte, to the last character of the form, whatever
comes after it. It rests on `TwoDigits` (two hexadecimal digits give back the byte) and on `NoneKeepsPercent` (no
encoding leaves a percent sign as it is, so that what is left alone is not read as an escape); a plus sign that
means a blank is in the query encoding only. `NextByte` is the arithmetic of starts.

### Only model-checked

* All liveness (`SyncEnds`, `RoundsEnd`, `ChecksEnd`, `ConnectionsEnd`, `StopReturns`, `ConversationEnds`,
  `ShutIsClosed`, `CallsEnd`), which is out of the prover's reach.
* `RoutesMatch`, `FieldsSurvive`, `FormsRead`, `ChunkingIrrelevant` and `ConnectsAsConfigured`, whose operators recurse
  over their arguments: what they compute for every input is proved by induction, which the provers cannot do here. The loops of
  `HttpRanges`, `HttpFiles` and `HttpCodec` are steps instead, so that an invariant takes the place of the induction.
* The three violation runs, of course.

## 5. Abstractions, and what is not modelled

* A row is a key and a version. Key order is integer order; composite keys and the mixture that
  `find_keys` shows are not ordered differently in `InitialSync`.
* Both databases have the same tables and unique constraints, nobody else writes the hosted one,
  and other writers' transactions are sequences of single-row steps; no isolation level matters,
  since each statement of the copy sees one snapshot.
* A batch fails as a whole, for a row that a constraint refuses (`Refused`) or for another reason. Foreign
  keys, with which a row is refused until another table is copied, are left out.
* Delays between attempts, the hour of sleep, logging and the numbers of the health check are left
  out; the statistics queries belong to the stretch of use that starts with `SELECT 1`.
* In `ReplicationManager` there are no other threads; in `Engine` statements carry no rows. What a health
  check does to the statements of the copy is the fault "race" of `InitialSync`.
* In `HttpServer` requests have no content, and in `HttpExchange` there is one connection: the former
  knows who serves a connection and when, the latter what is said on it.
* Time is left out: a timeout is a step that is always possible while nothing arrives.
* Not modelled: `Logger`, the exception classes, the build, the tests (which call interfaces that no longer
  exist), `DBConnection`'s move operations, which nothing calls; who gets the number of the listening socket after
  an accept error has closed it and `stop()` closes it again (`httplib.h:8098`); of `httplib.h` TLS and compression (not
  compiled in), regular expressions as routes, base64, digest authentication, event streams, ranges of
  `If-Range`, proxies, and the destructor of a client in use, which has no defined behaviour.

## 6. Plan

Done: every component of section 1 that has state, and the proofs of section 4: every invariant of the
runs is proved, except the five of `values` that section 4 names. What could come next:

1. **More loops as steps**: `PathParamsMatcher` and the reading of header fields, in the way of `HttpCodec`, so that
   `RoutesMatch` and `FieldsSurvive` can be proved; and `FormDataParser`, whose machine there is, for `ChunkingIrrelevant`.
2. **Action properties** worth stating beside the invariants: of `HttpExchange`, that an answer once given is
   never changed; of `Engine`, that `~Engine` gets past the join only without workers.
3. **Foreign keys** in `InitialSync`: the order of tables, and batches that fail because a table is copied
   later.
