-------------------------------- MODULE Engine --------------------------------
(***************************************************************************)
(* The process: main() and the Engine, whose thread connects, starts the   *)
(* health server and then runs a round of replication every hour; and the  *)
(* worker threads of the health server, which answer GET /health with a    *)
(* health check of their own.                                              *)
(*                                                                         *)
(* All of them execute statements on the same two PGconns and nothing      *)
(* keeps them apart.  libpq defines no result for two PQexec at a time on  *)
(* one PGconn: each may get its own result, another one or none, and may   *)
(* wait for ever.  Containers are started again when their process exits.  *)
(***************************************************************************)
EXTENDS Integers, FiniteSets

CONSTANTS
  Handlers,  \* the worker threads of the health server
  Main,      \* the main thread
  Faults     \* what can go wrong

ASSUME ThreadAssumption == Main \notin Handlers /\ IsFiniteSet(Handlers)
ASSUME FaultAssumption ==
  Faults \subseteq {"config", "connect", "thread", "bind", "accept", "link", "probe", "throw", "kill"}

Threads == Handlers \cup {Main}
Databases == {"local", "hosted"}
Nowhere == "nowhere"

VARIABLES
  pc,       \* where main is
  manager,  \* replicationManager_: "none", "ready" or "destroyed"
  link,     \* is the connection to each database up?  None is ever reset
  running,  \* running_ of the HealthServer
  server,   \* its thread: "off", "starting", "listening", "closing", "returned"
  at,       \* the stage of the check, or of the round, each thread is in
  using,    \* the database each thread has a PQexec to in progress
  spoiled,  \* has another PQexec overlapped with it?
  found,    \* the databases that answered the check of each thread
  answer,   \* what each worker has last answered
  upAtStart,  \* history: were both links up when the check began?
  upSince,    \* history: and have they been ever since?
  clean       \* history: and was no statement of it spoiled or refused?

process == <<pc, manager, running, server>>
checks == <<at, using, spoiled, found, answer>>
history == <<upAtStart, upSince, clean>>
vars == <<process, link, checks, history>>

AllUp == \A d \in Databases : link[d]

Disconnected == [d \in Databases |-> FALSE]

Init ==
  /\ pc = "load"
  /\ manager = "none"
  /\ link = Disconnected
  /\ running = FALSE
  /\ server = "off"
  /\ at = [th \in Threads |-> "idle"]
  /\ using = [th \in Threads |-> Nowhere]
  /\ spoiled = [th \in Threads |-> FALSE]
  /\ found = [th \in Threads |-> {}]
  /\ answer = [h \in Handlers |-> "none"]
  /\ upAtStart = [h \in Handlers |-> FALSE]
  /\ upSince = [h \in Handlers |-> FALSE]
  /\ clean = [h \in Handlers |-> FALSE]

------------------------------------------------------------------------------
(* The constructor of Engine.  *)

(* A configuration or log file that cannot be used ends the process. *)
LoadConfig ==
  /\ pc = "load"
  /\ \/ pc' = "local"
     \/ "config" \in Faults /\ pc' = "exited"
  /\ UNCHANGED <<manager, running, server, link, checks, history>>

(* The local database first.  Failing to connect to either is caught: the  *)
(* manager, with the connection it may have, is gone and stays so.         *)
Connect(d) ==
  /\ pc = d
  /\ link' = [link EXCEPT ![d] = TRUE]
  /\ IF d = "local"
       THEN pc' = "hosted" /\ UNCHANGED manager
       ELSE pc' = "serve" /\ manager' = "ready"
  /\ UNCHANGED <<running, server, checks, history>>

FailConnect(d) ==
  /\ pc = d
  /\ "connect" \in Faults
  /\ link' = Disconnected
  /\ pc' = "serve"
  /\ UNCHANGED <<manager, running, server, checks, history>>

(* HealthServer::start *)
StartServer ==
  /\ pc = "serve"
  /\ running' = TRUE
  /\ \/ server' = "starting" /\ pc' = "run"
     \/ "thread" \in Faults /\ pc' = "exited" /\ UNCHANGED server
  /\ UNCHANGED <<manager, link, checks, history>>

(* HealthServer::runServer, up to and including listen().  What listen()   *)
(* returns is not looked at.                                               *)
Listen ==
  /\ server = "starting"
  /\ \/ server' = "listening"
     \/ "bind" \in Faults /\ server' = "returned"
  /\ UNCHANGED <<pc, manager, running, link, checks, history>>

(* A connection that cannot be accepted ends listen(): it shuts the pool   *)
(* of workers down, and they still serve the connections they have.        *)
FailAccept ==
  /\ "accept" \in Faults
  /\ server = "listening"
  /\ server' = "closing"
  /\ UNCHANGED <<pc, manager, running, link, checks, history>>

(* listen() returns when the workers are done. *)
ReturnFromListen_NoJoin ==
  /\ server = "closing"
  /\ server' = "returned"
  /\ UNCHANGED <<pc, manager, running, link, checks, history>>
ReturnFromListen ==
  /\ server = "closing"
  /\ \A h \in Handlers : at[h] = "idle"
  /\ server' = "returned"
  /\ UNCHANGED <<pc, manager, running, link, checks, history>>

------------------------------------------------------------------------------
(* PQexec, by any thread on either connection. *)
Enter(th, d) ==
  /\ using[th] = Nowhere
  /\ using' = [using EXCEPT ![th] = d]
  /\ spoiled' = [u \in Threads |->
                   IF u = th THEN \E w \in Threads : using[w] = d
                             ELSE spoiled[u] \/ using[u] = d]

(* Whether a result is one that the caller takes for success.  A database  *)
(* that is connected may refuse a statement: out of memory, or shutting    *)
(* down.                                                                   *)
Results(th) ==
  LET d == using[th] IN
  IF ~ link[d] THEN {FALSE}
  ELSE IF spoiled[th] \/ "probe" \in Faults THEN BOOLEAN
  ELSE {TRUE}

Return(th) ==
  /\ using[th] # Nowhere
  /\ using' = [using EXCEPT ![th] = Nowhere]
  /\ spoiled' = [spoiled EXCEPT ![th] = FALSE]

(* healthCheck: SELECT 1 on the local, then on the hosted connection; the  *)
(* queries for numbers belong to the same stretch of use of a connection.  *)
Probe(th) ==
  /\ at[th] \in Databases
  /\ Enter(th, at[th])
  /\ UNCHANGED <<process, link, at, found, answer, history>>

AfterProbe_LocalOnly(th, d, ok) ==
  /\ at[th] = d
  /\ using[th] = d
  /\ Return(th)
  /\ ok \in Results(th)
  /\ found' = [found EXCEPT ![th] = IF ok /\ d = "local" THEN @ \cup {d} ELSE @]
AfterProbe(th, d, ok) ==
  /\ at[th] = d
  /\ using[th] = d
  /\ Return(th)
  /\ ok \in Results(th)
  /\ found' = [found EXCEPT ![th] = IF ok THEN @ \cup {d} ELSE @]

(* status.overall *)
Overall_Any(dbs) == dbs # {}
Overall(dbs) == dbs = Databases

------------------------------------------------------------------------------
(* GET /health. *)
Request(h) ==
  /\ server \in {"listening", "closing"}
  /\ at[h] = "idle"
  /\ upAtStart' = [upAtStart EXCEPT ![h] = AllUp]
  /\ upSince' = [upSince EXCEPT ![h] = AllUp]
  /\ clean' = [clean EXCEPT ![h] = TRUE]
  /\ found' = [found EXCEPT ![h] = {}]
  /\ IF manager = "none"
       THEN answer' = [answer EXCEPT ![h] = "unhealthy"] /\ UNCHANGED at
       ELSE answer' = [answer EXCEPT ![h] = "none"] /\ at' = [at EXCEPT ![h] = "local"]
  /\ UNCHANGED <<process, link, using, spoiled>>

StageAfter_Again(d) == IF d = "local" THEN "hosted" ELSE "local"
StageAfter(d) == IF d = "local" THEN "hosted" ELSE "idle"

AnswerProbe(h) ==
  /\ \E d \in Databases, ok \in BOOLEAN :
       /\ AfterProbe(h, d, ok)
       /\ at' = [at EXCEPT ![h] = StageAfter(d)]
       /\ answer' = [answer EXCEPT ![h] = IF d = "local" THEN @
                        ELSE IF Overall(found'[h]) THEN "healthy" ELSE "unhealthy"]
       /\ clean' = [clean EXCEPT ![h] = @ /\ ~ spoiled[h] /\ (ok \/ ~ link[d])]
  /\ UNCHANGED <<process, link, upAtStart, upSince>>

------------------------------------------------------------------------------
(* Engine::run, as far as it uses connections: without a manager, nothing; *)
(* or a health check and, if it is passed, statements that read from the   *)
(* local and write to the hosted database.                                 *)
RunWithoutManager_Wait ==
  /\ pc = "run"
  /\ manager = "none"
  /\ UNCHANGED vars
RunWithoutManager ==
  /\ pc = "run"
  /\ manager = "none"
  /\ pc' = "sleep"
  /\ UNCHANGED <<manager, running, server, link, checks, history>>

StartRound ==
  /\ pc = "run"
  /\ manager = "ready"
  /\ at[Main] = "idle"
  /\ at' = [at EXCEPT ![Main] = "local"]
  /\ found' = [found EXCEPT ![Main] = {}]
  /\ UNCHANGED <<process, link, using, spoiled, answer, history>>

CheckProbe ==
  /\ \E ok \in BOOLEAN :
       \/ /\ AfterProbe(Main, "local", ok)
          /\ at' = [at EXCEPT ![Main] = "hosted"]
          /\ UNCHANGED pc
       \/ /\ AfterProbe(Main, "hosted", ok)
          /\ IF Overall(found'[Main])
               THEN at' = [at EXCEPT ![Main] = "read"] /\ UNCHANGED pc
               ELSE at' = [at EXCEPT ![Main] = "idle"] /\ pc' = "sleep"
  /\ UNCHANGED <<manager, running, server, link, answer, history>>

Execute ==
  /\ \/ at[Main] = "read" /\ Enter(Main, "local")
     \/ at[Main] = "write" /\ Enter(Main, "hosted")
  /\ UNCHANGED <<process, link, at, found, answer, history>>

Executed ==
  /\ at[Main] \in {"read", "write"}
  /\ Return(Main)
  /\ IF at[Main] = "read"
       THEN at' = [at EXCEPT ![Main] = "write"] /\ UNCHANGED pc
       ELSE at' = [at EXCEPT ![Main] = "idle"] /\ pc' = "sleep"
  /\ UNCHANGED <<manager, running, server, link, found, answer, history>>

Sleep ==
  /\ pc = "sleep"
  /\ pc' = "run"
  /\ UNCHANGED <<manager, running, server, link, checks, history>>

(* An exception, such as bad_alloc for the texts of a page of rows.        *)
Throw ==
  /\ "throw" \in Faults
  /\ at[Main] = "write"
  /\ using[Main] = Nowhere
  /\ pc' = "unwind"
  /\ at' = [at EXCEPT ![Main] = "idle"]
  /\ UNCHANGED <<manager, running, server, link, using, spoiled, found, answer, history>>

(* ~Engine: HealthServer::stop, which tells the server nothing ...         *)
StopServer_NoJoin ==
  /\ pc = "unwind"
  /\ running' = FALSE
  /\ pc' = "destroy"
  /\ UNCHANGED <<manager, server, link, checks, history>>
StopServer ==
  /\ pc = "unwind"
  /\ running' = FALSE
  /\ pc' = "join"
  /\ UNCHANGED <<manager, server, link, checks, history>>

(* ... and waits for its thread. *)
JoinServer ==
  /\ pc = "join"
  /\ server = "returned"
  /\ pc' = "destroy"
  /\ UNCHANGED <<manager, running, server, link, checks, history>>

(* The members go, and main returns EXIT_FAILURE. *)
DestroyManager ==
  /\ pc = "destroy"
  /\ manager = "ready"
  /\ manager' = "destroyed"
  /\ link' = Disconnected
  /\ UNCHANGED <<pc, running, server, checks, history>>

Exit ==
  /\ pc = "destroy"
  /\ manager # "ready"
  /\ pc' = "exited"
  /\ UNCHANGED <<manager, running, server, link, checks, history>>

------------------------------------------------------------------------------
LoseLink(d) ==
  /\ "link" \in Faults
  /\ link[d]
  /\ link' = [link EXCEPT ![d] = FALSE]
  /\ upSince' = [h \in Handlers |-> FALSE]
  /\ UNCHANGED <<process, checks, upAtStart, clean>>

Kill ==
  /\ "kill" \in Faults
  /\ pc' = "exited"
  /\ UNCHANGED <<manager, running, server, link, checks, history>>

(* restart: unless-stopped *)
Restart ==
  /\ pc = "exited"
  /\ pc' = "load"
  /\ manager' = "none"
  /\ link' = Disconnected
  /\ running' = FALSE
  /\ server' = "off"
  /\ at' = [th \in Threads |-> "idle"]
  /\ using' = [th \in Threads |-> Nowhere]
  /\ spoiled' = [th \in Threads |-> FALSE]
  /\ found' = [th \in Threads |-> {}]
  /\ answer' = [h \in Handlers |-> "none"]
  /\ UNCHANGED history

Alive == pc # "exited"

Worker(h) == Alive /\ (Request(h) \/ (at[h] \in Databases /\ Probe(h)) \/ AnswerProbe(h))

MainStep ==
  \/ LoadConfig \/ (\E d \in Databases : Connect(d) \/ FailConnect(d)) \/ StartServer
  \/ RunWithoutManager \/ StartRound \/ Probe(Main) \/ CheckProbe \/ Execute \/ Executed
  \/ Sleep \/ Throw \/ StopServer \/ JoinServer \/ DestroyManager \/ Exit

ListenStep == Listen \/ FailAccept \/ ReturnFromListen

Next ==
  \/ Alive /\ (MainStep \/ ListenStep \/ Kill \/ \E d \in Databases : LoseLink(d))
  \/ \E h \in Handlers : Worker(h)
  \/ Restart

Spec == Init /\ [][Next]_vars

(* Threads run, sleeps end, and a statement that none other spoils is      *)
(* answered or fails.  Nobody has to fail to accept a connection.          *)
FairSpec ==
  /\ Spec
  /\ WF_vars(Alive /\ ~ spoiled[Main] /\ MainStep)
  /\ WF_vars(Alive /\ (Listen \/ ReturnFromListen))
  /\ \A h \in Handlers : WF_vars(Alive /\ ~ spoiled[h] /\ at[h] # "idle" /\ Worker(h))
  /\ WF_vars(Restart)

------------------------------------------------------------------------------
TypeOK ==
  /\ pc \in {"load", "local", "hosted", "serve", "run", "sleep", "unwind", "join", "destroy", "exited"}
  /\ manager \in {"none", "ready", "destroyed"}
  /\ link \in [Databases -> BOOLEAN]
  /\ running \in BOOLEAN
  /\ server \in {"off", "starting", "listening", "closing", "returned"}
  /\ at \in [Threads -> Databases \cup {"idle", "read", "write"}]
  /\ \A h \in Handlers : at[h] \notin {"read", "write"}
  /\ using \in [Threads -> Databases \cup {Nowhere}]
  /\ spoiled \in [Threads -> BOOLEAN]
  /\ \A th \in Threads : spoiled[th] => using[th] # Nowhere
  /\ found \in [Threads -> SUBSET Databases]
  /\ answer \in [Handlers -> {"none", "healthy", "unhealthy"}]
  /\ upAtStart \in [Handlers -> BOOLEAN]
  /\ upSince \in [Handlers -> BOOLEAN]
  /\ clean \in [Handlers -> BOOLEAN]

(* A worker, which holds a reference to the manager and not a share of it, *)
(* is never in a check of a manager that ~Engine has destroyed: not even   *)
(* when listen() has given up, so that ~Engine gets past the join, after   *)
(* workers have served.                                                    *)
ManagerOutlivesChecks ==
  \A h \in Handlers : Alive /\ at[h] \in Databases => manager = "ready"

(* "healthy" is the truth about the moment of the request: although the    *)
(* two databases are asked one after the other, both were connected then.  *)
HealthyMeansConnected ==
  \A h \in Handlers : answer[h] = "healthy" => upAtStart[h]

(* "unhealthy" has a reason in this check: there was no manager, a         *)
(* connection was lost, a database refused a statement of the check, or    *)
(* another thread was using a connection when the check needed it.  What   *)
(* other checks or earlier ones found is never the reason.                 *)
AlarmsExplained ==
  \A h \in Handlers : answer[h] = "unhealthy" => manager = "none" \/ ~ upSince[h] \/ ~ clean[h]

(* What a round or a check began it ends, if no other thread spoils it:    *)
(* no thread waits for a lock or for another thread.                       *)
RoundsEnd == pc = "run" ~> pc # "run" \/ spoiled[Main]
ChecksEnd == \A h \in Handlers : at[h] # "idle" ~> at[h] = "idle" \/ spoiled[h] \/ ~ Alive

(* An exception ends the process: main returns EXIT_FAILURE.               *)
ExceptionsExit == pc = "unwind" ~> pc = "exited"
==============================================================================
