------------------------------ MODULE HttpServer ------------------------------
(***************************************************************************)
(* httplib::Server, as runServer of the HealthServer uses it: listen()     *)
(* binds a socket, starts the workers of a ThreadPool, accepts connections *)
(* and queues each for a worker, which answers the requests of the one     *)
(* connection, keeps it alive between them, and closes it.  When the       *)
(* listening socket is gone listen() shuts the pool down and returns.      *)
(*                                                                         *)
(* The pool's mutex is held for single steps only, so that a step below is *)
(* a critical section.  What happens between unlock and notify is a step.  *)
(***************************************************************************)
EXTENDS Integers, FiniteSets, Sequences

CONSTANTS
  Connections,  \* the connections clients may make
  Workers,      \* the threads of the pool
  MaxQueued,    \* max_queued_requests_; 0 is no limit
  KeepAliveMax, \* keep_alive_max_count_, 100 in the code
  MaxAsked,     \* bound: how many requests a client sends ahead
  Stoppable,    \* does another thread call stop()?
  Faults        \* what can go wrong with the listening socket

ASSUME ConnectionAssumption == IsFiniteSet(Connections)
ASSUME WorkerAssumption == IsFiniteSet(Workers) /\ Workers # {}
ASSUME LimitAssumption == MaxQueued \in Nat /\ KeepAliveMax \in Nat \ {0} /\ MaxAsked \in Nat
ASSUME ServerEnvironmentAssumption ==
  Stoppable \in BOOLEAN /\ Faults \subseteq {"bind", "accept"}

Nobody == "nobody"

ASSUME NobodyAssumption == Nobody \notin Connections

VARIABLES
  listener,   \* where the thread in listen() is
  svrSock,    \* svr_sock_: "invalid", "open", or "dead", closed but not reset
  isRunning,  \* is_running_
  held,       \* the connection accepted and not yet queued
  jobs,       \* jobs_ of the pool
  shutdown,   \* shutdown_ of the pool
  at,         \* where each worker is
  serving,    \* the connection each worker has
  left,       \* count of process_server_socket_core
  conn,       \* the state of each connection
  backlog,    \* connections that wait for accept()
  asked,      \* requests of each connection that no worker has read
  gone,       \* has the client closed its end?
  stuck       \* workers whose handler does not return

listening == <<listener, svrSock, isRunning, held>>
pool == <<jobs, shutdown, at, serving, left>>
clients == <<conn, backlog, asked, gone>>
vars == <<listening, pool, clients, stuck>>

Init ==
  /\ listener = "bind"
  /\ svrSock = "invalid"
  /\ isRunning = FALSE
  /\ held = Nobody
  /\ jobs = <<>>
  /\ shutdown = FALSE
  /\ at = [w \in Workers |-> "unborn"]
  /\ serving = [w \in Workers |-> Nobody]
  /\ left = [w \in Workers |-> 0]
  /\ conn = [c \in Connections |-> "none"]
  /\ backlog = <<>>
  /\ asked = [c \in Connections |-> 0]
  /\ gone = [c \in Connections |-> FALSE]
  /\ stuck \in SUBSET Workers

------------------------------------------------------------------------------
(* listen(): bind_to_port, which makes the socket and binds it ...         *)
Bind ==
  /\ listener = "bind"
  /\ svrSock' = "open"
  /\ listener' = "bound"
  /\ UNCHANGED <<isRunning, held, pool, clients, stuck>>

FailBind ==
  /\ listener = "bind"
  /\ "bind" \in Faults
  /\ listener' = "returned"
  /\ UNCHANGED <<svrSock, isRunning, held, pool, clients, stuck>>

(* ... and listen_internal, which makes the pool.                          *)
StartListening ==
  /\ listener = "bound"
  /\ listener' = "accept"
  /\ isRunning' = TRUE
  /\ at' = [w \in Workers |-> "awake"]
  /\ UNCHANGED <<svrSock, held, jobs, shutdown, serving, left, clients, stuck>>

(* The loop of listen_internal, which waits in accept(). *)
Accept ==
  /\ listener = "accept"
  /\ svrSock = "open"
  /\ backlog # <<>>
  /\ held' = Head(backlog)
  /\ backlog' = Tail(backlog)
  /\ conn' = [conn EXCEPT ![Head(backlog)] = "open"]
  /\ listener' = "enqueue"
  /\ UNCHANGED <<svrSock, isRunning, pool, asked, gone, stuck>>

(* Connections end, and what their clients have sent is lost with them.    *)
Drop(cs) ==
  /\ conn' = [c \in Connections |-> IF c \in cs THEN "closed" ELSE conn[c]]
  /\ asked' = [c \in Connections |-> IF c \in cs THEN 0 ELSE asked[c]]
  /\ gone' = [c \in Connections |-> IF c \in cs THEN FALSE ELSE gone[c]]

DropBacklog == Drop({c \in Connections : conn[c] = "queued"}) /\ backlog' = <<>>

(* An accept that fails ends the loop: stop() has closed the socket, or it *)
(* is an error other than EMFILE, EINTR and EAGAIN.                        *)
FailAccept ==
  /\ listener = "accept"
  /\ \/ svrSock = "invalid" /\ UNCHANGED <<svrSock, clients>>
     \/ /\ svrSock = "open"
        /\ "accept" \in Faults
        /\ svrSock' = "dead"
        /\ DropBacklog
  /\ listener' = "stop"
  /\ UNCHANGED <<isRunning, held, pool, stuck>>

(* enqueue: the limit, and the list under its lock.  What is refused is    *)
(* closed at once.                                                         *)
Full == MaxQueued > 0 /\ Len(jobs) >= MaxQueued

Enqueue ==
  /\ listener = "enqueue"
  /\ ~ Full
  /\ jobs' = Append(jobs, held)
  /\ held' = Nobody
  /\ listener' = "notify"
  /\ UNCHANGED <<svrSock, isRunning, shutdown, at, serving, left, clients, stuck>>

Refuse_Leak ==
  /\ listener = "enqueue"
  /\ Full
  /\ held' = Nobody
  /\ listener' = "accept"
  /\ UNCHANGED <<svrSock, isRunning, pool, clients, stuck>>
Refuse ==
  /\ listener = "enqueue"
  /\ Full
  /\ Drop({held})
  /\ held' = Nobody
  /\ listener' = "accept"
  /\ UNCHANGED <<svrSock, isRunning, pool, backlog, stuck>>

(* notify_one, after the lock is released *)
NotifyOne_OfIdle ==
  /\ listener = "notify"
  /\ at' = at
  /\ listener' = "accept"
  /\ UNCHANGED <<svrSock, isRunning, held, jobs, shutdown, serving, left, clients, stuck>>
NotifyOne ==
  /\ listener = "notify"
  /\ IF \E w \in Workers : at[w] = "waiting"
       THEN \E w \in Workers : at[w] = "waiting" /\ at' = [at EXCEPT ![w] = "awake"]
       ELSE UNCHANGED at
  /\ listener' = "accept"
  /\ UNCHANGED <<svrSock, isRunning, held, jobs, shutdown, serving, left, clients, stuck>>

(* shutdown: the flag, notify_all, and the join of every worker.           *)
ShutDown ==
  /\ listener = "stop"
  /\ shutdown' = TRUE
  /\ listener' = "notifyAll"
  /\ UNCHANGED <<svrSock, isRunning, held, jobs, at, serving, left, clients, stuck>>

NotifyAll_One ==
  /\ listener = "notifyAll"
  /\ IF \E w \in Workers : at[w] = "waiting"
       THEN \E w \in Workers : at[w] = "waiting" /\ at' = [at EXCEPT ![w] = "awake"]
       ELSE UNCHANGED at
  /\ listener' = "join"
  /\ UNCHANGED <<svrSock, isRunning, held, jobs, shutdown, serving, left, clients, stuck>>
NotifyAll ==
  /\ listener = "notifyAll"
  /\ at' = [w \in Workers |-> IF at[w] = "waiting" THEN "awake" ELSE at[w]]
  /\ listener' = "join"
  /\ UNCHANGED <<svrSock, isRunning, held, jobs, shutdown, serving, left, clients, stuck>>

Join ==
  /\ listener = "join"
  /\ \A w \in Workers : at[w] = "exited"
  /\ isRunning' = FALSE
  /\ listener' = "returned"
  /\ UNCHANGED <<svrSock, held, pool, clients, stuck>>

------------------------------------------------------------------------------
(* A worker of the pool: wait for a job, or for the end.                   *)
Take_Peek(w) ==
  /\ at[w] = "awake"
  /\ IF jobs # <<>>
       THEN /\ serving' = [serving EXCEPT ![w] = Head(jobs)]
            /\ left' = [left EXCEPT ![w] = KeepAliveMax]
            /\ at' = [at EXCEPT ![w] = "look"]
            /\ UNCHANGED jobs
       ELSE /\ at' = [at EXCEPT ![w] = IF shutdown THEN "exited" ELSE "waiting"]
            /\ UNCHANGED <<jobs, serving, left>>
  /\ UNCHANGED <<listening, shutdown, clients, stuck>>
Take_EndFirst(w) ==
  /\ at[w] = "awake"
  /\ IF shutdown THEN at' = [at EXCEPT ![w] = "exited"] /\ UNCHANGED <<jobs, serving, left>>
     ELSE IF jobs = <<>> THEN at' = [at EXCEPT ![w] = "waiting"] /\ UNCHANGED <<jobs, serving, left>>
     ELSE /\ jobs' = Tail(jobs)
          /\ serving' = [serving EXCEPT ![w] = Head(jobs)]
          /\ left' = [left EXCEPT ![w] = KeepAliveMax]
          /\ at' = [at EXCEPT ![w] = "look"]
  /\ UNCHANGED <<listening, shutdown, clients, stuck>>
Take(w) ==
  /\ at[w] = "awake"
  /\ IF jobs # <<>>
       THEN /\ jobs' = Tail(jobs)
            /\ serving' = [serving EXCEPT ![w] = Head(jobs)]
            /\ left' = [left EXCEPT ![w] = KeepAliveMax]
            /\ at' = [at EXCEPT ![w] = "look"]
       ELSE /\ at' = [at EXCEPT ![w] = IF shutdown THEN "exited" ELSE "waiting"]
            /\ UNCHANGED <<jobs, serving, left>>
  /\ UNCHANGED <<listening, shutdown, clients, stuck>>

SpuriousWakeup(w) ==
  /\ at[w] = "waiting"
  /\ at' = [at EXCEPT ![w] = "awake"]
  /\ UNCHANGED <<listening, jobs, shutdown, serving, left, clients, stuck>>

(* keep_alive: a first look at the connection, then one every 10 ms, until *)
(* the listening socket or the patience of the server is gone.             *)
Readable(c) == asked[c] > 0 \/ gone[c]

(* process_and_close_socket, when process_server_socket is through.        *)
Close(w) ==
  /\ Drop({serving[w]})
  /\ serving' = [serving EXCEPT ![w] = Nobody]
  /\ left' = [left EXCEPT ![w] = 0]
  /\ at' = [at EXCEPT ![w] = "awake"]

GoOn(w, stage) ==
  /\ at' = [at EXCEPT ![w] = stage]
  /\ UNCHANGED <<serving, conn, gone>>

KeepAlive_Patient(w) ==
  LET ready == Readable(serving[w]) IN
  /\ \/ at[w] = "look" /\ GoOn(w, IF ready THEN "read" ELSE "poll") /\ UNCHANGED <<left, asked>>
     \/ at[w] = "poll" /\ svrSock # "invalid" /\ ready /\ GoOn(w, "read") /\ UNCHANGED <<left, asked>>
     \/ at[w] = "poll" /\ svrSock = "invalid" /\ Close(w)
  /\ UNCHANGED <<listening, jobs, shutdown, backlog, stuck>>
KeepAlive(w) ==
  LET ready == Readable(serving[w]) IN
  /\ \/ at[w] = "look" /\ GoOn(w, IF ready THEN "read" ELSE "poll") /\ UNCHANGED <<left, asked>>
     \/ at[w] = "poll" /\ svrSock # "invalid" /\ ready /\ GoOn(w, "read") /\ UNCHANGED <<left, asked>>
     \/ at[w] = "poll" /\ (svrSock = "invalid" \/ ~ ready) /\ Close(w)
  /\ UNCHANGED <<listening, jobs, shutdown, backlog, stuck>>

(* process_request: read a request, or the end of the connection ...       *)
ReadRequest(w) ==
  LET c == serving[w] IN
  /\ at[w] = "read"
  /\ IF asked[c] > 0
       THEN GoOn(w, "handle") /\ asked' = [asked EXCEPT ![c] = @ - 1] /\ UNCHANGED left
       ELSE Close(w)
  /\ UNCHANGED <<listening, jobs, shutdown, backlog, stuck>>

(* ... and answer it; the loop ends early if the client wanted that or     *)
(* could not be answered.                                                  *)
Answer(w, more) ==
  /\ at[w] = "handle"
  /\ w \notin stuck
  /\ IF more /\ left[w] > 1
       THEN GoOn(w, "look") /\ left' = [left EXCEPT ![w] = @ - 1] /\ UNCHANGED asked
       ELSE Close(w)
  /\ UNCHANGED <<listening, jobs, shutdown, backlog, stuck>>

------------------------------------------------------------------------------
(* Clients *)
Connect(c) ==
  /\ svrSock = "open"
  /\ conn[c] = "none"
  /\ conn' = [conn EXCEPT ![c] = "queued"]
  /\ backlog' = Append(backlog, c)
  /\ UNCHANGED <<listening, pool, asked, gone, stuck>>

Ask(c) ==
  /\ conn[c] \in {"queued", "open"}
  /\ ~ gone[c]
  /\ asked[c] < MaxAsked
  /\ asked' = [asked EXCEPT ![c] = @ + 1]
  /\ UNCHANGED <<listening, pool, conn, backlog, gone, stuck>>

Leave(c) ==
  /\ conn[c] \in {"queued", "open"}
  /\ ~ gone[c]
  /\ gone' = [gone EXCEPT ![c] = TRUE]
  /\ UNCHANGED <<listening, pool, conn, backlog, asked, stuck>>

(* stop(), by any other thread; is_running_ is set after the socket is     *)
(* bound, and a stop() in between does nothing.                            *)
Stop ==
  /\ Stoppable
  /\ IF isRunning
       THEN svrSock' = "invalid" /\ DropBacklog
       ELSE UNCHANGED <<svrSock, clients>>
  /\ UNCHANGED <<listener, isRunning, held, pool, stuck>>

------------------------------------------------------------------------------
Listener ==
  \/ Bind \/ FailBind \/ StartListening \/ Accept \/ FailAccept
  \/ Enqueue \/ Refuse \/ NotifyOne \/ ShutDown \/ NotifyAll \/ Join

Worker(w) ==
  \/ Take(w) \/ KeepAlive(w) \/ ReadRequest(w)
  \/ \E more \in BOOLEAN : Answer(w, more)

Next ==
  \/ Listener
  \/ \E w \in Workers : Worker(w) \/ SpuriousWakeup(w)
  \/ \E c \in Connections : Connect(c) \/ Ask(c) \/ Leave(c)
  \/ Stop

Spec == Init /\ [][Next]_vars

(* Threads run, and a handler returns unless its worker is stuck.          *)
FairSpec ==
  /\ Spec
  /\ WF_vars(Listener)
  /\ \A w \in Workers : WF_vars(Worker(w))

------------------------------------------------------------------------------
Queued(c) == Cardinality({i \in 1 .. Len(jobs) : jobs[i] = c})
Owners(c) ==
  Queued(c) + Cardinality({w \in Workers : serving[w] = c}) + (IF held = c THEN 1 ELSE 0)

(* An open connection has one owner, the listener, the queue or a worker,  *)
(* who will close it, and a closed one has none: no descriptor is leaked,  *)
(* or closed by one thread while another is using it.                      *)
OneOwner == \A c \in Connections : Owners(c) = (IF conn[c] = "open" THEN 1 ELSE 0)

(* When listen() has returned, and the Server and its handlers go, no      *)
(* worker is left that could call them and no connection is left open.     *)
NothingOutlivesListen ==
  listener = "returned" =>
    /\ \A w \in Workers : at[w] \in {"unborn", "exited"}
    /\ \A c \in Connections : conn[c] # "open"

(* No worker sleeps through its work: while one does, as many are awake as *)
(* there are jobs, once the notification for the last of them is made; and *)
(* none sleeps when the listener waits for it to exit.                     *)
NoLostWakeup ==
  (\E w \in Workers : at[w] = "waiting") /\ listener # "notify" =>
    /\ Len(jobs) <= Cardinality({w \in Workers : at[w] = "awake"})
    /\ listener \notin {"join", "returned"}

(* Every connection accepted is closed in the end, whatever its client and *)
(* the others do, unless a handler that does not return has it or all the  *)
(* workers: one idle client holds a worker for a limited time only.        *)
ConnectionsEnd ==
  Workers \ stuck # {} =>
    \A c \in Connections :
      conn[c] = "open" ~> conn[c] = "closed" \/ \E w \in stuck : serving[w] = c

(* A stop() that finds is_running_ ends listen(), if no handler is stuck.  *)
(* One that comes before, even when the socket is bound already, does      *)
(* nothing: it is lost, and listen() goes on as if nobody had called it.   *)
StopReturns == stuck = {} => (isRunning /\ svrSock = "invalid" ~> listener = "returned")

(* What a user of the server relies on: HttpService.                       *)
Line == IF held = Nobody THEN jobs ELSE Append(jobs, held)
Stage == [c \in Connections |->
            IF conn[c] \in {"none", "queued"} THEN "out"
            ELSE IF conn[c] = "closed" THEN "over"
            ELSE IF \E w \in Workers : serving[w] = c THEN "served" ELSE "inLine"]
Service == INSTANCE HttpService WITH stage <- Stage, line <- Line, Slots <- Cardinality(Workers)
ImplementsService == Service!Spec
==============================================================================
