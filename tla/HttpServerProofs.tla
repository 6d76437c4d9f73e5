--------------------------- MODULE HttpServerProofs ---------------------------
(***************************************************************************)
(* What is proved of HttpServer, for every set of connections and workers  *)
(* and every limit: each accepted connection has one owner who will close  *)
(* it, nothing outlives listen(), no worker sleeps through its work, and   *)
(* the server is the service that HttpService describes.                   *)
(***************************************************************************)
EXTENDS HttpServer, TLAPS, FiniteSetTheorems, SequenceTheorems

(* Where the thread in listen() and a worker can be. *)
ListenerAt == {"bind", "bound", "accept", "enqueue", "notify", "stop", "notifyAll", "join", "returned"}
Busy == {"look", "poll", "read", "handle"}
WorkerAt == {"unborn", "awake", "waiting", "exited"} \cup Busy

TypeOK ==
  /\ listener \in ListenerAt
  /\ svrSock \in {"invalid", "open", "dead"}
  /\ isRunning \in BOOLEAN
  /\ held \in Connections \cup {Nobody}
  /\ jobs \in Seq(Connections)
  /\ shutdown \in BOOLEAN
  /\ at \in [Workers -> WorkerAt]
  /\ serving \in [Workers -> Connections \cup {Nobody}]
  /\ left \in [Workers -> Nat]
  /\ conn \in [Connections -> {"none", "queued", "open", "closed"}]
  /\ backlog \in Seq(Connections)
  /\ asked \in [Connections -> Nat]
  /\ gone \in [Connections -> BOOLEAN]
  /\ stuck \in SUBSET Workers

(* Who owns a connection, and that it is open for its owner. *)
InJobs(c) == \E i \in 1 .. Len(jobs) : jobs[i] = c
Served(c) == \E w \in Workers : serving[w] = c

HeldOpen ==
  /\ held # Nobody <=> listener = "enqueue"
  /\ held # Nobody => conn[held] = "open" /\ ~ InJobs(held) /\ ~ Served(held)

JobsOpen ==
  /\ \A i \in 1 .. Len(jobs) : conn[jobs[i]] = "open" /\ ~ Served(jobs[i])
  /\ \A i, j \in 1 .. Len(jobs) : jobs[i] = jobs[j] => i = j

ServingOpen ==
  /\ \A w \in Workers : serving[w] # Nobody <=> at[w] \in Busy
  /\ \A w \in Workers : serving[w] # Nobody => conn[serving[w]] = "open"
  /\ \A v, w \in Workers : serving[v] = serving[w] /\ serving[v] # Nobody => v = w

OpenOwned == \A c \in Connections : conn[c] = "open" => held = c \/ InJobs(c) \/ Served(c)

BacklogQueued ==
  /\ \A i \in 1 .. Len(backlog) : conn[backlog[i]] = "queued"
  /\ \A i, j \in 1 .. Len(backlog) : backlog[i] = backlog[j] => i = j

Ownership == HeldOpen /\ JobsOpen /\ ServingOpen /\ OpenOwned /\ BacklogQueued

(* The stages of listen() and of its workers. *)
Lifetime ==
  /\ listener \in {"bind", "bound"} => \A w \in Workers : at[w] = "unborn"
  /\ (\E w \in Workers : at[w] \in {"unborn", "exited"}) => jobs = <<>>
  /\ (\E w \in Workers : at[w] = "unborn") => listener \in {"bind", "bound", "returned"}
  /\ (\E w \in Workers : at[w] = "exited") => shutdown
  /\ shutdown => listener \in {"notifyAll", "join", "returned"}
  /\ listener \in {"notifyAll", "join"} => shutdown
  /\ listener = "returned" => \A w \in Workers : at[w] \in {"unborn", "exited"}

(* While a worker sleeps there is one awake for every job, but for the one *)
(* whose notification is still to come.                                    *)
Awake == {w \in Workers : at[w] = "awake"}
Wakeups ==
  (\E w \in Workers : at[w] = "waiting") =>
    /\ Len(jobs) <= Cardinality(Awake) + (IF listener = "notify" THEN 1 ELSE 0)
    /\ listener \notin {"join", "returned"}

(* The parts are not inductive one by one: that no worker sleeps when      *)
(* listen() joins them needs Lifetime, and that a worker which exits       *)
(* leaves no connection behind needs Ownership.                            *)
IInv == TypeOK /\ Ownership /\ Lifetime /\ Wakeups

------------------------------------------------------------------------------
LEMMA InitIInv == Init => IInv
<1> SUFFICES ASSUME Init PROVE IInv
  OBVIOUS
<1>1. <<>> \in Seq(Connections) /\ Len(<<>>) = 0
  OBVIOUS
<1>2. TypeOK
  BY <1>1, LimitAssumption DEF Init, TypeOK, ListenerAt, WorkerAt
<1>3. Ownership
  BY <1>1, NobodyAssumption
  DEF Init, Ownership, HeldOpen, JobsOpen, ServingOpen, OpenOwned, BacklogQueued, InJobs, Served, Busy
<1>4. Lifetime
  BY <1>1 DEF Init, Lifetime
<1>5. Wakeups
  BY <1>1 DEF Init, Wakeups
<1> QED
  BY <1>2, <1>3, <1>4, <1>5 DEF IInv

(* Drop keeps the types, closes what it names and leaves the rest alone. *)
LEMMA DropTypes ==
  ASSUME TypeOK, NEW cs, Drop(cs)
  PROVE  /\ conn' \in [Connections -> {"none", "queued", "open", "closed"}]
         /\ asked' \in [Connections -> Nat]
         /\ gone' \in [Connections -> BOOLEAN]
         /\ \A c \in Connections : conn'[c] = IF c \in cs THEN "closed" ELSE conn[c]
BY DEF Drop, TypeOK

LEMMA CloseTypes ==
  ASSUME TypeOK, NEW w \in Workers, Close(w)
  PROVE  /\ conn' \in [Connections -> {"none", "queued", "open", "closed"}]
         /\ asked' \in [Connections -> Nat]
         /\ gone' \in [Connections -> BOOLEAN]
         /\ serving' \in [Workers -> Connections \cup {Nobody}]
         /\ left' \in [Workers -> Nat]
         /\ at' \in [Workers -> WorkerAt]
<1>1. Drop({serving[w]})
  BY DEF Close
<1> QED
  BY <1>1, DropTypes DEF Close, TypeOK, WorkerAt

LEMMA NextTypes == TypeOK /\ Ownership /\ [Next]_vars => TypeOK'
<1> SUFFICES ASSUME TypeOK, Ownership, [Next]_vars PROVE TypeOK'
  OBVIOUS
<1> USE DEF listening, pool, clients
<1>1. CASE Bind
  BY <1>1 DEF TypeOK, Bind, ListenerAt
<1>2. CASE FailBind
  BY <1>2 DEF TypeOK, FailBind, ListenerAt
<1>3. CASE StartListening
  BY <1>3 DEF TypeOK, StartListening, ListenerAt, WorkerAt
<1>4. CASE Accept
  <2>1. Head(backlog) \in Connections /\ Tail(backlog) \in Seq(Connections)
    BY <1>4, HeadTailProperties DEF Accept, TypeOK
  <2>2. conn' \in [Connections -> {"none", "queued", "open", "closed"}]
    BY <1>4, <2>1 DEF Accept, TypeOK
  <2> QED
    BY <1>4, <2>1, <2>2 DEF TypeOK, Accept, ListenerAt
<1>5. CASE FailAccept
  <2>1. CASE UNCHANGED clients
    BY <1>5, <2>1 DEF TypeOK, FailAccept, ListenerAt
  <2>2. CASE svrSock' = "dead" /\ DropBacklog
    <3>1. <<>> \in Seq(Connections)
      OBVIOUS
    <3>2. Drop({c \in Connections : conn[c] = "queued"})
      BY <2>2 DEF DropBacklog
    <3> QED
      BY <1>5, <2>2, <3>1, <3>2, DropTypes DEF TypeOK, FailAccept, DropBacklog, ListenerAt
  <2> QED
    BY <1>5, <2>1, <2>2 DEF FailAccept
<1>6. CASE Enqueue \/ Refuse
  <2>1. CASE Enqueue
    <3>1. held \in Connections
      BY <2>1 DEF TypeOK, Enqueue, Ownership, HeldOpen
    <3>2. Append(jobs, held) \in Seq(Connections)
      BY <3>1 DEF TypeOK
    <3> QED
      BY <2>1, <3>2 DEF TypeOK, Enqueue, ListenerAt
  <2>2. CASE Refuse
    BY <2>2, DropTypes DEF TypeOK, Refuse, ListenerAt
  <2> QED
    BY <1>6, <2>1, <2>2
<1>7. CASE NotifyOne
  BY <1>7 DEF TypeOK, NotifyOne, ListenerAt, WorkerAt
<1>8. CASE ShutDown
  BY <1>8 DEF TypeOK, ShutDown, ListenerAt
<1>9. CASE NotifyAll
  BY <1>9 DEF TypeOK, NotifyAll, ListenerAt, WorkerAt
<1>10. CASE Join
  BY <1>10 DEF TypeOK, Join, ListenerAt
<1>11. ASSUME NEW w \in Workers, Take(w) PROVE TypeOK'
  <2>1. CASE jobs # <<>>
    <3>1. Head(jobs) \in Connections /\ Tail(jobs) \in Seq(Connections)
      BY <2>1, HeadTailProperties DEF TypeOK
    <3> QED
      BY <1>11, <2>1, <3>1, LimitAssumption DEF TypeOK, Take, WorkerAt, Busy
  <2>2. CASE jobs = <<>>
    BY <1>11, <2>2 DEF TypeOK, Take, WorkerAt
  <2> QED
    BY <2>1, <2>2
<1>12. ASSUME NEW w \in Workers, KeepAlive(w) PROVE TypeOK'
  <2>1. CASE Close(w)
    BY <1>12, <2>1, CloseTypes DEF TypeOK, KeepAlive
  <2>2. CASE (\E stage \in {"read", "poll"} : GoOn(w, stage)) /\ UNCHANGED <<left, asked>>
    BY <1>12, <2>2 DEF TypeOK, KeepAlive, GoOn, WorkerAt, Busy
  <2> QED
    BY <1>12, <2>1, <2>2 DEF KeepAlive
<1>13. ASSUME NEW w \in Workers, ReadRequest(w) PROVE TypeOK'
  <2>1. CASE Close(w)
    BY <1>13, <2>1, CloseTypes DEF TypeOK, ReadRequest
  <2>2. CASE asked[serving[w]] > 0
    <3>1. serving[w] \in Connections
      BY <1>13 DEF TypeOK, ReadRequest, Ownership, ServingOpen, Busy
    <3>2. asked[serving[w]] - 1 \in Nat
      BY <2>2, <3>1 DEF TypeOK
    <3>3. asked' \in [Connections -> Nat]
      BY <1>13, <2>2, <3>1, <3>2 DEF TypeOK, ReadRequest
    <3> QED
      BY <1>13, <2>2, <3>3 DEF TypeOK, ReadRequest, GoOn, WorkerAt, Busy
  <2> QED
    BY <1>13, <2>1, <2>2 DEF ReadRequest
<1>14. ASSUME NEW w \in Workers, NEW more \in BOOLEAN, Answer(w, more) PROVE TypeOK'
  <2>1. CASE Close(w)
    BY <1>14, <2>1, CloseTypes DEF TypeOK, Answer
  <2>2. CASE more /\ left[w] > 1
    <3>1. left[w] - 1 \in Nat
      BY <2>2 DEF TypeOK
    <3>2. left' \in [Workers -> Nat]
      BY <1>14, <2>2, <3>1 DEF TypeOK, Answer
    <3> QED
      BY <1>14, <2>2, <3>2 DEF TypeOK, Answer, GoOn, WorkerAt, Busy
  <2> QED
    BY <1>14, <2>1, <2>2 DEF Answer
<1>15. ASSUME NEW w \in Workers, SpuriousWakeup(w) PROVE TypeOK'
  BY <1>15 DEF TypeOK, SpuriousWakeup, WorkerAt
<1>16. ASSUME NEW c \in Connections, Connect(c) PROVE TypeOK'
  <2>1. Append(backlog, c) \in Seq(Connections)
    BY DEF TypeOK
  <2> QED
    BY <1>16, <2>1 DEF TypeOK, Connect
<1>17. ASSUME NEW c \in Connections, Ask(c) \/ Leave(c) PROVE TypeOK'
  <2>1. asked[c] + 1 \in Nat
    BY DEF TypeOK
  <2> QED
    BY <1>17, <2>1 DEF TypeOK, Ask, Leave
<1>18. CASE Stop
  <2>1. CASE UNCHANGED <<svrSock, clients>>
    BY <1>18, <2>1 DEF TypeOK, Stop
  <2>2. CASE svrSock' = "invalid" /\ DropBacklog
    <3>1. <<>> \in Seq(Connections)
      OBVIOUS
    <3>2. Drop({c \in Connections : conn[c] = "queued"})
      BY <2>2 DEF DropBacklog
    <3> QED
      BY <1>18, <2>2, <3>1, <3>2, DropTypes DEF TypeOK, Stop, DropBacklog
  <2> QED
    BY <1>18, <2>1, <2>2 DEF Stop
<1>19. CASE UNCHANGED vars
  BY <1>19 DEF TypeOK, vars
<1> QED
  BY <1>1, <1>2, <1>3, <1>4, <1>5, <1>6, <1>7, <1>8, <1>9, <1>10, <1>11, <1>12, <1>13,
     <1>14, <1>15, <1>16, <1>17, <1>18, <1>19 DEF Next, Listener, Worker

------------------------------------------------------------------------------
(* What is left of a sequence without its head.                            *)
LEMMA Popped ==
  ASSUME NEW S, NEW s \in Seq(S), s # <<>>
  PROVE  /\ Head(s) \in S /\ Head(s) = s[1]
         /\ Len(s) \in Nat \ {0} /\ Len(Tail(s)) = Len(s) - 1
         /\ \A i \in 1 .. Len(Tail(s)) : i + 1 \in 1 .. Len(s) /\ Tail(s)[i] = s[i + 1]
         /\ \A i \in 1 .. Len(s) :
              s[i] \in S /\ (i # 1 => i - 1 \in 1 .. Len(Tail(s)) /\ Tail(s)[i - 1] = s[i])
<1>1. /\ Head(s) \in S /\ Head(s) = s[1]
      /\ Len(s) \in Nat \ {0} /\ Len(Tail(s)) = Len(s) - 1
      /\ \A i \in 1 .. Len(Tail(s)) : Tail(s)[i] = s[i + 1]
      /\ \A i \in 1 .. Len(s) : s[i] \in S
  BY HeadTailProperties, EmptySeq, LenProperties, ElementOfSeq
<1>2. \A i \in 1 .. Len(s) : i # 1 => i - 1 \in 1 .. Len(Tail(s)) /\ (i - 1) + 1 = i
  BY <1>1
<1>3. \A i \in 1 .. Len(s) : i # 1 => Tail(s)[i - 1] = s[i]
  <2> SUFFICES ASSUME NEW i \in 1 .. Len(s), i # 1 PROVE Tail(s)[i - 1] = s[i]
    OBVIOUS
  <2>1. Tail(s)[i - 1] = s[(i - 1) + 1]
    BY <1>1, <1>2
  <2> QED
    BY <1>2, <2>1
<1>4. \A i \in 1 .. Len(Tail(s)) : i + 1 \in 1 .. Len(s)
  BY <1>1
<1> QED
  BY <1>1, <1>2, <1>3, <1>4

(* What the connections' owners are read from.                             *)
OwnerState == <<held, jobs, serving, conn, backlog>>

(* A step that moves threads on, no connection from owner to owner.        *)
LEMMA OwnersKept ==
  ASSUME Ownership, UNCHANGED OwnerState,
         listener = "enqueue" <=> listener' = "enqueue",
         \A w \in Workers : at[w] \in Busy <=> at'[w] \in Busy
  PROVE  Ownership'
<1> USE DEF OwnerState
<1>1. \A c : InJobs(c)' = InJobs(c) /\ Served(c)' = Served(c)
  BY DEF InJobs, Served
<1>2. HeldOpen' /\ JobsOpen' /\ OpenOwned' /\ BacklogQueued'
  BY <1>1 DEF Ownership, HeldOpen, JobsOpen, OpenOwned, BacklogQueued
<1>3. ServingOpen'
  BY DEF Ownership, ServingOpen
<1> QED
  BY <1>2, <1>3 DEF Ownership

(* The connections that wait for accept() are lost: nobody owns them.      *)
LEMMA BacklogDropped ==
  ASSUME TypeOK, Ownership, DropBacklog, UNCHANGED <<held, jobs, serving, at>>,
         listener = "enqueue" <=> listener' = "enqueue"
  PROVE  Ownership'
<1>1. \A c : InJobs(c)' = InJobs(c) /\ Served(c)' = Served(c)
  BY DEF InJobs, Served
<1>2. \A c \in Connections : conn'[c] = IF conn[c] = "queued" THEN "closed" ELSE conn[c]
  BY DropTypes DEF DropBacklog
<1>3. HeldOpen'
  BY <1>1, <1>2 DEF Ownership, HeldOpen, TypeOK
<1>4. JobsOpen'
  <2>1. \A i \in 1 .. Len(jobs) : jobs[i] \in Connections
    BY ElementOfSeq DEF TypeOK
  <2> QED
    BY <1>1, <1>2, <2>1 DEF Ownership, JobsOpen
<1>5. ServingOpen'
  BY <1>2 DEF Ownership, ServingOpen, TypeOK
<1>6. OpenOwned'
  BY <1>1, <1>2 DEF Ownership, OpenOwned
<1>7. BacklogQueued'
  <2>1. backlog' = <<>> /\ Len(<<>>) = 0
    BY DEF DropBacklog
  <2> QED
    BY <2>1 DEF BacklogQueued
<1> QED
  BY <1>3, <1>4, <1>5, <1>6, <1>7 DEF Ownership

(* The listener takes a connection from the backlog, which no one owns.    *)
LEMMA AcceptOwned == TypeOK /\ Ownership /\ Accept => Ownership'
<1> SUFFICES ASSUME TypeOK, Ownership, Accept PROVE Ownership'
  OBVIOUS
<1> DEFINE c == Head(backlog)
<1>1. /\ c \in Connections
      /\ c = backlog[1]
      /\ Len(backlog) \in Nat /\ Len(backlog) >= 1
      /\ Len(Tail(backlog)) = Len(backlog) - 1
      /\ \A i \in 1 .. Len(Tail(backlog)) : Tail(backlog)[i] = backlog[i + 1]
  BY HeadTailProperties, EmptySeq, LenProperties DEF Accept, TypeOK
<1>2. conn[c] = "queued"
  BY <1>1 DEF Ownership, BacklogQueued
<1>3. \A d \in Connections : conn'[d] = IF d = c THEN "open" ELSE conn[d]
  BY <1>1 DEF Accept, TypeOK
<1>4. UNCHANGED <<jobs, serving, at>> /\ held' = c /\ listener' = "enqueue"
  BY DEF Accept, pool
<1>5. \A d : InJobs(d)' = InJobs(d) /\ Served(d)' = Served(d)
  BY <1>4 DEF InJobs, Served
<1>6. ~ InJobs(c) /\ ~ Served(c)
  BY <1>1, <1>2, NobodyAssumption DEF Ownership, JobsOpen, ServingOpen, InJobs, Served, TypeOK
<1>7. \A i \in 1 .. Len(jobs) : jobs[i] \in Connections
  BY ElementOfSeq DEF TypeOK
<1> HIDE DEF c
<1>8. HeldOpen'
  BY <1>1, <1>3, <1>4, <1>5, <1>6, NobodyAssumption DEF HeldOpen
<1>9. JobsOpen'
  BY <1>2, <1>3, <1>4, <1>5, <1>7 DEF Ownership, JobsOpen
<1>10. ServingOpen'
  BY <1>2, <1>3, <1>4 DEF Ownership, ServingOpen, TypeOK
<1>11. OpenOwned'
  <2>1. listener = "accept" /\ held = Nobody
    BY DEF Accept, Ownership, HeldOpen
  <2> QED
    BY <1>3, <1>4, <1>5, <2>1, NobodyAssumption DEF Ownership, OpenOwned
<1>12. BacklogQueued'
  <2>1. backlog' = Tail(backlog)
    BY DEF Accept
  <2>2. \A i \in 1 .. Len(Tail(backlog)) : backlog[i + 1] \in Connections /\ backlog[i + 1] # c
    BY <1>1, ElementOfSeq DEF Ownership, BacklogQueued, TypeOK
  <2>3. \A i \in 1 .. Len(Tail(backlog)) : conn'[Tail(backlog)[i]] = "queued"
    <3>1. \A i \in 1 .. Len(Tail(backlog)) : i + 1 \in 1 .. Len(backlog)
      BY <1>1
    <3> QED
      BY <1>1, <1>3, <2>2, <3>1 DEF Ownership, BacklogQueued
  <2>4. \A i, j \in 1 .. Len(Tail(backlog)) : Tail(backlog)[i] = Tail(backlog)[j] => i = j
    <3> SUFFICES ASSUME NEW i \in 1 .. Len(Tail(backlog)), NEW j \in 1 .. Len(Tail(backlog)),
                        Tail(backlog)[i] = Tail(backlog)[j]
                 PROVE  i = j
      OBVIOUS
    <3>1. i + 1 \in 1 .. Len(backlog) /\ j + 1 \in 1 .. Len(backlog) /\ i \in Int /\ j \in Int
      BY <1>1
    <3>2. backlog[i + 1] = backlog[j + 1]
      BY <1>1
    <3>3. i + 1 = j + 1
      BY <3>1, <3>2 DEF Ownership, BacklogQueued
    <3> QED
      BY <3>1, <3>3
  <2> QED
    BY <2>1, <2>3, <2>4 DEF BacklogQueued
<1> QED
  BY <1>8, <1>9, <1>10, <1>11, <1>12 DEF Ownership

(* ... and hands it to the queue ...                                       *)
LEMMA EnqueueOwned == TypeOK /\ Ownership /\ Enqueue => Ownership'
<1> SUFFICES ASSUME TypeOK, Ownership, Enqueue PROVE Ownership'
  OBVIOUS
<1>1. held \in Connections /\ listener = "enqueue" /\ listener' = "notify"
  BY DEF TypeOK, Enqueue, Ownership, HeldOpen
<1>2. /\ Len(jobs) \in Nat
      /\ Len(jobs') = Len(jobs) + 1
      /\ \A i \in 1 .. Len(jobs) : jobs'[i] = jobs[i]
      /\ jobs'[Len(jobs) + 1] = held
  BY <1>1, AppendProperties, LenProperties DEF TypeOK, Enqueue
<1>3. UNCHANGED <<serving, at, conn, backlog>> /\ held' = Nobody
  BY DEF Enqueue, clients
<1>4. \A c : Served(c)' = Served(c)
  BY <1>3 DEF Served
<1>5. \A c : InJobs(c)' <=> InJobs(c) \/ c = held
  BY <1>2 DEF InJobs
<1>6. conn[held] = "open" /\ ~ InJobs(held) /\ ~ Served(held)
  BY <1>1 DEF Ownership, HeldOpen
<1>7. HeldOpen'
  BY <1>1, <1>3 DEF HeldOpen
<1>8. JobsOpen'
  BY <1>2, <1>3, <1>4, <1>6 DEF Ownership, JobsOpen, InJobs
<1>9. ServingOpen' /\ BacklogQueued'
  BY <1>3 DEF Ownership, ServingOpen, BacklogQueued
<1>10. OpenOwned'
  BY <1>3, <1>4, <1>5 DEF Ownership, OpenOwned
<1> QED
  BY <1>7, <1>8, <1>9, <1>10 DEF Ownership

(* ... or closes it.                                                       *)
LEMMA RefuseOwned == TypeOK /\ Ownership /\ Refuse => Ownership'
<1> SUFFICES ASSUME TypeOK, Ownership, Refuse PROVE Ownership'
  OBVIOUS
<1>1. held \in Connections /\ conn[held] = "open" /\ ~ InJobs(held) /\ ~ Served(held)
  BY DEF TypeOK, Refuse, Ownership, HeldOpen
<1>2. UNCHANGED <<jobs, serving, at, backlog>> /\ held' = Nobody /\ listener' = "accept"
  BY DEF Refuse, pool
<1>3. \A c \in Connections : conn'[c] = IF c = held THEN "closed" ELSE conn[c]
  BY DropTypes DEF Refuse
<1>4. \A c : InJobs(c)' = InJobs(c) /\ Served(c)' = Served(c)
  BY <1>2 DEF InJobs, Served
<1>5. /\ \A i \in 1 .. Len(jobs) : jobs[i] \in Connections /\ jobs[i] # held
      /\ \A i \in 1 .. Len(backlog) : backlog[i] \in Connections /\ backlog[i] # held
      /\ \A w \in Workers : serving[w] # held
  BY <1>1, ElementOfSeq DEF TypeOK, InJobs, Served, Ownership, BacklogQueued
<1>6. HeldOpen'
  BY <1>2 DEF HeldOpen
<1>7. JobsOpen'
  BY <1>2, <1>3, <1>4, <1>5 DEF Ownership, JobsOpen
<1>8. ServingOpen'
  BY <1>2, <1>3, <1>5 DEF Ownership, ServingOpen, TypeOK
<1>9. OpenOwned'
  BY <1>2, <1>3, <1>4 DEF Ownership, OpenOwned
<1>10. BacklogQueued'
  BY <1>2, <1>3, <1>5 DEF Ownership, BacklogQueued
<1> QED
  BY <1>6, <1>7, <1>8, <1>9, <1>10 DEF Ownership

(* A worker takes a connection from the queue ...                          *)
LEMMA TakeOwned ==
  ASSUME TypeOK, Ownership, NEW w \in Workers, Take(w)
  PROVE  Ownership'
<1>0. UNCHANGED <<held, conn, backlog, listener>>
  BY DEF Take, listening, clients
<1>1. CASE jobs = <<>>
  BY <1>0, <1>1, OwnersKept DEF Take, OwnerState, TypeOK, Busy
<1>2. CASE jobs # <<>>
  <2> DEFINE c == Head(jobs)
  <2>0. jobs' = Tail(jobs)
    BY <1>2 DEF Take
  <2>1. /\ c \in Connections /\ c = jobs[1]
        /\ Len(jobs) \in Nat \ {0} /\ Len(jobs') = Len(jobs) - 1
        /\ \A i \in 1 .. Len(jobs') : i + 1 \in 1 .. Len(jobs) /\ jobs'[i] = jobs[i + 1]
        /\ \A i \in 1 .. Len(jobs) :
             /\ jobs[i] \in Connections
             /\ i # 1 => i - 1 \in 1 .. Len(jobs') /\ jobs'[i - 1] = jobs[i]
    BY <1>2, <2>0, Popped DEF TypeOK
  <2>2. serving[w] = Nobody
    BY DEF Ownership, ServingOpen, Take, Busy
  <2>3. \A v \in Workers : serving'[v] = IF v = w THEN c ELSE serving[v]
    BY <1>2 DEF Take, TypeOK
  <2>4. \A v \in Workers : at'[v] \in Busy <=> v = w \/ at[v] \in Busy
    BY <1>2 DEF Take, TypeOK, Busy
  <2>5. conn[c] = "open" /\ ~ Served(c) /\ held # c
    <3>1. 1 \in 1 .. Len(jobs)
      BY <2>1
    <3> QED
      BY <2>1, <3>1, NobodyAssumption DEF Ownership, JobsOpen, HeldOpen, InJobs
  <2> HIDE DEF c
  <2>6. \A d \in Connections : Served(d)' <=> d = c \/ Served(d)
    BY <2>2, <2>3, NobodyAssumption DEF Served
  <2>7. \A d : InJobs(d) <=> d = c \/ InJobs(d)'
    <3>1. 1 \in 1 .. Len(jobs)
      BY <2>1
    <3>2. \A d : InJobs(d)' => InJobs(d)
      BY <2>1 DEF InJobs
    <3>3. \A d : InJobs(d) /\ d # c => InJobs(d)'
      BY <2>1 DEF InJobs
    <3>4. InJobs(c)
      BY <2>1, <3>1 DEF InJobs
    <3> QED
      BY <3>2, <3>3, <3>4
  <2>8. \A i \in 1 .. Len(jobs') : jobs'[i] # c
    <3>1. 1 \in 1 .. Len(jobs) /\ \A i \in 1 .. Len(jobs') : i + 1 # 1
      BY <2>1
    <3> QED
      BY <2>1, <3>1 DEF Ownership, JobsOpen
  <2>9. HeldOpen'
    BY <1>0, <2>5, <2>6, <2>7, NobodyAssumption DEF Ownership, HeldOpen, TypeOK
  <2>10. JobsOpen'
    <3>1. ASSUME NEW i \in 1 .. Len(jobs') PROVE (conn[jobs[i]] = "open" /\ ~ Served(jobs[i]))'
      <4>1. jobs'[i] = jobs[i + 1] /\ i + 1 \in 1 .. Len(jobs) /\ jobs[i + 1] \in Connections
        BY <2>1
      <4>2. jobs'[i] \in Connections /\ jobs'[i] # c /\ conn[jobs'[i]] = "open" /\ ~ Served(jobs'[i])
        BY <2>8, <4>1 DEF Ownership, JobsOpen
      <4>3. \A d \in Connections : d # c /\ ~ Served(d) => ~ Served(d)'
        BY <2>6
      <4> QED
        BY <1>0, <4>2, <4>3 DEF Served
    <3>2. \A i, j \in 1 .. Len(jobs') : i + 1 = j + 1 => i = j
      BY <2>1
    <3>3. \A i, j \in 1 .. Len(jobs') : jobs'[i] = jobs'[j] => i = j
      BY <2>1, <3>2 DEF Ownership, JobsOpen
    <3> QED
      BY <3>1, <3>3 DEF JobsOpen
  <2>11. ServingOpen'
    <3>1. \A v \in Workers : serving[v] # c
      BY <2>5 DEF Served
    <3>2. c # Nobody /\ conn' = conn
      BY <1>0, <2>1, NobodyAssumption
    <3>3. \A v \in Workers : serving'[v] # Nobody <=> at'[v] \in Busy
      BY <2>2, <2>3, <2>4, <3>2 DEF Ownership, ServingOpen
    <3>4. \A v \in Workers : serving'[v] # Nobody => conn'[serving'[v]] = "open"
      BY <2>3, <2>5, <3>2 DEF Ownership, ServingOpen
    <3>5. \A u, v \in Workers : serving'[u] = serving'[v] /\ serving'[u] # Nobody => u = v
      BY <2>3, <3>1 DEF Ownership, ServingOpen
    <3> QED
      BY <3>3, <3>4, <3>5 DEF ServingOpen
  <2>12. OpenOwned'
    BY <1>0, <2>6, <2>7 DEF Ownership, OpenOwned
  <2>13. BacklogQueued'
    BY <1>0 DEF Ownership, BacklogQueued
  <2> QED
    BY <2>9, <2>10, <2>11, <2>12, <2>13 DEF Ownership
<1> QED
  BY <1>1, <1>2

(* ... and closes it.                                                      *)
LEMMA CloseOwned ==
  ASSUME TypeOK, Ownership, NEW w \in Workers, at[w] \in Busy, Close(w),
         UNCHANGED <<held, jobs, backlog, listener>>
  PROVE  Ownership'
<1> DEFINE c == serving[w]
<1>1. c \in Connections /\ conn[c] = "open"
  BY DEF TypeOK, Ownership, ServingOpen
<1>2. \A d \in Connections : conn'[d] = IF d = c THEN "closed" ELSE conn[d]
  BY DropTypes DEF Close
<1>3. \A v \in Workers : /\ serving'[v] = IF v = w THEN Nobody ELSE serving[v]
                         /\ at'[v] \in Busy <=> v # w /\ at[v] \in Busy
  BY DEF Close, TypeOK, Busy
<1>4. \A v \in Workers : v # w => serving[v] # c
  BY <1>1, NobodyAssumption DEF Ownership, ServingOpen
<1> HIDE DEF c
<1>5. \A d \in Connections : Served(d)' <=> d # c /\ Served(d)
  <2>1. serving[w] = c
    BY DEF c
  <2> QED
    BY <1>3, <1>4, <2>1, NobodyAssumption DEF Served
<1>6. \A d : InJobs(d)' = InJobs(d)
  BY DEF InJobs
<1>7. Served(c)
  BY DEF Served, c
<1>8. /\ \A i \in 1 .. Len(jobs) : jobs[i] \in Connections /\ jobs[i] # c
      /\ \A i \in 1 .. Len(backlog) : backlog[i] \in Connections /\ backlog[i] # c
      /\ held # c
  BY <1>1, <1>7, NobodyAssumption, ElementOfSeq DEF TypeOK, Ownership, JobsOpen, BacklogQueued, HeldOpen
<1>9. HeldOpen'
  BY <1>2, <1>5, <1>6, <1>8 DEF Ownership, HeldOpen, TypeOK
<1>10. JobsOpen'
  BY <1>2, <1>5, <1>8 DEF Ownership, JobsOpen
<1>11. ServingOpen'
  BY <1>2, <1>3, <1>4 DEF Ownership, ServingOpen, TypeOK
<1>12. OpenOwned'
  BY <1>2, <1>5, <1>6 DEF Ownership, OpenOwned
<1>13. BacklogQueued'
  BY <1>2, <1>8 DEF Ownership, BacklogQueued
<1> QED
  BY <1>9, <1>10, <1>11, <1>12, <1>13 DEF Ownership

(* A client's connection waits for accept(), and is nobody's yet.          *)
LEMMA ConnectOwned ==
  ASSUME TypeOK, Ownership, NEW c \in Connections, Connect(c)
  PROVE  Ownership'
<1>1. UNCHANGED <<held, jobs, serving, at, listener>>
  BY DEF Connect, listening, pool
<1>2. conn[c] = "none" /\ \A d \in Connections : conn'[d] = IF d = c THEN "queued" ELSE conn[d]
  BY DEF Connect, TypeOK
<1>3. /\ Len(backlog) \in Nat
      /\ Len(backlog') = Len(backlog) + 1
      /\ \A i \in 1 .. Len(backlog) : backlog'[i] = backlog[i] /\ backlog[i] \in Connections
      /\ backlog'[Len(backlog) + 1] = c
  BY AppendProperties, LenProperties, ElementOfSeq DEF TypeOK, Connect
<1>4. \A d : InJobs(d)' = InJobs(d) /\ Served(d)' = Served(d)
  BY <1>1 DEF InJobs, Served
<1>5. HeldOpen'
  BY <1>1, <1>2, <1>4 DEF Ownership, HeldOpen, TypeOK
<1>6. JobsOpen'
  <2>1. \A i \in 1 .. Len(jobs) : jobs[i] \in Connections
    BY ElementOfSeq DEF TypeOK
  <2> QED
    BY <1>1, <1>2, <1>4, <2>1 DEF Ownership, JobsOpen
<1>7. ServingOpen'
  BY <1>1, <1>2 DEF Ownership, ServingOpen, TypeOK
<1>8. OpenOwned'
  BY <1>1, <1>2, <1>4 DEF Ownership, OpenOwned
<1>9. BacklogQueued'
  BY <1>2, <1>3 DEF Ownership, BacklogQueued
<1> QED
  BY <1>5, <1>6, <1>7, <1>8, <1>9 DEF Ownership

LEMMA NextOwnership == IInv /\ [Next]_vars => Ownership'
<1> SUFFICES ASSUME IInv, [Next]_vars PROVE Ownership'
  OBVIOUS
<1>0. TypeOK /\ Ownership /\ Lifetime
  BY DEF IInv
<1> USE DEF listening, pool, clients
<1>1. CASE Bind \/ FailBind \/ NotifyOne \/ ShutDown \/ NotifyAll \/ Join
  <2>1. UNCHANGED OwnerState /\ listener # "enqueue" /\ listener' # "enqueue"
    BY <1>1 DEF Bind, FailBind, NotifyOne, ShutDown, NotifyAll, Join, OwnerState
  <2>2. \A w \in Workers : at[w] \in Busy <=> at'[w] \in Busy
    BY <1>0, <1>1 DEF Bind, FailBind, NotifyOne, ShutDown, NotifyAll, Join, TypeOK, Busy
  <2> QED
    BY <1>0, <2>1, <2>2, OwnersKept
<1>2. CASE StartListening
  BY <1>0, <1>2, OwnersKept DEF StartListening, OwnerState, Lifetime, Busy
<1>3. CASE Accept
  BY <1>0, <1>3, AcceptOwned
<1>4. CASE FailAccept
  <2>1. UNCHANGED <<held, jobs, serving, at>> /\ listener # "enqueue" /\ listener' # "enqueue"
    BY <1>4 DEF FailAccept
  <2>2. CASE UNCHANGED clients
    BY <1>0, <2>1, <2>2, OwnersKept DEF OwnerState
  <2>3. CASE DropBacklog
    BY <1>0, <2>1, <2>3, BacklogDropped
  <2> QED
    BY <1>4, <2>2, <2>3 DEF FailAccept
<1>5. CASE Enqueue
  BY <1>0, <1>5, EnqueueOwned
<1>6. CASE Refuse
  BY <1>0, <1>6, RefuseOwned
<1>7. ASSUME NEW w \in Workers, Take(w) PROVE Ownership'
  BY <1>0, <1>7, TakeOwned
<1>8. ASSUME NEW w \in Workers,
             KeepAlive(w) \/ ReadRequest(w) \/ \E more \in BOOLEAN : Answer(w, more)
      PROVE  Ownership'
  <2>1. UNCHANGED <<held, jobs, backlog, listener>> /\ at[w] \in Busy
    BY <1>8 DEF KeepAlive, ReadRequest, Answer, Busy
  <2>2. CASE Close(w)
    BY <1>0, <2>1, <2>2, CloseOwned
  <2>3. CASE \E stage \in Busy : GoOn(w, stage)
    BY <1>0, <2>1, <2>3, OwnersKept DEF GoOn, OwnerState, TypeOK
  <2> QED
    BY <1>8, <2>2, <2>3 DEF KeepAlive, ReadRequest, Answer, Busy
<1>9. ASSUME NEW w \in Workers, SpuriousWakeup(w) PROVE Ownership'
  BY <1>0, <1>9, OwnersKept DEF SpuriousWakeup, OwnerState, TypeOK, Busy
<1>10. ASSUME NEW c \in Connections, Connect(c) PROVE Ownership'
  BY <1>0, <1>10, ConnectOwned
<1>11. ASSUME NEW c \in Connections, Ask(c) \/ Leave(c) PROVE Ownership'
  BY <1>0, <1>11, OwnersKept DEF Ask, Leave, OwnerState
<1>12. CASE Stop
  <2>1. UNCHANGED <<held, jobs, serving, at, listener>>
    BY <1>12 DEF Stop
  <2>2. CASE UNCHANGED clients
    BY <1>0, <2>1, <2>2, OwnersKept DEF OwnerState
  <2>3. CASE DropBacklog
    BY <1>0, <2>1, <2>3, BacklogDropped
  <2> QED
    BY <1>12, <2>2, <2>3 DEF Stop
<1>13. CASE UNCHANGED vars
  BY <1>0, <1>13, OwnersKept DEF vars, OwnerState
<1> QED
  BY <1>1, <1>2, <1>3, <1>4, <1>5, <1>6, <1>7, <1>8, <1>9, <1>10, <1>11, <1>12, <1>13
  DEF Next, Listener, Worker

------------------------------------------------------------------------------
(* A worker exits only when the queue is empty for good.                   *)
LEMMA NextLifetime == IInv /\ [Next]_vars => Lifetime'
<1> SUFFICES ASSUME IInv, [Next]_vars PROVE Lifetime'
  OBVIOUS
<1>0. TypeOK /\ Lifetime
  BY DEF IInv
<1> USE <1>0 DEF listening, pool, clients
<1>1. CASE Bind \/ FailBind \/ Refuse \/ ShutDown \/ FailAccept \/ Accept
  BY <1>1 DEF Bind, FailBind, Refuse, ShutDown, FailAccept, Accept, Lifetime
<1>2. CASE StartListening
  BY <1>2, WorkerAssumption DEF StartListening, Lifetime
<1>3. CASE Enqueue
  <2>1. \A w \in Workers : at[w] \notin {"unborn", "exited"}
    BY <1>3 DEF Enqueue, Lifetime
  <2> QED
    BY <1>3, <2>1 DEF Enqueue, Lifetime
<1>4. CASE NotifyOne
  BY <1>4 DEF NotifyOne, Lifetime, TypeOK
<1>5. CASE NotifyAll
  BY <1>5 DEF NotifyAll, Lifetime, TypeOK
<1>6. CASE Join
  BY <1>6 DEF Join, Lifetime
<1>7. ASSUME NEW w \in Workers, Take(w) PROVE Lifetime'
  <2>1. listener' = listener /\ shutdown' = shutdown /\ at[w] = "awake"
    BY <1>7 DEF Take
  <2>2. listener \notin {"bind", "bound", "returned"}
    BY <2>1 DEF Lifetime
  <2>3. CASE jobs # <<>>
    <3>1. \A v \in Workers : at[v] \notin {"unborn", "exited"}
      BY <2>3 DEF Lifetime
    <3>2. \A v \in Workers : at'[v] = IF v = w THEN "look" ELSE at[v]
      BY <1>7, <2>3 DEF Take, TypeOK
    <3> QED
      BY <2>1, <2>2, <3>1, <3>2 DEF Lifetime
  <2>4. CASE jobs = <<>>
    <3>1. jobs' = <<>> /\ \A v \in Workers :
            at'[v] = IF v # w THEN at[v] ELSE IF shutdown THEN "exited" ELSE "waiting"
      BY <1>7, <2>4 DEF Take, TypeOK
    <3> QED
      BY <2>1, <2>2, <3>1 DEF Lifetime
  <2> QED
    BY <2>3, <2>4
<1>8. ASSUME NEW w \in Workers,
             \/ KeepAlive(w) \/ ReadRequest(w) \/ SpuriousWakeup(w)
             \/ \E more \in BOOLEAN : Answer(w, more)
      PROVE  Lifetime'
  <2>1. UNCHANGED <<listener, jobs, shutdown>> /\ at[w] \in Busy \cup {"waiting"}
    BY <1>8 DEF KeepAlive, ReadRequest, SpuriousWakeup, Answer, Busy
  <2>2. \E stage \in Busy \cup {"awake"} : at' = [at EXCEPT ![w] = stage]
    BY <1>8 DEF KeepAlive, ReadRequest, SpuriousWakeup, Answer, Busy, GoOn, Close
  <2> QED
    BY <2>1, <2>2 DEF Lifetime, TypeOK, Busy
<1>9. CASE (\E c \in Connections : Connect(c) \/ Ask(c) \/ Leave(c)) \/ Stop \/ UNCHANGED vars
  BY <1>9 DEF Connect, Ask, Leave, Stop, vars, Lifetime
<1> QED
  BY <1>1, <1>2, <1>3, <1>4, <1>5, <1>6, <1>7, <1>8, <1>9 DEF Next, Listener, Worker

------------------------------------------------------------------------------
LEMMA AwakeFinite == IsFiniteSet(Awake) /\ Cardinality(Awake) \in Nat
<1>1. IsFiniteSet(Awake)
  BY WorkerAssumption, FS_Subset DEF Awake
<1> QED
  BY <1>1, FS_CardinalityType

(* How a step of one worker changes the number of those awake.             *)
LEMMA AwakeChange ==
  ASSUME TypeOK, NEW w \in Workers, NEW stage, at' = [at EXCEPT ![w] = stage]
  PROVE  /\ Cardinality(Awake') \in Nat
         /\ at[w] # "awake" /\ stage = "awake" => Cardinality(Awake') = Cardinality(Awake) + 1
         /\ at[w] = "awake" /\ stage # "awake" => Cardinality(Awake') = Cardinality(Awake) - 1
         /\ at[w] # "awake" /\ stage # "awake" => Cardinality(Awake') = Cardinality(Awake)
<1>1. Awake' = IF stage = "awake" THEN Awake \cup {w} ELSE Awake \ {w}
  BY DEF Awake, TypeOK
<1>2. w \in Awake <=> at[w] = "awake"
  BY DEF Awake
<1>3. /\ IsFiniteSet(Awake')
      /\ stage = "awake" => Cardinality(Awake') = IF w \in Awake THEN Cardinality(Awake) ELSE Cardinality(Awake) + 1
      /\ stage # "awake" => Cardinality(Awake') = IF w \in Awake THEN Cardinality(Awake) - 1 ELSE Cardinality(Awake)
  BY <1>1, AwakeFinite, FS_AddElement, FS_RemoveElement
<1>4. Cardinality(Awake') \in Nat
  BY <1>3, FS_CardinalityType
<1> QED
  BY <1>2, <1>3, <1>4

LEMMA NextWakeups == IInv /\ [Next]_vars => Wakeups'
<1> SUFFICES ASSUME IInv, [Next]_vars PROVE Wakeups'
  OBVIOUS
<1>0. TypeOK /\ Lifetime /\ Wakeups /\ Cardinality(Awake) \in Nat /\ Len(jobs) \in Nat
  BY AwakeFinite, LenProperties DEF IInv, TypeOK
<1> USE DEF listening, pool, clients
<1>1. CASE \/ Bind \/ FailBind \/ Accept \/ FailAccept \/ Refuse \/ ShutDown \/ Stop \/ UNCHANGED vars
           \/ \E c \in Connections : Connect(c) \/ Ask(c) \/ Leave(c)
  <2>1. UNCHANGED <<at, jobs>> /\ (listener' # "join" \/ UNCHANGED listener)
        /\ (listener = "notify" <=> listener' = "notify")
        /\ (listener' = "returned" => listener \in {"bind", "returned"})
    BY <1>1 DEF Bind, FailBind, Accept, FailAccept, Refuse, ShutDown, Stop, vars, Connect, Ask, Leave
  <2>2. Awake' = Awake
    BY <2>1 DEF Awake
  <2> QED
    BY <1>0, <2>1, <2>2 DEF Wakeups, Lifetime
<1>2. CASE StartListening \/ NotifyAll
  BY <1>2 DEF StartListening, NotifyAll, Wakeups, TypeOK
<1>3. CASE Enqueue
  <2>1. UNCHANGED at /\ Len(jobs') = Len(jobs) + 1 /\ listener = "enqueue" /\ listener' = "notify"
    <3>1. held \in Connections
      BY <1>3 DEF IInv, TypeOK, Enqueue, Ownership, HeldOpen
    <3> QED
      BY <1>3, <3>1, AppendProperties DEF Enqueue, IInv, TypeOK
  <2>2. Awake' = Awake
    BY <2>1 DEF Awake
  <2> QED
    BY <1>0, <2>1, <2>2 DEF Wakeups
<1>4. CASE NotifyOne
  <2>1. UNCHANGED jobs /\ listener = "notify" /\ listener' = "accept"
    BY <1>4 DEF NotifyOne
  <2>2. CASE \E w \in Workers : at[w] = "waiting"
    <3>1. PICK w \in Workers : at[w] = "waiting" /\ at' = [at EXCEPT ![w] = "awake"]
      BY <1>4, <2>2 DEF NotifyOne
    <3>2. Cardinality(Awake') = Cardinality(Awake) + 1
      BY <1>0, <3>1, AwakeChange
    <3> QED
      BY <1>0, <2>1, <2>2, <3>2 DEF Wakeups
  <2>3. CASE ~ \E w \in Workers : at[w] = "waiting"
    BY <1>4, <2>3 DEF NotifyOne, Wakeups
  <2> QED
    BY <2>2, <2>3
<1>5. CASE Join
  BY <1>5 DEF Join, Wakeups
<1>6. ASSUME NEW w \in Workers, Take(w) PROVE Wakeups'
  <2>1. listener' = listener /\ shutdown' = shutdown /\ at[w] = "awake"
    BY <1>6 DEF Take
  <2>2. CASE jobs # <<>>
    <3>1. jobs' = Tail(jobs) /\ at' = [at EXCEPT ![w] = "look"]
      BY <1>6, <2>2 DEF Take
    <3>2. Len(jobs') = Len(jobs) - 1
      BY <1>0, <2>2, <3>1, HeadTailProperties DEF TypeOK
    <3>3. Cardinality(Awake') = Cardinality(Awake) - 1
      <4>1. PICK stage : stage # "awake" /\ at' = [at EXCEPT ![w] = stage]
        BY <3>1
      <4> QED
        BY <1>0, <2>1, <4>1, AwakeChange
    <3>4. \A v \in Workers : at'[v] = "waiting" => at[v] = "waiting"
      BY <1>0, <3>1 DEF TypeOK
    <3> QED
      BY <1>0, <2>1, <3>2, <3>3, <3>4 DEF Wakeups
  <2>3. CASE jobs = <<>> /\ shutdown
    <3>1. jobs' = jobs /\ at' = [at EXCEPT ![w] = "exited"]
      BY <1>6, <2>3 DEF Take
    <3>2. \A v \in Workers : at'[v] = "waiting" => at[v] = "waiting"
      BY <1>0, <3>1 DEF TypeOK
    <3>3. Cardinality(Awake') \in Nat
      BY <1>0, <3>1, AwakeChange
    <3>4. Cardinality(Awake') + (IF listener' = "notify" THEN 1 ELSE 0) >= 0
      BY <3>3
    <3> QED
      BY <1>0, <2>1, <2>3, <3>1, <3>2, <3>4, EmptySeq DEF Wakeups
  <2>4. CASE jobs = <<>> /\ ~ shutdown
    <3>1. listener \notin {"join", "returned"}
      BY <1>0, <2>1, <2>4 DEF Lifetime
    <3>2. jobs' = <<>> /\ Len(<<>>) = 0
      BY <1>6, <2>4 DEF Take
    <3>3. Cardinality(Awake') \in Nat
      BY <1>0, <1>6, <2>4, AwakeChange DEF Take
    <3> QED
      BY <2>1, <3>1, <3>2, <3>3 DEF Wakeups
  <2> QED
    BY <1>0, <2>2, <2>3, <2>4 DEF TypeOK
<1>7. ASSUME NEW w \in Workers,
             \/ KeepAlive(w) \/ ReadRequest(w) \/ SpuriousWakeup(w)
             \/ \E more \in BOOLEAN : Answer(w, more)
      PROVE  Wakeups'
  <2>1. UNCHANGED <<listener, jobs, shutdown>> /\ at[w] \in Busy \cup {"waiting"}
    BY <1>7 DEF KeepAlive, ReadRequest, SpuriousWakeup, Answer, Busy
  <2>2. PICK stage \in Busy \cup {"awake"} : at' = [at EXCEPT ![w] = stage]
    BY <1>7 DEF KeepAlive, ReadRequest, SpuriousWakeup, Answer, Busy, GoOn, Close
  <2>3. at[w] # "awake"
    BY <2>1 DEF Busy
  <2>4. \A v \in Workers : at'[v] = "waiting" => at[v] = "waiting"
    BY <1>0, <2>1, <2>2 DEF TypeOK, Busy
  <2>5. Cardinality(Awake') \in Nat /\ Cardinality(Awake') >= Cardinality(Awake)
    <3> DEFINE here == stage
    <3>1. at' = [at EXCEPT ![w] = here]
      BY <2>2
    <3> HIDE DEF here
    <3>2. /\ Cardinality(Awake') \in Nat
          /\ Cardinality(Awake') = Cardinality(Awake) + 1 \/ Cardinality(Awake') = Cardinality(Awake)
      BY <1>0, <2>3, <3>1, AwakeChange
    <3> QED
      BY <1>0, <3>2
  <2> QED
    BY <1>0, <2>1, <2>4, <2>5 DEF Wakeups
<1> QED
  BY <1>1, <1>2, <1>3, <1>4, <1>5, <1>6, <1>7 DEF Next, Listener, Worker

LEMMA NextIInv == IInv /\ [Next]_vars => IInv'
<1> SUFFICES ASSUME IInv, [Next]_vars PROVE IInv'
  OBVIOUS
<1>1. TypeOK'
  BY NextTypes DEF IInv
<1> QED
  BY <1>1, NextOwnership, NextLifetime, NextWakeups DEF IInv

(* The invariant the theorems rest on: types, the owners of connections,   *)
(* the stages of listen() and the number of workers awake.                 *)
THEOREM Inductive == Spec => []IInv
BY InitIInv, NextIInv, PTL DEF Spec

------------------------------------------------------------------------------
(* Counting the places of a connection: one at most is filled.             *)
LEMMA CountOne ==
  ASSUME NEW S, NEW x \in S, NEW f, \A y \in S : f[y] = f[x] => y = x
  PROVE  Cardinality({y \in S : f[y] = f[x]}) = 1
<1>1. {y \in S : f[y] = f[x]} = {x}
  OBVIOUS
<1> QED
  BY <1>1, FS_Singleton

LEMMA QueuedCount ==
  ASSUME IInv, NEW c \in Connections
  PROVE  Queued(c) = IF InJobs(c) THEN 1 ELSE 0
<1>1. CASE InJobs(c)
  <2>1. PICK i \in 1 .. Len(jobs) : jobs[i] = c
    BY <1>1 DEF InJobs
  <2>2. \A j \in 1 .. Len(jobs) : jobs[j] = jobs[i] => j = i
    BY <2>1 DEF IInv, Ownership, JobsOpen
  <2>3. Cardinality({j \in 1 .. Len(jobs) : jobs[j] = jobs[i]}) = 1
    BY <2>2, CountOne
  <2> QED
    BY <1>1, <2>1, <2>3 DEF Queued
<1>2. CASE ~ InJobs(c)
  <2>1. {i \in 1 .. Len(jobs) : jobs[i] = c} = {}
    BY <1>2 DEF InJobs
  <2> QED
    BY <1>2, <2>1, FS_EmptySet DEF Queued
<1> QED
  BY <1>1, <1>2

LEMMA ServedCount ==
  ASSUME IInv, NEW c \in Connections
  PROVE  Cardinality({w \in Workers : serving[w] = c}) = IF Served(c) THEN 1 ELSE 0
<1>1. CASE Served(c)
  <2>1. PICK w \in Workers : serving[w] = c
    BY <1>1 DEF Served
  <2>2. \A v \in Workers : serving[v] = serving[w] => v = w
    BY <2>1, NobodyAssumption DEF IInv, Ownership, ServingOpen
  <2>3. Cardinality({v \in Workers : serving[v] = serving[w]}) = 1
    BY <2>2, CountOne
  <2> QED
    BY <1>1, <2>1, <2>3
<1>2. CASE ~ Served(c)
  <2>1. {w \in Workers : serving[w] = c} = {}
    BY <1>2 DEF Served
  <2> QED
    BY <1>2, <2>1, FS_EmptySet
<1> QED
  BY <1>1, <1>2

LEMMA OwnedIsOne == IInv => OneOwner
<1> SUFFICES ASSUME IInv, NEW c \in Connections
             PROVE  Owners(c) = IF conn[c] = "open" THEN 1 ELSE 0
  BY DEF OneOwner
<1>1. Owners(c) = (IF InJobs(c) THEN 1 ELSE 0) + (IF Served(c) THEN 1 ELSE 0)
                    + (IF held = c THEN 1 ELSE 0)
  BY QueuedCount, ServedCount DEF Owners
<1>2. /\ held = c => conn[c] = "open" /\ ~ InJobs(c) /\ ~ Served(c)
      /\ InJobs(c) => conn[c] = "open" /\ ~ Served(c)
      /\ Served(c) => conn[c] = "open"
      /\ conn[c] = "open" => held = c \/ InJobs(c) \/ Served(c)
  BY NobodyAssumption
  DEF IInv, Ownership, HeldOpen, JobsOpen, ServingOpen, OpenOwned, InJobs, Served
<1> QED
  BY <1>1, <1>2

(* No descriptor is leaked, and none is closed by one thread while another *)
(* uses it: an open connection has the listener, the queue or one worker   *)
(* as its only owner, whatever clients, stop() and errors do.              *)
THEOREM EveryConnectionOwned == Spec => []OneOwner
BY Inductive, OwnedIsOne, PTL

LEMMA EndIsEnd == IInv => NothingOutlivesListen
<1> SUFFICES ASSUME IInv, listener = "returned" PROVE NothingOutlivesListen
  BY DEF NothingOutlivesListen
<1>1. \A w \in Workers : at[w] \in {"unborn", "exited"}
  BY DEF IInv, Lifetime
<1>2. held = Nobody
  BY DEF IInv, Ownership, HeldOpen
<1>3. jobs = <<>>
  BY <1>1, WorkerAssumption DEF IInv, Lifetime
<1>4. \A c : ~ InJobs(c)
  BY <1>3, EmptySeq DEF InJobs
<1>5. \A w \in Workers : serving[w] = Nobody
  BY <1>1 DEF IInv, Ownership, ServingOpen, Busy
<1>6. \A c \in Connections : ~ Served(c)
  BY <1>5, NobodyAssumption DEF Served
<1> QED
  BY <1>1, <1>2, <1>4, <1>6, NobodyAssumption DEF NothingOutlivesListen, IInv, Ownership, OpenOwned

(* runServer's Server may go when listen() returns: no worker is left to   *)
(* call its handlers, and no connection is left open.                      *)
THEOREM ListenEndsAll == Spec => []NothingOutlivesListen
BY Inductive, EndIsEnd, PTL

LEMMA AwakeEnough == IInv => NoLostWakeup
<1> SUFFICES ASSUME IInv, \E w \in Workers : at[w] = "waiting", listener # "notify"
             PROVE  Len(jobs) <= Cardinality(Awake) /\ listener \notin {"join", "returned"}
  BY DEF NoLostWakeup, Awake
<1>1. Len(jobs) \in Nat /\ Cardinality(Awake) \in Nat
  BY AwakeFinite, LenProperties DEF IInv, TypeOK
<1> QED
  BY <1>1 DEF IInv, Wakeups

(* The condition variable of the pool loses no wakeup: one notification    *)
(* for each job is enough, though it is made after the lock is released.   *)
THEOREM NoWorkerOversleeps == Spec => []NoLostWakeup
BY Inductive, AwakeEnough, PTL

------------------------------------------------------------------------------
(* The server is the service of HttpService, step by step.                 *)
LEMMA StageOf ==
  ASSUME NEW c \in Connections
  PROVE  Stage[c] = IF conn[c] \in {"none", "queued"} THEN "out"
                    ELSE IF conn[c] = "closed" THEN "over"
                    ELSE IF Served(c) THEN "served" ELSE "inLine"
BY DEF Stage, Served

LEMMA StageOfNext ==
  ASSUME NEW c \in Connections
  PROVE  Stage'[c] = IF conn'[c] \in {"none", "queued"} THEN "out"
                     ELSE IF conn'[c] = "closed" THEN "over"
                     ELSE IF Served(c)' THEN "served" ELSE "inLine"
BY DEF Stage, Served

LEMMA StageFunction ==
  /\ Stage = [c \in Connections |-> Stage[c]]
  /\ Stage' = [c \in Connections |-> Stage'[c]]
BY DEF Stage

(* A step that changes the stage of one connection. *)
LEMMA StageChange ==
  ASSUME NEW c \in Connections, NEW s,
         \A d \in Connections : Stage'[d] = IF d = c THEN s ELSE Stage[d]
  PROVE  Stage' = [Stage EXCEPT ![c] = s]
BY StageFunction

LEMMA StageSame ==
  ASSUME \A d \in Connections : Stage'[d] = Stage[d]
  PROVE  Stage' = Stage
BY StageFunction

LEMMA InitService == Init => Service!Init
<1> SUFFICES ASSUME Init PROVE Service!Init
  OBVIOUS
<1>1. Stage = [c \in Connections |-> "out"]
  BY DEF Init, Stage
<1>2. Line = <<>>
  BY DEF Init, Line
<1> QED
  BY <1>1, <1>2 DEF Service!Init

(* The service sees nothing of a step that leaves owners and states alone, *)
(* or of a connection that waits for accept().                             *)
LEMMA ServiceStutters ==
  ASSUME UNCHANGED <<held, jobs, serving>>,
         \A c \in Connections :
           conn'[c] = conn[c] \/ (conn[c] \in {"none", "queued"} /\ conn'[c] \in {"none", "queued"})
  PROVE  UNCHANGED Service!vars
<1>1. \A c : Served(c)' = Served(c)
  BY DEF Served
<1>2. Stage' = Stage
  BY <1>1, StageOf, StageOfNext, StageSame
<1>3. Line' = Line
  BY DEF Line
<1> QED
  BY <1>2, <1>3 DEF Service!vars

LEMMA ServiceAbandons ==
  ASSUME TypeOK, DropBacklog, UNCHANGED <<held, jobs, serving>>
  PROVE  Service!Abandon
<1> DEFINE cs == {c \in Connections : conn[c] = "queued"}
<1>1. \A c : Served(c)' = Served(c)
  BY DEF Served
<1>2. \A c \in Connections : conn'[c] = IF conn[c] = "queued" THEN "closed" ELSE conn[c]
  BY DropTypes DEF DropBacklog
<1>3. cs \in SUBSET {c \in Connections : Stage[c] = "out"}
  BY StageOf
<1>4. \A c \in Connections : Stage'[c] = IF c \in cs THEN "over" ELSE Stage[c]
  BY <1>1, <1>2, StageOf, StageOfNext
<1>5. Stage' = [c \in Connections |-> IF c \in cs THEN "over" ELSE Stage[c]]
  BY <1>4, StageFunction
<1>6. Line' = Line
  BY DEF Line
<1> QED
  BY <1>3, <1>5, <1>6 DEF Service!Abandon

LEMMA ServiceEnters ==
  ASSUME TypeOK, Ownership, Accept
  PROVE  \E c \in Connections : Service!Enter(c)
<1> DEFINE c == Head(backlog)
<1>1. c \in Connections /\ c = backlog[1] /\ 1 \in 1 .. Len(backlog)
  BY Popped DEF Accept, TypeOK
<1>2. conn[c] = "queued"
  BY <1>1 DEF Ownership, BacklogQueued
<1>3. \A d \in Connections : conn'[d] = IF d = c THEN "open" ELSE conn[d]
  BY <1>1 DEF Accept, TypeOK
<1>4. UNCHANGED <<jobs, serving>> /\ held = Nobody /\ held' = c
  BY DEF Accept, pool, Ownership, HeldOpen
<1>5. \A d : Served(d)' = Served(d)
  BY <1>4 DEF Served
<1>6. ~ Served(c)
  BY <1>1, <1>2, NobodyAssumption DEF Ownership, ServingOpen, Served
<1> HIDE DEF c
<1>7. Stage[c] = "out"
  BY <1>1, <1>2, StageOf
<1>8. Stage' = [Stage EXCEPT ![c] = "inLine"]
  <2>1. Stage'[c] = "inLine"
    BY <1>1, <1>3, <1>5, <1>6, StageOfNext
  <2>2. \A d \in Connections : d # c => Stage'[d] = Stage[d]
    BY <1>3, <1>5, StageOf, StageOfNext
  <2> QED
    BY <1>1, <2>1, <2>2, StageChange
<1>9. Line' = Append(Line, c)
  BY <1>1, <1>4, NobodyAssumption DEF Line
<1> QED
  BY <1>1, <1>7, <1>8, <1>9 DEF Service!Enter

LEMMA ServiceRefuses ==
  ASSUME TypeOK, Ownership, Refuse
  PROVE  Service!Refuse
<1>1. held \in Connections /\ conn[held] = "open" /\ ~ Served(held) /\ held # Nobody
  BY DEF TypeOK, Refuse, Ownership, HeldOpen
<1>2. UNCHANGED <<jobs, serving>> /\ held' = Nobody
  BY DEF Refuse, pool
<1>3. \A c \in Connections : conn'[c] = IF c = held THEN "closed" ELSE conn[c]
  BY DropTypes DEF Refuse
<1>4. \A d : Served(d)' = Served(d)
  BY <1>2 DEF Served
<1>5. Line = Append(jobs, held) /\ Line' = jobs
  BY <1>1, <1>2 DEF Line
<1>6. /\ Line # <<>>
      /\ Len(Line) = Len(jobs) + 1
      /\ Line[Len(Line)] = held
      /\ Line \in Seq(Connections)
      /\ \A i \in 1 .. Len(jobs) : Line[i] = jobs[i]
      /\ Len(jobs) \in Nat
  BY <1>1, <1>5, AppendProperties, LenProperties DEF TypeOK
<1>7. SubSeq(Line, 1, Len(Line) - 1) = jobs
  <2>1. Len(Line) - 1 = Len(jobs) /\ \A i \in 1 .. Len(jobs) : Line[i] \in Connections
    BY <1>6, ElementOfSeq
  <2>2. /\ SubSeq(Line, 1, Len(jobs)) \in Seq(Connections)
        /\ Len(SubSeq(Line, 1, Len(jobs))) = Len(jobs)
        /\ \A i \in 1 .. Len(jobs) : SubSeq(Line, 1, Len(jobs))[i] = Line[i]
    BY <1>6, <2>1
  <2>3. SubSeq(Line, 1, Len(jobs)) = jobs
    BY <1>6, <2>2, SeqEqual DEF TypeOK
  <2> QED
    BY <2>1, <2>3
<1>8. Stage' = [Stage EXCEPT ![held] = "over"]
  BY <1>1, <1>3, <1>4, StageOf, StageOfNext, StageChange
<1> QED
  BY <1>5, <1>6, <1>7, <1>8 DEF Service!Refuse

LEMMA ServiceEnqueues ==
  ASSUME TypeOK, Ownership, Enqueue
  PROVE  UNCHANGED Service!vars
<1>1. held # Nobody /\ held' = Nobody /\ jobs' = Append(jobs, held) /\ UNCHANGED <<serving, conn>>
  BY DEF Enqueue, Ownership, HeldOpen, clients
<1>2. Line' = Line
  BY <1>1 DEF Line
<1>3. Stage' = Stage
  BY <1>1 DEF Stage
<1> QED
  BY <1>2, <1>3 DEF Service!vars

(* A worker that takes a job is free, so that not all of them are serving. *)
LEMMA SlotIsFree ==
  ASSUME TypeOK, Ownership, NEW w \in Workers, serving[w] = Nobody
  PROVE  Cardinality({c \in Connections : Stage[c] = "served"}) < Cardinality(Workers)
<1> DEFINE S == {c \in Connections : Stage[c] = "served"}
           Others == Workers \ {w}
           f == [c \in S |-> CHOOSE v \in Workers : serving[v] = c]
<1>1. \A c \in S : Served(c)
  BY StageOf
<1>2. \A c \in S : f[c] \in Workers /\ serving[f[c]] = c
  BY <1>1 DEF Served
<1>3. \A c \in S : f[c] # w
  BY <1>2, NobodyAssumption
<1>4. f \in Injection(S, Others)
  <2>1. f \in [S -> Others]
    BY <1>2, <1>3
  <2>2. \A c, d \in S : f[c] = f[d] => c = d
    BY <1>2
  <2> HIDE DEF f, S, Others
  <2> QED
    BY <2>1, <2>2 DEF Injection, IsInjective
<1>5. /\ IsFiniteSet(Others)
      /\ Cardinality(Others) = Cardinality(Workers) - 1
      /\ Cardinality(Workers) \in Nat
  BY WorkerAssumption, FS_RemoveElement, FS_CardinalityType
<1>6. IsFiniteSet(S) /\ Cardinality(S) <= Cardinality(Others)
  BY <1>4, <1>5, FS_Injection
<1>7. Cardinality(S) \in Nat
  BY <1>6, FS_CardinalityType
<1> QED
  BY <1>5, <1>6, <1>7

LEMMA ServiceServes ==
  ASSUME TypeOK, Ownership, NEW w \in Workers, Take(w), jobs # <<>>
  PROVE  Service!Serve
<1> DEFINE c == Head(jobs)
<1>1. c \in Connections /\ c = jobs[1] /\ 1 \in 1 .. Len(jobs)
  BY Popped DEF TypeOK
<1>2. /\ jobs' = Tail(jobs)
      /\ serving' = [serving EXCEPT ![w] = c]
      /\ UNCHANGED <<held, conn>>
  BY DEF Take, listening, clients
<1>3. conn[c] = "open" /\ ~ Served(c)
  BY <1>1 DEF Ownership, JobsOpen
<1>4. serving[w] = Nobody
  BY DEF Take, Ownership, ServingOpen, Busy
<1>5. \A d \in Connections : Served(d)' <=> d = c \/ Served(d)
  <2>1. \A v \in Workers : serving'[v] = IF v = w THEN c ELSE serving[v]
    BY <1>2 DEF TypeOK
  <2> QED
    BY <1>4, <2>1, NobodyAssumption DEF Served
<1>6. Line # <<>> /\ Head(Line) = c /\ Line' = Tail(Line)
  <2>1. CASE held = Nobody
    BY <1>2, <2>1 DEF Line
  <2>2. CASE held # Nobody
    <3>1. Head(Append(jobs, held)) = c /\ Tail(Append(jobs, held)) = Append(Tail(jobs), held)
      BY HeadTailAppend DEF TypeOK
    <3>2. Append(jobs, held) # <<>>
      BY <2>2, AppendProperties DEF TypeOK
    <3> QED
      BY <1>2, <2>2, <3>1, <3>2 DEF Line
  <2> QED
    BY <2>1, <2>2
<1> HIDE DEF c
<1>7. Stage' = [Stage EXCEPT ![c] = "served"]
  <2>1. Stage'[c] = "served"
    BY <1>1, <1>2, <1>3, <1>5, StageOfNext
  <2>2. \A d \in Connections : d # c => Stage'[d] = Stage[d]
    BY <1>2, <1>5, StageOf, StageOfNext
  <2> QED
    BY <1>1, <2>1, <2>2, StageChange
<1>8. Cardinality({d \in Connections : Stage[d] = "served"}) < Cardinality(Workers)
  BY <1>4, SlotIsFree
<1>9. \A S : Service!Cardinality(S) = Cardinality(S)
  BY Zenon DEF Service!Cardinality, Cardinality
<1> QED
  BY <1>6, <1>7, <1>8, <1>9 DEF Service!Serve

LEMMA ServiceEnds ==
  ASSUME TypeOK, Ownership, NEW w \in Workers, at[w] \in Busy, Close(w), UNCHANGED <<held, jobs>>
  PROVE  \E c \in Connections : Service!End(c)
<1> DEFINE c == serving[w]
<1>1. c \in Connections /\ conn[c] = "open" /\ Served(c)
  BY DEF TypeOK, Ownership, ServingOpen, Served
<1>2. \A d \in Connections : conn'[d] = IF d = c THEN "closed" ELSE conn[d]
  BY DropTypes DEF Close
<1>3. \A v \in Workers : serving'[v] = IF v = w THEN Nobody ELSE serving[v]
  BY DEF Close, TypeOK
<1>4. \A d \in Connections : d # c => (Served(d)' <=> Served(d))
  BY <1>3, NobodyAssumption DEF Served
<1>5. Line' = Line
  BY DEF Line
<1> HIDE DEF c
<1>6. Stage' = [Stage EXCEPT ![c] = "over"]
  BY <1>1, <1>2, <1>4, StageOf, StageOfNext, StageChange
<1>7. Stage[c] = "served"
  BY <1>1, StageOf
<1> QED
  BY <1>1, <1>5, <1>6, <1>7 DEF Service!End

LEMMA NextService == IInv /\ [Next]_vars => [Service!Next]_(Service!vars)
<1> SUFFICES ASSUME IInv, [Next]_vars PROVE Service!Next \/ UNCHANGED Service!vars
  OBVIOUS
<1>0. TypeOK /\ Ownership
  BY DEF IInv
<1> USE DEF listening, pool, clients
<1>1. CASE \/ Bind \/ FailBind \/ StartListening \/ NotifyOne \/ ShutDown \/ NotifyAll \/ Join
           \/ UNCHANGED vars
           \/ \E c \in Connections : Ask(c) \/ Leave(c)
           \/ \E w \in Workers : SpuriousWakeup(w)
  BY <1>1, ServiceStutters
  DEF Bind, FailBind, StartListening, NotifyOne, ShutDown, NotifyAll, Join, vars, Ask, Leave,
      SpuriousWakeup
<1>2. CASE Accept
  BY <1>0, <1>2, ServiceEnters DEF Service!Next
<1>3. CASE FailAccept \/ Stop
  <2>1. UNCHANGED <<held, jobs, serving>>
    BY <1>3 DEF FailAccept, Stop
  <2>2. CASE UNCHANGED clients
    BY <2>1, <2>2, ServiceStutters
  <2>3. CASE DropBacklog
    BY <1>0, <2>1, <2>3, ServiceAbandons DEF Service!Next
  <2> QED
    BY <1>3, <2>2, <2>3 DEF FailAccept, Stop
<1>4. CASE Enqueue
  BY <1>0, <1>4, ServiceEnqueues
<1>5. CASE Refuse
  BY <1>0, <1>5, ServiceRefuses DEF Service!Next
<1>6. ASSUME NEW w \in Workers, Take(w) PROVE Service!Next \/ UNCHANGED Service!vars
  <2>1. CASE jobs # <<>>
    BY <1>0, <1>6, <2>1, ServiceServes DEF Service!Next
  <2>2. CASE jobs = <<>>
    <3>1. UNCHANGED <<held, jobs, serving, conn>>
      BY <1>6, <2>2 DEF Take
    <3> QED
      BY <3>1, ServiceStutters
  <2> QED
    BY <2>1, <2>2
<1>7. ASSUME NEW w \in Workers,
             KeepAlive(w) \/ ReadRequest(w) \/ \E more \in BOOLEAN : Answer(w, more)
      PROVE  Service!Next \/ UNCHANGED Service!vars
  <2>1. UNCHANGED <<held, jobs>> /\ at[w] \in Busy
    BY <1>7 DEF KeepAlive, ReadRequest, Answer, Busy
  <2>2. CASE Close(w)
    BY <1>0, <2>1, <2>2, ServiceEnds DEF Service!Next
  <2>3. CASE \E stage \in Busy : GoOn(w, stage)
    BY <2>1, <2>3, ServiceStutters DEF GoOn
  <2> QED
    BY <1>7, <2>2, <2>3 DEF KeepAlive, ReadRequest, Answer, Busy
<1>8. ASSUME NEW c \in Connections, Connect(c) PROVE UNCHANGED Service!vars
  <2>1. UNCHANGED <<held, jobs, serving>>
    BY <1>8 DEF Connect
  <2>2. conn[c] = "none" /\ \A d \in Connections : conn'[d] = IF d = c THEN "queued" ELSE conn[d]
    BY <1>0, <1>8 DEF Connect, TypeOK
  <2> QED
    BY <2>1, <2>2, ServiceStutters
<1> QED
  BY <1>1, <1>2, <1>3, <1>4, <1>5, <1>6, <1>7, <1>8 DEF Next, Listener, Worker

(* Connections are served in the order in which they were accepted, each   *)
(* once, at most as many at a time as the pool has workers, and only the   *)
(* last in line is ever refused.                                           *)
THEOREM ServesInOrder == Spec => ImplementsService
<1>1. Init => Service!Init
  BY InitService
<1>2. IInv /\ [Next]_vars => [Service!Next]_(Service!vars)
  BY NextService
<1> QED
  BY <1>1, <1>2, Inductive, PTL DEF Spec, ImplementsService, Service!Spec
===============================================================================
