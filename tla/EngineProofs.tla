----------------------------- MODULE EngineProofs -----------------------------
(***************************************************************************)
(* What holds of Engine for every number of worker threads and every       *)
(* combination of faults.                                                  *)
(***************************************************************************)
EXTENDS Engine, TLAPS

(* Actions of one thread on the connections, and what they leave alone.    *)
LEMMA EnterType ==
  ASSUME TypeOK, NEW th \in Threads, NEW d \in Databases, Enter(th, d)
  PROVE  /\ using' \in [Threads -> Databases \cup {Nowhere}]
         /\ spoiled' \in [Threads -> BOOLEAN]
         /\ \A u \in Threads : spoiled'[u] => using'[u] # Nowhere
<1>1. \A u \in Threads : using'[u] = IF u = th THEN d ELSE using[u]
  BY DEF TypeOK, Enter
<1>2. d # Nowhere
  BY DEF Databases, Nowhere
<1>3. spoiled' \in [Threads -> BOOLEAN]
  BY DEF Enter, TypeOK
<1>4. \A u \in Threads : spoiled'[u] => u = th \/ spoiled[u] \/ using[u] = d
  BY DEF Enter
<1>5. using' \in [Threads -> Databases \cup {Nowhere}]
  BY DEF TypeOK, Enter
<1>6. QED BY <1>1, <1>2, <1>3, <1>4, <1>5 DEF TypeOK

LEMMA ReturnType ==
  ASSUME TypeOK, NEW th \in Threads, Return(th)
  PROVE  /\ using' \in [Threads -> Databases \cup {Nowhere}]
         /\ spoiled' \in [Threads -> BOOLEAN]
         /\ \A u \in Threads : spoiled'[u] => using'[u] # Nowhere
BY DEF TypeOK, Return

LEMMA AfterProbeType ==
  ASSUME TypeOK, NEW th \in Threads, NEW d \in Databases, NEW ok, AfterProbe(th, d, ok)
  PROVE  /\ found' \in [Threads -> SUBSET Databases]
         /\ Return(th)
BY DEF TypeOK, AfterProbe

(* The variables keep their shape, no thread but main runs a round, and a  *)
(* statement is spoiled only while it is in progress.                      *)
THEOREM TypeCorrect == Spec => []TypeOK
<1> USE DEF process, checks, history
<1>1. Init => TypeOK
  <2> SUFFICES ASSUME Init PROVE TypeOK
    OBVIOUS
  <2>1. \A h \in Handlers : at[h] \notin {"read", "write"}
    BY DEF Init, Threads
  <2>2. using \in [Threads -> Databases \cup {Nowhere}] /\ link \in [Databases -> BOOLEAN]
    BY DEF Init, Disconnected
  <2>3. found \in [Threads -> SUBSET Databases] /\ \A th \in Threads : ~ spoiled[th]
    BY DEF Init
  <2>4. QED BY <2>1, <2>2, <2>3 DEF Init, TypeOK
<1>2. TypeOK /\ [Next]_vars => TypeOK'
  <2> SUFFICES ASSUME TypeOK, [Next]_vars PROVE TypeOK'
    OBVIOUS
  <2>0. Main \in Threads /\ Handlers \subseteq Threads /\ Main \notin Handlers
    BY ThreadAssumption DEF Threads
  <2>1. CASE LoadConfig
    BY <2>1 DEF LoadConfig, TypeOK
  <2>2. ASSUME NEW d \in Databases, Connect(d) \/ FailConnect(d) PROVE TypeOK'
    BY <2>2 DEF Connect, FailConnect, TypeOK, Disconnected
  <2>3. CASE StartServer \/ ListenStep
    BY <2>3 DEF StartServer, ListenStep, Listen, FailAccept, ReturnFromListen, TypeOK
  <2>4. CASE RunWithoutManager \/ Sleep
    BY <2>4 DEF RunWithoutManager, Sleep, TypeOK
  <2>5. CASE StartRound
    BY <2>0, <2>5 DEF StartRound, TypeOK, Databases
  <2>6. ASSUME NEW th \in Threads, Probe(th) PROVE TypeOK'
    BY <2>6, EnterType DEF Probe, TypeOK
  <2>7. CASE CheckProbe
    <3>1. PICK ok \in BOOLEAN, d \in Databases : AfterProbe(Main, d, ok)
      BY <2>7 DEF CheckProbe, Databases
    <3>2. /\ pc' \in {pc, "sleep"}
          /\ at' \in [Threads -> Databases \cup {"idle", "read", "write"}]
          /\ \A h \in Handlers : at'[h] = at[h]
      BY <2>0, <2>7 DEF CheckProbe, TypeOK, Databases
    <3>3. QED
      BY <2>0, <2>7, <3>1, <3>2, AfterProbeType, ReturnType DEF CheckProbe, TypeOK
  <2>8. CASE Execute
    BY <2>0, <2>8, EnterType DEF Execute, TypeOK, Databases
  <2>9. CASE Executed
    <3>1. /\ pc' \in {pc, "sleep"}
          /\ at' \in [Threads -> Databases \cup {"idle", "read", "write"}]
          /\ \A h \in Handlers : at'[h] = at[h]
      BY <2>0, <2>9 DEF Executed, TypeOK
    <3>2. QED BY <2>0, <2>9, <3>1, ReturnType DEF Executed, TypeOK
  <2>10. CASE Throw
    BY <2>0, <2>10 DEF Throw, TypeOK
  <2>11. CASE StopServer \/ JoinServer \/ Exit \/ Kill
    BY <2>11 DEF StopServer, JoinServer, Exit, Kill, TypeOK
  <2>12. CASE DestroyManager
    BY <2>12 DEF DestroyManager, TypeOK, Disconnected
  <2>13. ASSUME NEW d \in Databases, LoseLink(d) PROVE TypeOK'
    BY <2>13 DEF LoseLink, TypeOK
  <2>14. ASSUME NEW h \in Handlers, Request(h) PROVE TypeOK'
    <3>1. h \in Threads
      BY <2>0
    <3>2. at' \in [Threads -> Databases \cup {"idle", "read", "write"}]
      BY <2>14, <3>1 DEF Request, TypeOK, Databases
    <3>3. \A g \in Handlers : at'[g] \notin {"read", "write"}
      BY <2>0, <2>14, <3>1 DEF Request, TypeOK
    <3>4. found' \in [Threads -> SUBSET Databases]
      BY <2>14, <3>1 DEF Request, TypeOK
    <3>5. /\ upAtStart' \in [Handlers -> BOOLEAN]
          /\ upSince' \in [Handlers -> BOOLEAN]
          /\ clean' \in [Handlers -> BOOLEAN]
          /\ answer' \in [Handlers -> {"none", "healthy", "unhealthy"}]
      BY <2>14 DEF Request, TypeOK, AllUp
    <3>6. QED BY <2>14, <3>2, <3>3, <3>4, <3>5 DEF Request, TypeOK
  <2>15. ASSUME NEW h \in Handlers, AnswerProbe(h) PROVE TypeOK'
    <3>1. h \in Threads
      BY <2>0
    <3>2. PICK d \in Databases, ok \in BOOLEAN :
               AfterProbe(h, d, ok) /\ at' = [at EXCEPT ![h] = StageAfter(d)]
      BY <2>15 DEF AnswerProbe
    <3>3. at' \in [Threads -> Databases \cup {"idle", "read", "write"}]
      BY <3>1, <3>2 DEF StageAfter, TypeOK, Databases
    <3>4. \A g \in Handlers : at'[g] \notin {"read", "write"}
      BY <2>0, <3>1, <3>2 DEF StageAfter, TypeOK
    <3>5. answer' \in [Handlers -> {"none", "healthy", "unhealthy"}]
      BY <2>15 DEF AnswerProbe, TypeOK
    <3>6. clean' \in [Handlers -> BOOLEAN]
      BY <2>15 DEF AnswerProbe, TypeOK, AfterProbe, Results
    <3>7. QED
      BY <2>15, <3>1, <3>2, <3>3, <3>4, <3>5, <3>6, AfterProbeType, ReturnType
      DEF AnswerProbe, TypeOK
  <2>16. CASE Restart
    BY <2>0, <2>16 DEF Restart, TypeOK, Disconnected, Nowhere
  <2>17. CASE UNCHANGED vars
    BY <2>17 DEF vars, TypeOK
  <2>18. QED
    BY <2>0, <2>1, <2>2, <2>3, <2>4, <2>5, <2>6, <2>7, <2>8, <2>9, <2>10, <2>11,
       <2>12, <2>13, <2>14, <2>15, <2>16, <2>17 DEF Next, MainStep, Worker
<1>3. QED BY <1>1, <1>2, PTL DEF Spec

------------------------------------------------------------------------------
(***************************************************************************)
(* No worker is in a check before the server listens or after its thread   *)
(* has returned from listen(), and ~Engine gets past the join only then.   *)
(***************************************************************************)
ServerInv ==
  Alive =>
    /\ server # "off" => pc \notin {"load", "local", "hosted", "serve"}
    /\ pc = "destroy" => server = "returned"
    /\ manager = "ready" => pc \notin {"load", "local", "hosted"}
    /\ manager = "destroyed" => pc = "destroy"
    /\ at[Main] # "idle" => pc = "run" /\ manager = "ready"
    /\ \A h \in Handlers : at[h] \in Databases => server \in {"listening", "closing"} /\ manager = "ready"

LEMMA ServerInvariant == Spec => []ServerInv
<1>1. Init => ServerInv
  BY DEF Init, ServerInv, Threads, Databases
<1>2. TypeOK /\ ServerInv /\ [Next]_vars => ServerInv'
  <2> SUFFICES ASSUME TypeOK, ServerInv, [Next]_vars, Alive' PROVE ServerInv'
    BY DEF ServerInv
  <2> USE DEF ServerInv, process, checks
  <2>0. Main \in Threads /\ Handlers \subseteq Threads /\ Main \notin Handlers
    BY ThreadAssumption DEF Threads
  <2>1. ASSUME Alive, UNCHANGED <<pc, manager, server, at>> PROVE ServerInv'
    BY <2>1 DEF Alive
  <2>2. CASE Alive /\ LoadConfig
    BY <2>2 DEF LoadConfig, Alive
  <2>3. ASSUME NEW d \in Databases, Alive, Connect(d) \/ FailConnect(d) PROVE ServerInv'
    BY <2>3 DEF Connect, FailConnect, Alive, Databases
  <2>4. CASE Alive /\ (StartServer \/ ListenStep)
    <3>1. CASE StartServer
      <4>1. \A h \in Handlers : at[h] \notin Databases
        BY <2>4, <3>1 DEF StartServer
      <4> QED
        BY <2>4, <3>1, <4>1 DEF StartServer, Alive
    <3>2. CASE Listen
      <4>1. \A h \in Handlers : at[h] \notin Databases
        BY <2>4, <3>2 DEF Listen
      <4> QED
        BY <2>4, <3>2, <4>1 DEF Listen, Alive
    <3>3. CASE FailAccept
      BY <2>4, <3>3 DEF FailAccept, Alive
    <3>4. CASE ReturnFromListen
      <4>1. \A h \in Handlers : at[h] \notin Databases
        BY <3>4 DEF ReturnFromListen, Databases
      <4> QED
        BY <2>4, <3>4, <4>1 DEF ReturnFromListen, Alive
    <3>5. QED BY <2>4, <3>1, <3>2, <3>3, <3>4 DEF ListenStep
  <2>5. CASE Alive /\ (RunWithoutManager \/ Sleep)
    <3>1. at[Main] = "idle" /\ manager # "destroyed"
      BY <2>5 DEF RunWithoutManager, Sleep
    <3>2. UNCHANGED <<manager, server, at>> /\ pc' \in {"run", "sleep"}
      BY <2>5 DEF RunWithoutManager, Sleep
    <3>3. manager = "ready" \/ manager = "none"
      BY <3>1 DEF TypeOK
    <3>4. QED BY <2>5, <3>1, <3>2, <3>3
  <2>6. CASE Alive /\ StartRound
    <3>1. \A h \in Handlers : at'[h] = at[h]
      BY <2>0, <2>6 DEF StartRound, TypeOK
    <3>2. QED BY <2>6, <3>1 DEF StartRound, Alive
  <2>7. ASSUME NEW th \in Threads, Alive, Probe(th) PROVE ServerInv'
    BY <2>1, <2>7 DEF Probe
  <2>8. CASE Alive /\ Execute
    BY <2>1, <2>8 DEF Execute
  <2>9. CASE Alive /\ (CheckProbe \/ Executed \/ Throw)
    <3>1. at[Main] # "idle" /\ UNCHANGED <<manager, server>>
      BY <2>9 DEF CheckProbe, Executed, Throw, AfterProbe
    <3>2. /\ \A h \in Handlers : at'[h] = at[h]
          /\ pc' = pc \/ (pc' \in {"sleep", "unwind"} /\ at'[Main] = "idle")
      BY <2>0, <2>9 DEF CheckProbe, Executed, Throw, TypeOK
    <3>3. pc = "run" /\ manager = "ready"
      BY <2>9, <3>1
    <3>4. QED BY <3>1, <3>2, <3>3, <2>9 DEF Alive
  <2>10. CASE Alive /\ (StopServer \/ JoinServer \/ DestroyManager)
    BY <2>10 DEF StopServer, JoinServer, DestroyManager, Alive
  <2>11. CASE Exit \/ Kill
    BY <2>11 DEF Exit, Kill, Alive
  <2>12. ASSUME NEW d \in Databases, Alive, LoseLink(d) PROVE ServerInv'
    BY <2>1, <2>12 DEF LoseLink
  <2>13. ASSUME NEW h \in Handlers, Alive, Request(h) PROVE ServerInv'
    <3>1. UNCHANGED <<pc, manager, server>> /\ server \in {"listening", "closing"}
      BY <2>13 DEF Request
    <3>2. manager = "none" \/ manager = "ready"
      BY <2>13, <3>1 DEF TypeOK
    <3>3. at'[Main] = at[Main] /\ \A g \in Handlers : g # h => at'[g] = at[g]
      BY <2>0, <2>13 DEF Request, TypeOK
    <3>4. manager = "none" => UNCHANGED at
      BY <2>13 DEF Request
    <3>5. QED BY <2>13, <3>1, <3>2, <3>3, <3>4 DEF Alive
  <2>14. ASSUME NEW h \in Handlers, Alive, AnswerProbe(h) PROVE ServerInv'
    <3>1. UNCHANGED <<pc, manager, server>> /\ at[h] \in Databases
      BY <2>14 DEF AnswerProbe, AfterProbe
    <3>2. at'[Main] = at[Main] /\ \A g \in Handlers : g # h => at'[g] = at[g]
      BY <2>0, <2>14 DEF AnswerProbe, TypeOK
    <3>3. QED BY <2>14, <3>1, <3>2 DEF Alive
  <2>15. CASE Restart
    BY <2>0, <2>15 DEF Restart, Databases
  <2>16. CASE UNCHANGED vars
    BY <2>1, <2>16 DEF vars, Alive
  <2>17. QED
    BY <2>0, <2>2, <2>3, <2>4, <2>5, <2>6, <2>7, <2>8, <2>9, <2>10, <2>11, <2>12,
       <2>13, <2>14, <2>15, <2>16 DEF Next, MainStep, Worker
<1>3. QED BY <1>1, <1>2, TypeCorrect, PTL DEF Spec

(* No worker ever uses a manager that ~Engine has destroyed: destruction   *)
(* waits for the thread of the server, which returns from listen() when it *)
(* has no worker that could begin or be in a check.                        *)
THEOREM ChecksHaveManager == Spec => []ManagerOutlivesChecks
<1>1. ServerInv => ManagerOutlivesChecks
  BY DEF ServerInv, ManagerOutlivesChecks
<1>2. QED BY <1>1, ServerInvariant, PTL

------------------------------------------------------------------------------
(***************************************************************************)
(* No connection is made while checks are going on, so one that is up has  *)
(* been up since every check in progress began.  What a check has found    *)
(* and the connection it has yet to ask tell of the moment it began.       *)
(***************************************************************************)
CheckSound(h) ==
  /\ answer[h] = "healthy" => upAtStart[h]
  /\ Alive =>
       /\ at[h] = "local" => found[h] = {} /\ (AllUp => upAtStart[h])
       /\ at[h] = "hosted" /\ "local" \in found[h] /\ link["hosted"] => upAtStart[h]
       /\ at[h] = "hosted" => "hosted" \notin found[h]
       /\ at[h] \in Databases => answer[h] = "none"
CheckInv == \A h \in Handlers : CheckSound(h)

(* A step that makes no connection and leaves a worker alone.              *)
LEMMA CheckInvKept ==
  ASSUME TypeOK, CheckInv, NEW h \in Handlers,
         Alive' => Alive,
         at'[h] = at[h] /\ found'[h] = found[h] /\ answer'[h] = answer[h],
         upAtStart'[h] = upAtStart[h],
         \A d \in Databases : link'[d] => link[d]
  PROVE  CheckSound(h)'
<1>1. AllUp' => AllUp
  BY DEF AllUp
<1>2. link'["hosted"] => link["hosted"]
  BY DEF Databases
<1>3. CheckSound(h)
  BY DEF CheckInv
<1>4. QED BY <1>1, <1>2, <1>3 DEF CheckSound

LEMMA CheckInvariant == Spec => []CheckInv
<1>1. Init => CheckInv
  BY DEF Init, CheckInv, CheckSound, Threads, Databases
<1>2. TypeOK /\ ServerInv /\ CheckInv /\ [Next]_vars => CheckInv'
  <2> SUFFICES ASSUME TypeOK, ServerInv, CheckInv, [Next]_vars PROVE CheckInv'
    OBVIOUS
  <2> USE DEF process, checks, history
  <2>0. Main \in Threads /\ Handlers \subseteq Threads /\ Main \notin Handlers
    BY ThreadAssumption DEF Threads
  (* Whatever main does but connect. *)
  <2>1. ASSUME Alive' => Alive,
               \A h \in Handlers : at'[h] = at[h] /\ found'[h] = found[h],
               UNCHANGED <<answer, upAtStart>>,
               \A d \in Databases : link'[d] => link[d]
        PROVE  CheckInv'
    BY <2>1, CheckInvKept DEF CheckInv, CheckSound
  <2>2. ASSUME NEW d \in Databases, Alive, Connect(d) PROVE CheckInv'
    <3>1. \A h \in Handlers : at[h] \notin Databases
      BY <2>2 DEF ServerInv, Connect, Databases
    <3>2. UNCHANGED <<at, answer, upAtStart>>
      BY <2>2 DEF Connect
    <3>3. QED BY <3>1, <3>2 DEF CheckInv, CheckSound, Databases
  <2>3. CASE Alive /\ (LoadConfig \/ StartServer \/ RunWithoutManager \/ Sleep)
    BY <2>1, <2>3 DEF LoadConfig, StartServer, RunWithoutManager, Sleep
  <2>4. ASSUME NEW d \in Databases, Alive, FailConnect(d) PROVE CheckInv'
    BY <2>1, <2>4 DEF FailConnect, Disconnected
  <2>5. CASE Alive /\ ListenStep
    BY <2>1, <2>5 DEF ListenStep, Listen, FailAccept, ReturnFromListen, Alive
  <2>6. CASE Alive /\ (StartRound \/ Executed \/ Throw)
    <3>1. \A h \in Handlers : at'[h] = at[h] /\ found'[h] = found[h]
      BY <2>0, <2>6 DEF StartRound, Executed, Throw, TypeOK
    <3>2. QED BY <2>1, <2>6, <3>1 DEF StartRound, Executed, Throw
  <2>7. CASE Alive /\ CheckProbe
    <3>1. \A h \in Handlers : at'[h] = at[h] /\ found'[h] = found[h]
      BY <2>0, <2>7 DEF CheckProbe, AfterProbe, TypeOK
    <3>2. QED BY <2>1, <2>7, <3>1 DEF CheckProbe
  <2>8. ASSUME NEW th \in Threads, Alive, Probe(th) PROVE CheckInv'
    BY <2>1, <2>8 DEF Probe, Alive
  <2>9. CASE Alive /\ Execute
    BY <2>1, <2>9 DEF Execute, Alive
  <2>10. CASE Alive /\ (StopServer \/ JoinServer \/ Exit \/ Kill)
    BY <2>1, <2>10 DEF StopServer, JoinServer, Exit, Kill
  <2>11. CASE Alive /\ DestroyManager
    BY <2>1, <2>11 DEF DestroyManager, Disconnected
  <2>12. ASSUME NEW d \in Databases, Alive, LoseLink(d) PROVE CheckInv'
    <3>1. \A e \in Databases : link'[e] => link[e]
      BY <2>12 DEF LoseLink, TypeOK
    <3>2. QED BY <2>1, <2>12, <3>1 DEF LoseLink
  <2>13. ASSUME NEW h \in Handlers, Alive, Request(h) PROVE CheckInv'
    <3>1. h \in Threads /\ UNCHANGED <<pc, link>>
      BY <2>0, <2>13 DEF Request
    <3>2. /\ upAtStart'[h] = AllUp /\ found'[h] = {} /\ answer'[h] # "healthy"
          /\ at'[h] = "idle" \/ (at'[h] = "local" /\ answer'[h] = "none")
      BY <2>13, <3>1 DEF Request, TypeOK
    <3>3. \A g \in Handlers \ {h} :
            /\ at'[g] = at[g] /\ found'[g] = found[g] /\ answer'[g] = answer[g]
            /\ upAtStart'[g] = upAtStart[g]
      BY <2>0, <2>13 DEF Request, TypeOK
    <3>4. AllUp' = AllUp /\ Alive' = Alive
      BY <3>1 DEF AllUp, Alive
    <3>5. QED
      <4> SUFFICES ASSUME NEW g \in Handlers PROVE CheckSound(g)'
        BY DEF CheckInv
      <4>1. CASE g = h
        BY <3>2, <3>4, <4>1 DEF Databases, CheckSound
      <4>2. CASE g # h
        BY <3>1, <3>3, <3>4, <4>2, CheckInvKept
      <4>3. QED BY <4>1, <4>2
  <2>14. ASSUME NEW h \in Handlers, Alive, AnswerProbe(h) PROVE CheckInv'
    <3>1. PICK d \in Databases, ok \in BOOLEAN :
            /\ AfterProbe(h, d, ok)
            /\ at' = [at EXCEPT ![h] = StageAfter(d)]
            /\ answer' = [answer EXCEPT ![h] = IF d = "local" THEN @
                             ELSE IF Overall(found'[h]) THEN "healthy" ELSE "unhealthy"]
      BY <2>14 DEF AnswerProbe
    <3>2. h \in Threads /\ UNCHANGED <<pc, link, upAtStart>>
      BY <2>0, <2>14 DEF AnswerProbe
    <3>3. /\ at[h] = d /\ at'[h] = StageAfter(d)
          /\ found'[h] = IF ok THEN found[h] \cup {d} ELSE found[h]
          /\ ok => link[d]
      BY <3>1, <3>2 DEF AfterProbe, Results, TypeOK
    <3>4. \A g \in Handlers \ {h} :
            /\ at'[g] = at[g] /\ found'[g] = found[g] /\ answer'[g] = answer[g]
            /\ upAtStart'[g] = upAtStart[g]
      BY <2>0, <3>1, <3>2 DEF AfterProbe, TypeOK
    <3>5. AllUp' = AllUp /\ Alive' = Alive
      BY <3>2 DEF AllUp, Alive
    <3>6. CASE d = "local"
      <4>1. answer'[h] = answer[h] /\ answer[h] = "none" /\ found[h] = {} /\ at'[h] = "hosted"
        BY <2>14, <3>1, <3>3, <3>6 DEF CheckInv, CheckSound, TypeOK, StageAfter
      <4>2. "local" \in found'[h] /\ link["hosted"] => AllUp
        BY <3>3, <3>6, <4>1 DEF AllUp, Databases
      <4>3. AllUp => upAtStart[h]
        BY <2>14, <3>3, <3>6 DEF CheckInv, CheckSound
      <4>4. "hosted" \notin found'[h]
        BY <3>3, <3>6, <4>1
      <4>5. ASSUME NEW g \in Handlers \ {h} PROVE CheckSound(g)'
        BY <3>2, <3>4, <3>5, CheckInvKept
      <4>6. QED BY <3>2, <3>3, <4>1, <4>2, <4>3, <4>4, <4>5 DEF CheckInv, CheckSound
    <3>7. CASE d = "hosted"
      <4>1. at'[h] = "idle" /\ "hosted" \notin found[h]
        BY <2>14, <3>3, <3>7 DEF CheckInv, CheckSound, StageAfter
      <4>2. answer'[h] = "healthy" => found'[h] = Databases
        BY <3>1, <3>7 DEF Overall, TypeOK
      <4>3. found'[h] = Databases => "local" \in found[h] /\ link["hosted"]
        BY <3>3, <3>7, <4>1 DEF Databases
      <4>4. answer'[h] = "healthy" => upAtStart'[h]
        BY <2>14, <3>2, <3>3, <3>7, <4>2, <4>3 DEF CheckInv, CheckSound
      <4>5. ASSUME NEW g \in Handlers \ {h} PROVE CheckSound(g)'
        BY <3>2, <3>4, <3>5, CheckInvKept
      <4>6. QED BY <4>1, <4>4, <4>5 DEF CheckInv, CheckSound, Databases
    <3>8. QED BY <3>6, <3>7 DEF Databases
  <2>15. CASE Restart
    <3>1. \A h \in Handlers : at'[h] = "idle" /\ answer'[h] = "none"
      BY <2>0, <2>15 DEF Restart
    <3>2. QED BY <3>1 DEF CheckInv, CheckSound, Databases
  <2>16. CASE UNCHANGED vars
    BY <2>1, <2>16 DEF vars, Alive
  <2>17. QED
    BY <2>0, <2>2, <2>3, <2>4, <2>5, <2>6, <2>7, <2>8, <2>9, <2>10, <2>11, <2>12,
       <2>13, <2>14, <2>15, <2>16 DEF Next, MainStep, Worker
<1>3. QED BY <1>1, <1>2, TypeCorrect, ServerInvariant, PTL DEF Spec

(* An answer "healthy" is true of the moment of its request, although the  *)
(* databases are asked one after the other and other threads interfere.    *)
THEOREM HealthyAnswersAreTrue == Spec => []HealthyMeansConnected
<1>1. CheckInv => HealthyMeansConnected
  BY DEF CheckInv, CheckSound, HealthyMeansConnected
<1>2. QED BY <1>1, CheckInvariant, PTL

------------------------------------------------------------------------------
(***************************************************************************)
(* A check that no lost connection, no other statement and no database     *)
(* that refuses has disturbed has found the databases it has asked.        *)
(***************************************************************************)
AlarmSound(h) ==
  /\ answer[h] = "unhealthy" => manager = "none" \/ ~ upSince[h] \/ ~ clean[h]
  /\ answer[h] # "none" => server # "off"
  /\ Alive =>
       /\ at[h] \in Databases /\ upSince[h] => AllUp
       /\ at[h] = "hosted" /\ upSince[h] /\ clean[h] => "local" \in found[h]
AlarmInv == \A h \in Handlers : AlarmSound(h)

(* A step that leaves a worker and its check alone.                        *)
LEMMA AlarmKept ==
  ASSUME AlarmInv, NEW h \in Handlers,
         Alive' => Alive,
         at'[h] = at[h] /\ found'[h] = found[h] /\ answer'[h] = answer[h] /\ clean'[h] = clean[h],
         upSince'[h] => upSince[h],
         manager = "none" => manager' = "none",
         server # "off" => server' # "off",
         at[h] \in Databases /\ upSince'[h] /\ AllUp => AllUp'
  PROVE  AlarmSound(h)'
BY DEF AlarmInv, AlarmSound

LEMMA AlarmInvariant == Spec => []AlarmInv
<1>1. Init => AlarmInv
  BY DEF Init, AlarmInv, AlarmSound, Threads, Databases
<1>2. TypeOK /\ ServerInv /\ CheckInv /\ AlarmInv /\ [Next]_vars => AlarmInv'
  <2> SUFFICES ASSUME TypeOK, ServerInv, CheckInv, AlarmInv, [Next]_vars PROVE AlarmInv'
    OBVIOUS
  <2> USE DEF process, checks, history
  <2>0. Main \in Threads /\ Handlers \subseteq Threads /\ Main \notin Handlers
    BY ThreadAssumption DEF Threads
  (* What the main thread does, unless it makes or ends connections. *)
  <2>1. ASSUME Alive' => Alive,
               \A h \in Handlers : at'[h] = at[h] /\ found'[h] = found[h],
               UNCHANGED <<answer, clean, upSince, manager, link>>,
               server # "off" => server' # "off"
        PROVE  AlarmInv'
    <3>1. AllUp' = AllUp
      BY <2>1 DEF AllUp
    <3> QED
      BY <2>1, <3>1, AlarmKept DEF AlarmInv
  (* Connections are made when no server listens, and ended by the process *)
  (* when no worker is left: no check is going on then.                    *)
  <2>2. ASSUME Alive, \A h \in Handlers : at[h] \notin Databases,
               UNCHANGED <<at, found, answer, clean, upSince, server>>,
               manager = "none" /\ manager' # "none" => server = "off"
        PROVE  AlarmInv'
    BY <2>2 DEF AlarmInv, AlarmSound
  <2>3. ASSUME NEW d \in Databases, Alive, Connect(d) \/ FailConnect(d) PROVE AlarmInv'
    <3>1. server = "off" /\ \A h \in Handlers : at[h] \notin Databases
      BY <2>3 DEF ServerInv, Connect, FailConnect, Databases
    <3> QED
      BY <2>2, <2>3, <3>1 DEF Connect, FailConnect
  <2>4. CASE Alive /\ DestroyManager
    <3>1. \A h \in Handlers : at[h] \notin Databases
      BY <2>4 DEF ServerInv, DestroyManager
    <3> QED
      BY <2>2, <2>4, <3>1 DEF DestroyManager
  <2>5. CASE Alive /\ (LoadConfig \/ StartServer \/ ListenStep \/ RunWithoutManager \/ Sleep)
    BY <2>1, <2>5 DEF LoadConfig, StartServer, ListenStep, Listen, FailAccept,
                      ReturnFromListen, RunWithoutManager, Sleep
  <2>6. CASE Alive /\ (StartRound \/ Executed \/ Throw \/ CheckProbe)
    <3>1. \A h \in Handlers : at'[h] = at[h] /\ found'[h] = found[h]
      BY <2>0, <2>6 DEF StartRound, Executed, Throw, CheckProbe, AfterProbe, TypeOK
    <3> QED
      BY <2>1, <2>6, <3>1 DEF StartRound, Executed, Throw, CheckProbe
  <2>7. ASSUME NEW th \in Threads, Alive, Probe(th) PROVE AlarmInv'
    BY <2>1, <2>7 DEF Probe
  <2>8. CASE Alive /\ Execute
    BY <2>1, <2>8 DEF Execute
  <2>9. CASE Alive /\ (StopServer \/ JoinServer \/ Exit \/ Kill)
    BY <2>1, <2>9 DEF StopServer, JoinServer, Exit, Kill
  <2>10. ASSUME NEW d \in Databases, Alive, LoseLink(d) PROVE AlarmInv'
    <3>1. \A h \in Handlers : upSince'[h] = FALSE
      BY <2>10 DEF LoseLink
    <3> QED
      BY <2>10, <3>1, AlarmKept DEF LoseLink, AlarmInv
  <2>11. ASSUME NEW h \in Handlers, Alive, Request(h) PROVE AlarmInv'
    <3>1. h \in Threads /\ UNCHANGED <<pc, manager, server, link>> /\ server # "off"
      BY <2>0, <2>11 DEF Request
    <3>2. /\ upSince'[h] = AllUp
          /\ \/ manager = "none" /\ answer'[h] = "unhealthy" /\ at'[h] = "idle"
             \/ answer'[h] = "none" /\ at'[h] = "local"
      BY <2>11, <3>1 DEF Request, TypeOK
    <3>3. \A g \in Handlers \ {h} :
            /\ at'[g] = at[g] /\ found'[g] = found[g] /\ answer'[g] = answer[g]
            /\ upSince'[g] = upSince[g] /\ clean'[g] = clean[g]
      BY <2>0, <2>11 DEF Request, TypeOK
    <3>4. AllUp' = AllUp /\ Alive' = Alive
      BY <3>1 DEF AllUp, Alive
    <3>5. AlarmSound(h)'
      BY <3>1, <3>2, <3>4 DEF AlarmSound, Databases
    <3> QED
      BY <3>1, <3>3, <3>4, <3>5, AlarmKept DEF AlarmInv
  <2>12. ASSUME NEW h \in Handlers, Alive, AnswerProbe(h) PROVE AlarmInv'
    <3>1. PICK d \in Databases, ok \in BOOLEAN :
            /\ AfterProbe(h, d, ok)
            /\ at' = [at EXCEPT ![h] = StageAfter(d)]
            /\ answer' = [answer EXCEPT ![h] = IF d = "local" THEN @
                             ELSE IF Overall(found'[h]) THEN "healthy" ELSE "unhealthy"]
            /\ clean' = [clean EXCEPT ![h] = @ /\ ~ spoiled[h] /\ (ok \/ ~ link[d])]
      BY <2>12 DEF AnswerProbe
    <3>2. h \in Threads /\ UNCHANGED <<pc, manager, server, link, upSince>>
      BY <2>0, <2>12 DEF AnswerProbe
    <3>3. /\ at[h] = d /\ at'[h] = StageAfter(d)
          /\ found'[h] = IF ok THEN found[h] \cup {d} ELSE found[h]
          /\ clean'[h] => clean[h] /\ ~ spoiled[h] /\ (ok \/ ~ link[d])
      BY <3>1, <3>2 DEF AfterProbe, TypeOK
    <3>4. upSince[h] /\ clean'[h] => ok
      BY <2>12, <3>1, <3>3 DEF AfterProbe, Results, AlarmInv, AlarmSound, AllUp
    <3>5. \A g \in Handlers \ {h} :
            /\ at'[g] = at[g] /\ found'[g] = found[g] /\ answer'[g] = answer[g]
            /\ upSince'[g] = upSince[g] /\ clean'[g] = clean[g]
      BY <2>0, <3>1, <3>2 DEF AfterProbe, TypeOK
    <3>6. AllUp' = AllUp /\ Alive' = Alive
      BY <3>2 DEF AllUp, Alive
    <3>7. AlarmSound(h)'
      <4>1. server # "off" /\ (at[h] \in Databases /\ upSince[h] => AllUp)
        BY <2>12, <3>3 DEF ServerInv, AlarmInv, AlarmSound
      <4>2. CASE d = "local"
        <5>1. at'[h] = "hosted" /\ answer'[h] = answer[h] /\ answer[h] # "unhealthy"
          BY <2>12, <3>1, <3>3, <4>2 DEF StageAfter, TypeOK, CheckInv, CheckSound
        <5> QED
          BY <3>2, <3>3, <3>4, <3>6, <4>1, <4>2, <5>1 DEF AlarmSound
      <4>3. CASE d = "hosted"
        <5>1. at'[h] = "idle" /\ answer'[h] = IF Overall(found'[h]) THEN "healthy" ELSE "unhealthy"
          BY <3>1, <3>3, <4>3 DEF StageAfter, TypeOK
        <5>2. upSince[h] /\ clean'[h] => found'[h] = Databases
          <6>1. upSince[h] /\ clean'[h] => "local" \in found[h]
            BY <2>12, <3>3, <4>3 DEF AlarmInv, AlarmSound
          <6>2. found[h] \subseteq Databases
            BY <3>2 DEF TypeOK
          <6> QED
            BY <3>3, <3>4, <4>3, <6>1, <6>2 DEF Databases
        <5> QED
          BY <3>2, <4>1, <5>1, <5>2 DEF AlarmSound, Overall, Databases
      <4> QED
        BY <4>2, <4>3 DEF Databases
    <3> QED
      BY <3>2, <3>5, <3>6, <3>7, AlarmKept DEF AlarmInv
  <2>13. CASE Restart
    <3>1. \A h \in Handlers : at'[h] = "idle" /\ answer'[h] = "none"
      BY <2>0, <2>13 DEF Restart
    <3> QED
      BY <3>1 DEF AlarmInv, AlarmSound, Databases
  <2>14. CASE UNCHANGED vars
    BY <2>1, <2>14 DEF vars, Alive
  <2>15. QED
    BY <2>0, <2>3, <2>4, <2>5, <2>6, <2>7, <2>8, <2>9, <2>10, <2>11, <2>12, <2>13, <2>14
    DEF Next, MainStep, Worker
<1>3. QED BY <1>1, <1>2, TypeCorrect, ServerInvariant, CheckInvariant, PTL DEF Spec

(* An answer "unhealthy" has a reason: there is no manager, a connection   *)
(* was lost since the request, or a statement of the check was refused by  *)
(* its database or spoiled by another thread.                              *)
THEOREM AlarmsHaveReasons == Spec => []AlarmsExplained
<1>1. AlarmInv => AlarmsExplained
  BY DEF AlarmInv, AlarmSound, AlarmsExplained
<1>2. QED BY <1>1, AlarmInvariant, PTL
==============================================================================
