-------------------------- MODULE AgentServiceProofs --------------------------
(* Proofs about AgentService, for every set of ids, objects and versions,   *)
(* every bound and every choice of failures.                                *)
EXTENDS AgentService, TLAPS

\* A registered object carries the id it is registered under, so no object is
\* registered twice.
RegistryInv == \A id \in Ids : sessions[id] # None => owner[sessions[id]] = id

\* Only an object that once was registered has been initialized, and only an
\* initialized one has a thread.
ThreadInv ==
    \A o \in Objs : /\ init[o] => owner[o] # None
                    /\ thread[o] # "none" => init[o]

\* The sessions the loop still has to visit are registered: it alone removes
\* sessions, and not during a visit.
VisitInv ==
    /\ svc \in {"status", "write", "lazy"} => todo \subseteq Registered
    /\ svc = "write" => cur \in Objs /\ seen \in Statuses

IInv ==
    /\ TypeOK
    /\ RegistryInv
    /\ ThreadInv
    /\ VisitInv
    /\ AgentsAreRegistered
    /\ StatusWriteIsCurrent

USE DEF Registered, objects, loop

\* What the loop reads as the status of an object is one of the three.
LEMMA StatusType == \A o \in Objs : AgentStatus(o) \in Statuses
BY DEF AgentStatus, Statuses

\* The two ends of a queue.
LEMMA QueueTypes ==
    ASSUME NEW S, NEW q \in Seq(S)
    PROVE  /\ q # <<>> => Head(q) \in S /\ Tail(q) \in Seq(S)
           /\ \A x \in S : Append(q, x) \in Seq(S)
OBVIOUS

-----------------------------------------------------------------------------
(* The handlers.  Each changes the registry and the objects; the loop goes  *)
(* on to the status checks of what is registered then.                      *)

\* sync_active_sessions keeps the registry and the agents in step.
LEMMA SyncActiveSessions ==
    ASSUME IInv, NEW m \in Messages, m.type = "sync", HandleSyncActiveSessions(m)
    PROVE  /\ sessions' \in [Ids -> Objs \cup {None}]
           /\ owner' \in [Objs -> Ids \cup {None}]
           /\ agent' \in [Objs -> BOOLEAN]
           /\ RegistryInv' /\ ThreadInv' /\ AgentsAreRegistered'
<1> USE ServiceAssumption DEF IInv, TypeOK
<1> DEFINE new == m.ids \ Registered
           gone == Registered \ m.ids
<1>1. m.ids \subseteq Ids
  BY DEF Messages
<1>2. PICK obj \in [new -> Fresh] :
         /\ \A i, j \in new : obj[i] = obj[j] => i = j
         /\ sessions' = [id \in Ids |-> IF id \in new THEN obj[id]
                                        ELSE IF id \in gone THEN None
                                        ELSE sessions[id]]
         /\ owner' = [o \in Objs |-> IF \E id \in new : obj[id] = o
                                     THEN CHOOSE id \in new : obj[id] = o
                                     ELSE owner[o]]
         /\ ForgetAgents(gone)
         /\ UNCHANGED <<init, status, version, thread, agentVersion>>
  BY DEF HandleSyncActiveSessions
<1>3. \A id \in new : obj[id] \in Objs /\ owner[obj[id]] = None /\ owner'[obj[id]] = id
  <2> TAKE id \in new
  <2>1. obj[id] \in Objs /\ owner[obj[id]] = None
    BY DEF Fresh
  <2>2. owner'[obj[id]] = CHOOSE i \in new : obj[i] = obj[id]
    BY <1>2, <2>1
  <2> QED
    BY <1>2, <2>1, <2>2
<1>4. \A o \in Objs : (\A id \in new : obj[id] # o) => owner'[o] = owner[o]
  BY <1>2
<1>5. sessions' \in [Ids -> Objs \cup {None}]
  BY <1>2, <1>3
<1>6. owner' \in [Objs -> Ids \cup {None}]
  <2>1. ASSUME NEW o \in Objs PROVE owner'[o] \in Ids \cup {None}
    <3>1. CASE \E id \in new : obj[id] = o
      BY <1>1, <1>3, <3>1
    <3>2. CASE \A id \in new : obj[id] # o
      BY <1>4, <3>2
    <3> QED
      BY <3>1, <3>2
  <2>2. owner' = [o \in Objs |-> owner'[o]]
    BY <1>2
  <2> QED
    BY <2>1, <2>2
<1>7. agent' \in [Objs -> BOOLEAN]
  BY <1>2 DEF ForgetAgents
<1>8. RegistryInv'
  BY <1>1, <1>2, <1>3, <1>4 DEF RegistryInv
<1>9. ThreadInv'
  <2> SUFFICES ASSUME NEW o \in Objs
               PROVE  (init[o] => owner'[o] # None) /\ (thread[o] # "none" => init[o])
    BY <1>2 DEF ThreadInv
  <2> QED
    BY <1>1, <1>3, <1>4 DEF ThreadInv
<1>10. AgentsAreRegistered'
  <2> SUFFICES ASSUME NEW o \in Objs
               PROVE  agent'[o] <=> init[o] /\ \E i \in Ids : owner'[o] = i /\ sessions'[i] = o
    BY <1>2 DEF AgentsAreRegistered
  <2>1. agent[o] <=> init[o] /\ \E i \in Ids : owner[o] = i /\ sessions[i] = o
    BY DEF AgentsAreRegistered
  <2>2. agent'[o] <=> agent[o] /\ \A id \in gone : sessions[id] # o
    BY <1>2 DEF ForgetAgents
  <2>3. CASE \E id \in new : obj[id] = o
    BY <1>3, <2>1, <2>2, <2>3 DEF ThreadInv
  <2>4. CASE \A id \in new : obj[id] # o
    <3>1. owner'[o] = owner[o]
      BY <1>4, <2>4
    <3>2. ASSUME owner[o] \in Ids
          PROVE  sessions'[owner[o]] = o <=> sessions[owner[o]] = o /\ owner[o] \notin gone
      BY <1>2, <2>4, <3>2
    <3>3. \A id \in gone : sessions[id] = o => id = owner[o]
      BY DEF RegistryInv
    <3> QED
      BY <2>1, <2>2, <3>1, <3>2, <3>3
  <2> QED
    BY <2>3, <2>4
<1> QED
  BY <1>5, <1>6, <1>7, <1>8, <1>9, <1>10

\* So does finding or creating one session.
LEMMA GetOrCreateOne ==
    ASSUME IInv, NEW id \in Ids, NEW o \in Objs, GetOrCreate(id, o),
           UNCHANGED <<init, agent, thread>>
    PROVE  /\ sessions' \in [Ids -> Objs \cup {None}]
           /\ owner' \in [Objs -> Ids \cup {None}]
           /\ RegistryInv' /\ ThreadInv' /\ AgentsAreRegistered'
<1> USE ServiceAssumption DEF IInv, TypeOK
<1>1. sessions' \in [Ids -> Objs \cup {None}] /\ owner' \in [Objs -> Ids \cup {None}]
  BY DEF GetOrCreate
<1>2. CASE id \in Registered
  <2>1. sessions' = sessions /\ owner' = owner
    BY <1>2 DEF GetOrCreate, RegistryInv
  <2> QED
    BY <1>1, <2>1 DEF RegistryInv, ThreadInv, AgentsAreRegistered
<1>3. CASE id \notin Registered
  <2>1. owner[o] = None /\ ~init[o] /\ ~agent[o]
    BY <1>3 DEF GetOrCreate, Fresh, ThreadInv, AgentsAreRegistered
  <2>2. RegistryInv'
    BY <1>3, <2>1 DEF GetOrCreate, RegistryInv
  <2>3. ThreadInv'
    BY <2>1 DEF GetOrCreate, ThreadInv
  <2>4. AgentsAreRegistered'
    BY <1>3, <2>1 DEF GetOrCreate, AgentsAreRegistered, RegistryInv
  <2> QED
    BY <1>1, <2>2, <2>3, <2>4
<1> QED
  BY <1>2, <1>3

\* One control message and its handler.
LEMMA GetsKeepsInv ==
    ASSUME IInv, LoopGets
    PROVE  IInv'
<1> USE ServiceAssumption DEF IInv, TypeOK
<1>1. /\ sessions' \in [Ids -> Objs \cup {None}]
      /\ owner' \in [Objs -> Ids \cup {None}]
      /\ agent' \in [Objs -> BOOLEAN]
      /\ version' \in [Objs -> Versions \cup {Default}]
      /\ UNCHANGED <<init, status, thread, agentVersion>>
      /\ RegistryInv' /\ ThreadInv' /\ AgentsAreRegistered'
  <2>1. CASE UNCHANGED <<sessions, objects>>
    BY <2>1 DEF RegistryInv, ThreadInv, AgentsAreRegistered
  <2>2. CASE serverQ # <<>> /\ Dispatch(Head(serverQ))
    <3> DEFINE m == Head(serverQ)
    <3>1. m \in Messages \cup Acks
      BY <2>2
    <3>2. CASE m.type = "sync" /\ HandleSyncActiveSessions(m)
      <4>1. m \in Messages
        BY <3>1, <3>2 DEF Acks
      <4>2. UNCHANGED <<init, status, version, thread, agentVersion>>
        BY <3>2 DEF HandleSyncActiveSessions
      <4> QED
        BY <3>2, <4>1, <4>2, SyncActiveSessions
    <3>3. CASE m.type = "agent" /\ HandleSyncSessionAgent(m)
      <4>1. m.id \in Ids
        BY <3>1, <3>3 DEF Messages, Acks
      <4>2. PICK o \in Objs :
               /\ GetOrCreate(m.id, o)
               /\ UNCHANGED <<init, agent, status, version, thread, agentVersion>>
        BY <3>3 DEF HandleSyncSessionAgent
      <4> QED
        BY <4>1, <4>2, GetOrCreateOne
    <3>4. CASE m.type = "template" /\ HandleSyncSessionTemplateVersion(m)
      <4>1. m.id \in Ids /\ m.version \in Versions \cup {Default}
        BY <3>1, <3>4 DEF Messages, Acks
      <4>2. PICK o \in Objs :
               /\ GetOrCreate(m.id, o)
               /\ version' = [version EXCEPT ![o] = m.version]
               /\ UNCHANGED <<init, agent, status, thread, agentVersion>>
        BY <3>4 DEF HandleSyncSessionTemplateVersion
      <4> QED
        BY <4>1, <4>2, GetOrCreateOne
    <3> QED
      BY <2>1, <2>2, <3>2, <3>3, <3>4 DEF Dispatch
  <2> QED
    BY <2>1, <2>2 DEF LoopGets
<1>2. serverQ' \in Seq(Messages \cup Acks)
  <2>1. serverQ # <<>> => Tail(serverQ) \in Seq(Messages \cup Acks)
    BY QueueTypes
  <2> QED
    BY <2>1 DEF LoopGets
<1>3. TypeOK'
  BY <1>1, <1>2 DEF LoopGets
<1>4. VisitInv' /\ StatusWriteIsCurrent'
  BY DEF LoopGets, VisitInv, StatusWriteIsCurrent
<1> QED
  BY <1>1, <1>3, <1>4

-----------------------------------------------------------------------------
(* The monitoring cycle.                                                    *)

\* Read a status, acknowledge its change, and store it later.
LEMMA ChecksStatusKeepsInv ==
    ASSUME IInv, NEW id \in Ids, LoopChecksStatus(id)
    PROVE  IInv'
<1> USE ServiceAssumption DEF IInv, TypeOK
<1>1. sessions[id] \in Objs
  BY DEF LoopChecksStatus, VisitInv
<1> DEFINE o == sessions[id]
<1>2. AgentStatus(o) \in Statuses
  BY <1>1, StatusType
<1>3. /\ serverQ' \in Seq(Messages \cup Acks)
      /\ svc' \in {"status", "write"}
      /\ cur' \in Objs \cup {None} /\ seen' \in Statuses \cup {None}
  <2>1. [type |-> "ack", id |-> id, status |-> AgentStatus(o)] \in Acks
    BY <1>2 DEF Acks
  <2>2. Append(serverQ, [type |-> "ack", id |-> id, status |-> AgentStatus(o)])
          \in Seq(Messages \cup Acks)
    BY <2>1, QueueTypes
  <2> QED
    BY <1>1, <1>2, <2>2 DEF LoopChecksStatus
<1>4. TypeOK'
  BY <1>3 DEF LoopChecksStatus
<1>5. RegistryInv' /\ ThreadInv' /\ AgentsAreRegistered'
  BY DEF LoopChecksStatus, RegistryInv, ThreadInv, AgentsAreRegistered
<1>6. svc' = "write" => /\ cur' = o /\ seen' = AgentStatus(o) /\ agent[o]
                        /\ UNCHANGED <<sessions, owner, agent, thread>>
  BY DEF LoopChecksStatus
<1>7. VisitInv'
  BY <1>1, <1>2, <1>6 DEF LoopChecksStatus, VisitInv
<1>8. StatusWriteIsCurrent'
  <2>1. AgentStatus(o)' = AgentStatus(o)
    BY DEF LoopChecksStatus, AgentStatus, Alive
  <2> QED
    BY <1>1, <1>6, <2>1 DEF StatusWriteIsCurrent, AgentStatus, Alive, RegistryInv,
                            LoopChecksStatus
<1> QED
  BY <1>4, <1>5, <1>7, <1>8

\* Creating an agent, whatever of it fails.
LEMMA CreatesLazilyKeepsInv ==
    ASSUME IInv, NEW id \in Ids, LoopCreatesLazily(id)
    PROVE  IInv'
<1> USE ServiceAssumption DEF IInv, TypeOK
<1>1. sessions[id] \in Objs
  BY DEF LoopCreatesLazily, VisitInv
<1> DEFINE o == sessions[id]
<1>2. owner[o] = id
  BY <1>1 DEF RegistryInv
<1>3. SwitchedVersion(o) \in Versions \cup {Default}
  BY <1>1 DEF SwitchedVersion
<1>4. CASE ~init[o] /\ inbox[id] > 0 /\ CreateAgent(o)
  <2>1. TypeOK'
    <3>1. init' \in [Objs -> BOOLEAN] /\ agent' \in [Objs -> BOOLEAN]
      BY <1>1, <1>4 DEF CreateAgent
    <3>2. agentVersion' \in [Objs -> Versions \cup {Default, None}]
      BY <1>1, <1>3, <1>4 DEF CreateAgent
    <3>3. thread' \in [Objs -> {"none", "starting", "running", "completing", "failing",
                                "ending", "dead"}]
      BY <1>1, <1>4 DEF CreateAgent
    <3> QED
      BY <1>3, <1>4, <3>1, <3>2, <3>3 DEF LoopCreatesLazily, CreateAgent
  <2>2. RegistryInv' /\ VisitInv' /\ StatusWriteIsCurrent'
    BY DEF LoopCreatesLazily, RegistryInv, VisitInv, StatusWriteIsCurrent
  <2>3. ThreadInv'
    BY <1>1, <1>2, <1>4 DEF LoopCreatesLazily, CreateAgent, ThreadInv
  <2>4. AgentsAreRegistered'
    <3> SUFFICES ASSUME NEW p \in Objs
                 PROVE  agent'[p] <=> init'[p] /\ \E i \in Ids : owner[p] = i /\ sessions[i] = p
      BY DEF AgentsAreRegistered, LoopCreatesLazily
    <3>1. CASE p = o
      BY <1>1, <1>2, <1>4, <3>1 DEF CreateAgent, AgentsAreRegistered
    <3>2. CASE p # o
      <4>1. agent'[p] = agent[p] /\ init'[p] = init[p]
        BY <1>4, <3>2 DEF CreateAgent
      <4> QED
        BY <4>1 DEF AgentsAreRegistered
    <3> QED
      BY <3>1, <3>2
  <2> QED
    BY <2>1, <2>2, <2>3, <2>4
<1>5. CASE UNCHANGED <<factoryVersion, init, agent, agentVersion, thread>>
  BY <1>5 DEF LoopCreatesLazily, RegistryInv, ThreadInv, VisitInv, AgentsAreRegistered,
              StatusWriteIsCurrent
<1> QED
  BY <1>4, <1>5 DEF LoopCreatesLazily

\* A clean-up, of an idle session or of all at a shutdown.
LEMMA ForgettingKeepsAgents ==
    ASSUME IInv, NEW gone \in SUBSET Registered, ForgetAgents(gone),
           sessions' = [id \in Ids |-> IF id \in gone THEN None ELSE sessions[id]],
           UNCHANGED <<owner, init, thread>>
    PROVE  /\ sessions' \in [Ids -> Objs \cup {None}]
           /\ agent' \in [Objs -> BOOLEAN]
           /\ RegistryInv' /\ ThreadInv' /\ AgentsAreRegistered'
<1> USE ServiceAssumption DEF IInv, TypeOK
<1>1. sessions' \in [Ids -> Objs \cup {None}]
  OBVIOUS
<1>2. agent' \in [Objs -> BOOLEAN]
  BY DEF ForgetAgents
<1>3. RegistryInv' /\ ThreadInv'
  BY DEF RegistryInv, ThreadInv
<1>4. AgentsAreRegistered'
  <2> SUFFICES ASSUME NEW o \in Objs
               PROVE  agent'[o] <=> init[o] /\ \E i \in Ids : owner[o] = i /\ sessions'[i] = o
    BY DEF AgentsAreRegistered
  <2>1. agent[o] <=> init[o] /\ \E i \in Ids : owner[o] = i /\ sessions[i] = o
    BY DEF AgentsAreRegistered
  <2>2. agent'[o] <=> agent[o] /\ \A i \in gone : sessions[i] # o
    BY DEF ForgetAgents
  <2>3. \A i \in Ids : sessions'[i] = o <=> sessions[i] = o /\ i \notin gone
    OBVIOUS
  <2>4. \A i \in gone : sessions[i] = o => i = owner[o]
    BY DEF RegistryInv
  <2> QED
    BY <2>1, <2>2, <2>3, <2>4
<1> QED
  BY <1>1, <1>2, <1>3, <1>4

\* The steps of a thread, at the level of what they share with the loop.
LEMMA ThreadKeepsInv ==
    ASSUME IInv, NEW o \in Objs, NEW from, NEW to, ThreadGoes(o, from, to),
           from \notin {"none", "dead"}, to \notin {"none", "starting"},
           to \in {"running", "completing", "failing", "ending", "dead"},
           status' \in [Objs -> Statuses \cup {"completed", "error", None}],
           UNCHANGED inbox
    PROVE  IInv'
<1> USE ServiceAssumption DEF IInv, TypeOK
<1>1. TypeOK'
  BY DEF ThreadGoes
<1>2. RegistryInv' /\ ThreadInv' /\ VisitInv' /\ AgentsAreRegistered'
  BY DEF ThreadGoes, RegistryInv, ThreadInv, VisitInv, AgentsAreRegistered
<1>3. StatusWriteIsCurrent'
  BY DEF ThreadGoes, StatusWriteIsCurrent, VisitInv, AgentStatus, Alive
<1> QED
  BY <1>1, <1>2, <1>3

-----------------------------------------------------------------------------
LEMMA InvHolds == Spec => []IInv
<1> USE ServiceAssumption
<1>1. Init => IInv
  BY DEF Init, IInv, TypeOK, RegistryInv, ThreadInv, VisitInv, AgentsAreRegistered,
         StatusWriteIsCurrent
<1>2. IInv /\ [Next]_vars => IInv'
  <2> SUFFICES ASSUME IInv, [Next]_vars PROVE IInv'
    OBVIOUS
  <2> USE DEF IInv
  <2>1. ASSUME NEW id \in Ids, ClientSubmits(id) PROVE IInv'
    BY <2>1 DEF ClientSubmits, TypeOK, RegistryInv, ThreadInv, VisitInv, AgentsAreRegistered,
                StatusWriteIsCurrent, AgentStatus, Alive
  <2>2. ASSUME NEW m \in Messages, ClientControls(m) PROVE IInv'
    BY <2>2 DEF ClientControls, TypeOK, RegistryInv, ThreadInv, VisitInv, AgentsAreRegistered,
                StatusWriteIsCurrent, AgentStatus, Alive
  <2>3. ASSUME LoopGets PROVE IInv'
    BY <2>3, GetsKeepsInv
  <2>4. ASSUME NEW id \in Ids, LoopChecksStatus(id) PROVE IInv'
    BY <2>4, ChecksStatusKeepsInv
  <2>5. ASSUME LoopWritesStatus PROVE IInv'
    BY <2>5 DEF LoopWritesStatus, TypeOK, RegistryInv, ThreadInv, VisitInv,
                AgentsAreRegistered, StatusWriteIsCurrent
  <2>6. ASSUME LoopStartsLazyCheck \/ LoopStartsCleanup \/ LoopEndsCycle PROVE IInv'
    BY <2>6 DEF LoopStartsLazyCheck, LoopStartsCleanup, LoopEndsCycle, TypeOK, RegistryInv,
                ThreadInv, VisitInv, AgentsAreRegistered, StatusWriteIsCurrent
  <2>7. ASSUME NEW id \in Ids, LoopCreatesLazily(id) PROVE IInv'
    BY <2>7, CreatesLazilyKeepsInv
  <2>8. ASSUME NEW id \in Ids, LoopCleansUpIdle(id) PROVE IInv'
    <3>1. /\ {id} \in SUBSET Registered
          /\ sessions' = [i \in Ids |-> IF i \in {id} THEN None ELSE sessions[i]]
      BY <2>8 DEF LoopCleansUpIdle, TypeOK
    <3>2. /\ sessions' \in [Ids -> Objs \cup {None}]
          /\ agent' \in [Objs -> BOOLEAN]
          /\ RegistryInv' /\ ThreadInv' /\ AgentsAreRegistered'
      BY <2>8, <3>1, ForgettingKeepsAgents DEF LoopCleansUpIdle
    <3> QED
      BY <2>8, <3>2 DEF LoopCleansUpIdle, TypeOK, VisitInv, StatusWriteIsCurrent
  <2>9. ASSUME LoopShutsDown PROVE IInv'
    <3>1. sessions' = [i \in Ids |-> IF i \in Registered THEN None ELSE sessions[i]]
      BY <2>9 DEF LoopShutsDown, TypeOK
    <3>2. /\ sessions' \in [Ids -> Objs \cup {None}]
          /\ agent' \in [Objs -> BOOLEAN]
          /\ RegistryInv' /\ ThreadInv' /\ AgentsAreRegistered'
      BY <2>9, <3>1, ForgettingKeepsAgents DEF LoopShutsDown
    <3> QED
      BY <2>9, <3>2 DEF LoopShutsDown, TypeOK, VisitInv, StatusWriteIsCurrent
  <2>10. ASSUME NEW o \in Objs, ThreadFinishes(o) \/ AgentReturns(o) \/ AgentRaises(o)
         PROVE  IInv'
    <3> USE DEF TypeOK
    <3>1. CASE ThreadCallsAgent(o)
      BY <3>1, ThreadKeepsInv DEF ThreadCallsAgent
    <3>2. CASE ThreadCompletes(o)
      BY <3>2, ThreadKeepsInv DEF ThreadCompletes
    <3>3. CASE ThreadFails(o)
      BY <3>3, ThreadKeepsInv DEF ThreadFails
    <3>4. CASE ThreadEnds(o)
      BY <3>4, ThreadKeepsInv DEF ThreadEnds
    <3>5. CASE AgentReturns(o)
      BY <3>5, ThreadKeepsInv DEF AgentReturns
    <3>6. CASE AgentRaises(o)
      BY <3>6, ThreadKeepsInv DEF AgentRaises
    <3> QED
      BY <2>10, <3>1, <3>2, <3>3, <3>4, <3>5, <3>6 DEF ThreadFinishes
  <2>11. ASSUME NEW o \in Objs, AgentConsumes(o) PROVE IInv'
    <3>1. owner[o] \in Ids
      BY <2>11 DEF AgentConsumes, TypeOK, ThreadInv
    <3> QED
      BY <2>11, <3>1 DEF AgentConsumes, TypeOK, RegistryInv, ThreadInv, VisitInv,
                         AgentsAreRegistered, StatusWriteIsCurrent, AgentStatus, Alive
  <2>12. CASE UNCHANGED vars
    BY <2>12 DEF vars, TypeOK, RegistryInv, ThreadInv, VisitInv, AgentsAreRegistered,
                 StatusWriteIsCurrent, AgentStatus, Alive
  <2> QED
    BY <2>1, <2>2, <2>3, <2>4, <2>5, <2>6, <2>7, <2>8, <2>9, <2>10, <2>11, <2>12
       DEF Next, MainLoop
<1> QED
  BY <1>1, <1>2, PTL DEF Spec

\* The variables have their types, and the bounds of queues and control
\* messages hold.
THEOREM TypeCorrect == Spec => []TypeOK
BY InvHolds, PTL DEF IInv

\* Only registered, initialized objects hold agents: no clean-up leaves one
\* behind and no registration replaces an object that has one.
THEOREM AgentsRegistered == Spec => []AgentsAreRegistered
BY InvHolds, PTL DEF IInv

\* The status that a check stores late is that of a session that is still
\* registered, and at worst one that has ended meanwhile.
THEOREM StatusWritesCurrent == Spec => []StatusWriteIsCurrent
BY InvHolds, PTL DEF IInv
=============================================================================
