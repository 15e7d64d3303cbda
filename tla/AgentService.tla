---------------------------- MODULE AgentService -----------------------------
(***************************************************************************)
(* The web agent service: its main loop (control dispatch, then one        *)
(* monitoring cycle), the session registry, lazy agent creation, and the   *)
(* agent threads, which outlive the session that started them.  Only the   *)
(* loop changes the registry; what an agent thread shares with it is its   *)
(* session object, so a handler is one step and the status check, which    *)
(* reads a thread and writes the object later, is two.                     *)
(*                                                                         *)
(* A session object is an element of Objs: after a cleanup the same id can *)
(* get a new object while a thread still holds the old one.  agent[o]      *)
(* stands for both session.agent and session.interactive, which the code   *)
(* always sets and clears together.  Replies on client_control are not     *)
(* state of this module.                                                   *)
(***************************************************************************)
EXTENDS Naturals, Sequences, FiniteSets

CONSTANTS Ids,         \* session ids
          Objs,        \* session objects
          Versions,    \* template versions other than the default
          Default,     \* the empty template_version
          None,
          Failures,    \* what may fail: subset of {"create", "start"}
          MaxInbox,    \* bound on the messages waiting in an input queue
          MaxControl   \* bound on the control messages clients send in all

ASSUME ServiceAssumption ==
    /\ None \notin Objs \cup Ids
    /\ Default \notin Versions
    /\ Failures \subseteq {"create", "start"}
    /\ MaxInbox \in Nat /\ MaxControl \in Nat

VARIABLES
    sessions,        \* the registry: id -> object or None
    owner,           \* the id an object was created for
    init,            \* info.initialized
    agent,           \* session.agent (and session.interactive) is set
    status,          \* info.last_agent_status
    version,         \* info.template_version
    thread,          \* the agent thread of an object
    factoryVersion,  \* the version AgentFactory._template_manager is switched to
    agentVersion,    \* the version an object's agent was created with
    inbox,           \* user_input_<id>: how many messages wait
    serverQ,         \* server_control
    svc, todo,       \* where the main loop is, sessions of its snapshot to visit
    cur, seen,       \* the object whose status is being written, and the status
    budget           \* control messages sent so far

objects == <<owner, init, agent, status, version, thread, agentVersion>>
loop == <<svc, todo, cur, seen>>
vars == <<sessions, objects, factoryVersion, inbox, serverQ, loop, budget>>

Registered == {id \in Ids : sessions[id] # None}
Fresh == {o \in Objs : owner[o] = None}
Alive(o) == thread[o] \notin {"none", "dead"}

Messages ==
    [type : {"sync"}, ids : SUBSET Ids]
      \cup [type : {"agent"}, id : Ids]
      \cup [type : {"template"}, id : Ids, version : Versions \cup {Default}]
Statuses == {"ready", "running", "stopped"}
Acks == [type : {"ack"}, id : Ids, status : Statuses]

Init ==
    /\ sessions = [id \in Ids |-> None]
    /\ owner = [o \in Objs |-> None]
    /\ init = [o \in Objs |-> FALSE]
    /\ agent = [o \in Objs |-> FALSE]
    /\ status = [o \in Objs |-> None]
    /\ version = [o \in Objs |-> Default]
    /\ thread = [o \in Objs |-> "none"]
    /\ factoryVersion = Default
    /\ agentVersion = [o \in Objs |-> None]
    /\ inbox = [id \in Ids |-> 0]
    /\ serverQ = <<>>
    /\ svc = "get" /\ todo = {} /\ cur = None /\ seen = None
    /\ budget = 0

-----------------------------------------------------------------------------
(* Clients (CLI and debugger).                                             *)

ClientSubmits(id) ==
    /\ inbox[id] < MaxInbox
    /\ inbox' = [inbox EXCEPT ![id] = @ + 1]
    /\ UNCHANGED <<sessions, objects, factoryVersion, serverQ, loop, budget>>

ClientControls(m) ==
    /\ budget < MaxControl
    /\ budget' = budget + 1
    /\ serverQ' = Append(serverQ, m)
    /\ UNCHANGED <<sessions, objects, factoryVersion, inbox, loop>>

-----------------------------------------------------------------------------
(* Control handlers.                                                       *)

\* Mutant of ForgetAgents: the cleanup hook keeps the runtime references.
KeepsAgents(ids) == UNCHANGED agent

\* cleanup_session for the sessions of ids: the registry forgets them and the
\* objects lose agent and interactive; a running thread is only logged.
ForgetAgents(ids) ==
    agent' = [o \in Objs |-> agent[o] /\ \A id \in ids : sessions[id] # o]

\* sync_active_sessions: create the unknown sessions, clean up the others.
HandleSyncActiveSessions(m) ==
    LET new == m.ids \ Registered
        gone == Registered \ m.ids
    IN \E obj \in [new -> Fresh] :
         /\ \A i, j \in new : obj[i] = obj[j] => i = j
         /\ sessions' = [id \in Ids |-> IF id \in new THEN obj[id]
                                        ELSE IF id \in gone THEN None
                                        ELSE sessions[id]]
         /\ owner' = [o \in Objs |-> IF \E id \in new : obj[id] = o
                                     THEN CHOOSE id \in new : obj[id] = o
                                     ELSE owner[o]]
         /\ ForgetAgents(gone)
         /\ UNCHANGED <<init, status, version, thread, agentVersion>>

\* get_or_create: the registered object, or a new one.
GetOrCreate(id, o) ==
    /\ IF id \in Registered THEN o = sessions[id] ELSE o \in Fresh
    /\ sessions' = [sessions EXCEPT ![id] = o]
    /\ owner' = [owner EXCEPT ![o] = id]

\* sync_session_agent; which agent type a session has is not modelled.
HandleSyncSessionAgent(m) ==
    \E o \in Objs :
      /\ GetOrCreate(m.id, o)
      /\ UNCHANGED <<init, agent, status, version, thread, agentVersion>>

\* sync_session_template_version: set, whether or not the agent exists.
HandleSyncSessionTemplateVersion(m) ==
    \E o \in Objs :
      /\ GetOrCreate(m.id, o)
      /\ version' = [version EXCEPT ![o] = m.version]
      /\ UNCHANGED <<init, agent, status, thread, agentVersion>>

Dispatch(m) ==
    \/ m.type = "sync" /\ HandleSyncActiveSessions(m)
    \/ m.type = "agent" /\ HandleSyncSessionAgent(m)
    \/ m.type = "template" /\ HandleSyncSessionTemplateVersion(m)
    \/ m.type = "ack" /\ UNCHANGED <<sessions, objects>>  \* an unknown type

-----------------------------------------------------------------------------
(* The main loop: get and dispatch, check_status_changes,                  *)
(* check_lazy_agent_creation, periodic_cleanup.                            *)

LoopGets ==
    /\ svc = "get"
    /\ \/ /\ serverQ = <<>>
          /\ UNCHANGED <<sessions, objects, serverQ>>
       \/ /\ serverQ # <<>>
          /\ Dispatch(Head(serverQ))
          /\ serverQ' = Tail(serverQ)
    /\ svc' = "status"
    /\ todo' = Registered'
    /\ UNCHANGED <<factoryVersion, inbox, cur, seen, budget>>

\* _get_agent_status of a session that has an agent.
AgentStatus(o) ==
    IF thread[o] = "none" THEN "ready" ELSE IF Alive(o) THEN "running" ELSE "stopped"

\* Mutant of LoopChecksStatus: whether the session has an agent is not asked.
ChecksWithoutAgent(id) ==
    /\ svc = "status" /\ id \in todo
    /\ LET o == sessions[id]
           current == AgentStatus(o)
       IN IF current # status[o]
          THEN /\ serverQ' = Append(serverQ, [type |-> "ack", id |-> id, status |-> current])
               /\ svc' = "write" /\ cur' = o /\ seen' = current
          ELSE UNCHANGED <<serverQ, svc, cur, seen>>
    /\ todo' = todo \ {id}
    /\ UNCHANGED <<sessions, objects, factoryVersion, inbox, budget>>

\* A change is acknowledged on server_control ...
LoopChecksStatus(id) ==
    /\ svc = "status" /\ id \in todo
    /\ LET o == sessions[id]
           current == AgentStatus(o)
       IN IF init[o] /\ agent[o] /\ current # status[o]
          THEN /\ serverQ' = Append(serverQ, [type |-> "ack", id |-> id, status |-> current])
               /\ svc' = "write" /\ cur' = o /\ seen' = current
          ELSE UNCHANGED <<serverQ, svc, cur, seen>>
    /\ todo' = todo \ {id}
    /\ UNCHANGED <<sessions, objects, factoryVersion, inbox, budget>>

\* Mutant of LoopWritesStatus: a final status is never overwritten.
KeepsFinalStatus ==
    /\ svc = "write"
    /\ status' = [status EXCEPT ![cur] = IF @ \in {"completed", "error"} THEN @ ELSE seen]
    /\ svc' = "status" /\ cur' = None /\ seen' = None
    /\ UNCHANGED <<sessions, owner, init, agent, version, thread, agentVersion,
                   factoryVersion, inbox, serverQ, todo, budget>>

\* ... and then stored, over whatever the thread stored in the meantime.
LoopWritesStatus ==
    /\ svc = "write"
    /\ status' = [status EXCEPT ![cur] = seen]
    /\ svc' = "status" /\ cur' = None /\ seen' = None
    /\ UNCHANGED <<sessions, owner, init, agent, version, thread, agentVersion,
                   factoryVersion, inbox, serverQ, todo, budget>>

LoopStartsLazyCheck ==
    /\ svc = "status" /\ todo = {}
    /\ svc' = "lazy" /\ todo' = Registered
    /\ UNCHANGED <<sessions, objects, factoryVersion, inbox, serverQ, cur, seen, budget>>

\* create_agent switches the factory's templates only for a non-empty version,
\* and before it can fail.
SwitchedVersion(o) == IF version[o] = Default THEN factoryVersion ELSE version[o]

\* _create_agent_for_session: the agent, then its thread.
CreateAgent(o) ==
    /\ factoryVersion' = SwitchedVersion(o)
    /\ \/ /\ "create" \in Failures
          /\ UNCHANGED <<init, agent, agentVersion, thread>>
       \/ /\ init' = [init EXCEPT ![o] = TRUE]
          /\ agent' = [agent EXCEPT ![o] = TRUE]
          /\ agentVersion' = [agentVersion EXCEPT ![o] = SwitchedVersion(o)]
          /\ \/ thread' = [thread EXCEPT ![o] = "starting"]
             \/ "start" \in Failures /\ UNCHANGED thread

\* Mutant of LoopCreatesLazily: one waiting message is not enough.
CreatesAtTwo(id) ==
    /\ svc = "lazy" /\ id \in todo
    /\ IF ~init[sessions[id]] /\ inbox[id] > 1
       THEN CreateAgent(sessions[id])
       ELSE UNCHANGED <<factoryVersion, init, agent, agentVersion, thread>>
    /\ todo' = todo \ {id}
    /\ UNCHANGED <<sessions, owner, status, version, inbox, serverQ, svc, cur, seen,
                    budget>>

LoopCreatesLazily(id) ==
    /\ svc = "lazy" /\ id \in todo
    /\ IF ~init[sessions[id]] /\ inbox[id] > 0
       THEN CreateAgent(sessions[id])
       ELSE UNCHANGED <<factoryVersion, init, agent, agentVersion, thread>>
    /\ todo' = todo \ {id}
    /\ UNCHANGED <<sessions, owner, status, version, inbox, serverQ, svc, cur, seen,
                    budget>>

LoopStartsCleanup ==
    /\ svc = "lazy" /\ todo = {}
    /\ svc' = "cleanup"
    /\ UNCHANGED <<sessions, objects, factoryVersion, inbox, serverQ, todo, cur, seen,
                    budget>>

\* cleanup_idle_sessions: only control messages and status changes touch
\* last_active, so a session can be idle whatever its agent is doing.
LoopCleansUpIdle(id) ==
    /\ svc = "cleanup" /\ id \in Registered
    /\ sessions' = [sessions EXCEPT ![id] = None]
    /\ ForgetAgents({id})
    /\ UNCHANGED <<owner, init, status, version, thread, agentVersion, factoryVersion,
                   inbox, serverQ, loop, budget>>

LoopEndsCycle ==
    /\ svc = "cleanup"
    /\ svc' = "get"
    /\ UNCHANGED <<sessions, objects, factoryVersion, inbox, serverQ, todo, cur, seen,
                    budget>>

\* The shutdown flag is seen at the head of the loop; _cleanup follows.
LoopShutsDown ==
    /\ svc = "get"
    /\ svc' = "down"
    /\ sessions' = [id \in Ids |-> None]
    /\ ForgetAgents(Registered)
    /\ UNCHANGED <<owner, init, status, version, thread, agentVersion, factoryVersion,
                   inbox, serverQ, todo, cur, seen, budget>>

MainLoop ==
    \/ LoopGets \/ LoopWritesStatus \/ LoopStartsLazyCheck \/ LoopStartsCleanup
    \/ LoopEndsCycle
    \/ \E id \in Ids : LoopChecksStatus(id) \/ LoopCreatesLazily(id)

-----------------------------------------------------------------------------
(* An agent thread: run_agent_in_thread.                                   *)

ThreadGoes(o, from, to) ==
    /\ thread[o] = from
    /\ thread' = [thread EXCEPT ![o] = to]
    /\ UNCHANGED <<sessions, owner, init, agent, version, agentVersion, factoryVersion,
                   serverQ, loop, budget>>

\* `session.agent()`: a cleanup may have taken the agent away by now.
ThreadCallsAgent(o) ==
    /\ ThreadGoes(o, "starting", IF agent[o] THEN "running" ELSE "failing")
    /\ UNCHANGED <<status, inbox>>

AgentConsumes(o) ==
    /\ thread[o] = "running" /\ inbox[owner[o]] > 0
    /\ inbox' = [inbox EXCEPT ![owner[o]] = @ - 1]
    /\ UNCHANGED <<sessions, objects, factoryVersion, serverQ, loop, budget>>

AgentReturns(o) == ThreadGoes(o, "running", "completing") /\ UNCHANGED <<status, inbox>>
AgentRaises(o) == ThreadGoes(o, "running", "failing") /\ UNCHANGED <<status, inbox>>

ThreadCompletes(o) ==
    /\ ThreadGoes(o, "completing", "ending")
    /\ status' = [status EXCEPT ![o] = "completed"]
    /\ UNCHANGED inbox

ThreadFails(o) ==
    /\ ThreadGoes(o, "failing", "ending")
    /\ status' = [status EXCEPT ![o] = "error"]
    /\ UNCHANGED inbox

\* The error response, if any, is sent and the function returns.
ThreadEnds(o) == ThreadGoes(o, "ending", "dead") /\ UNCHANGED <<status, inbox>>

ThreadFinishes(o) ==
    ThreadCallsAgent(o) \/ ThreadCompletes(o) \/ ThreadFails(o) \/ ThreadEnds(o)

Next ==
    \/ \E id \in Ids : ClientSubmits(id) \/ LoopCleansUpIdle(id)
    \/ \E m \in Messages : ClientControls(m)
    \/ MainLoop \/ LoopShutsDown
    \/ \E o \in Objs : ThreadFinishes(o) \/ AgentConsumes(o) \/ AgentReturns(o)
                       \/ AgentRaises(o)

Spec == Init /\ [][Next]_vars

\* The loop never blocks and threads are scheduled; clients send, agents end
\* and sessions become idle only if they happen to.
FairSpec == Spec /\ WF_vars(MainLoop) /\ \A o \in Objs : WF_vars(ThreadFinishes(o))

-----------------------------------------------------------------------------
(* Properties.                                                             *)

TypeOK ==
    /\ sessions \in [Ids -> Objs \cup {None}]
    /\ owner \in [Objs -> Ids \cup {None}]
    /\ init \in [Objs -> BOOLEAN]
    /\ agent \in [Objs -> BOOLEAN]
    /\ status \in [Objs -> Statuses \cup {"completed", "error", None}]
    /\ version \in [Objs -> Versions \cup {Default}]
    /\ thread \in [Objs -> {"none", "starting", "running", "completing", "failing",
                            "ending", "dead"}]
    /\ factoryVersion \in Versions \cup {Default}
    /\ agentVersion \in [Objs -> Versions \cup {Default, None}]
    /\ inbox \in [Ids -> 0..MaxInbox]
    /\ serverQ \in Seq(Messages \cup Acks)
    /\ svc \in {"get", "status", "write", "lazy", "cleanup", "down"}
    /\ todo \subseteq Ids
    /\ cur \in Objs \cup {None}
    /\ seen \in Statuses \cup {None}
    /\ budget \in 0..MaxControl

\* An object holds an agent exactly while it is initialized and registered
\* under the id it was created for: a cleanup leaves no agent behind, no
\* registered session is initialized without one, and no object is replaced
\* in the registry while it holds one.
AgentsAreRegistered ==
    \A o \in Objs :
      agent[o] <=> init[o] /\ \E id \in Ids : owner[o] = id /\ sessions[id] = o

\* What the loop stores in the second step of a status check still fits the
\* session, though agent threads run on and clients send in between: the session
\* is registered and has its agent, and the status read in the first step is the
\* one it would read now, or the thread has ended since it read "running".
StatusWriteIsCurrent ==
    svc = "write" =>
      /\ agent[cur] /\ sessions[owner[cur]] = cur
      /\ AgentStatus(cur) # seen => seen = "running" /\ AgentStatus(cur) = "stopped"

\* A message that waits for a registered session makes the service create its
\* agent, unless a thread takes the message or the session is cleaned up.
WaitingMessageGetsAgent ==
    \A id \in Ids : \A o \in Objs :
      inbox[id] > 0 /\ sessions[id] = o ~> inbox[id] = 0 \/ sessions[id] # o \/ init[o]

\* The end of an agent thread is noticed: the status settles on "stopped" for
\* as long as the session lives, however the thread's own write interleaved.
EndIsNoticed ==
    \A o \in Objs : thread[o] = "dead" ~> ~agent[o] \/ (status[o] = "stopped" /\ svc # "write")

\* Documented, but not what the code does: a cleanup stops the agent thread,
\* so no two live threads ever read the input queue of one session id.
OneConsumerPerInputQueue ==
    \A o, p \in Objs : Alive(o) /\ Alive(p) /\ owner[o] = owner[p] => o = p
=============================================================================
