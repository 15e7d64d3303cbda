------------------------------ MODULE FirstService ------------------------------
(***************************************************************************)
(* The first service (devsuite/web_agent_service.py) and the debuggers     *)
(* that send to it, across restarts of the service.                        *)
(*                                                                         *)
(* Every start of the service has queues of its own, in a directory named  *)
(* after the time of the start.  A debugger attaches to the newest one,    *)
(* and looks for a newer one only now and then.  A user's message is three *)
(* puts: the sessions of the page, the agent type chosen for the session,  *)
(* the message.  The service creates the session's agent in one of two     *)
(* ways (at once, or when the first message waits), and runs it in a       *)
(* thread or, to debug it, in the service's own loop.                      *)
(***************************************************************************)
EXTENDS Naturals, Sequences

CONSTANTS
    Chats,         \* the sessions
    AgentTypes,
    DefaultType,
    MockType,      \* the type whose agent only asks for clarification, without a browser
    Debuggers,
    KeepsFirst,    \* the debuggers that send a message where they were attached when they began
    MaxStarts,     \* bound: starts of the service
    MaxPuts        \* bound: what the debuggers put

ASSUME TypesAreTypes == {DefaultType, MockType} \subseteq AgentTypes
ASSUME StartsAreCounted == MaxStarts \in Nat

VARIABLES
    setting,   \* how the service was started: [lazy, synchronous]
    starts,    \* starts so far; the queues of the n-th are serverControl[n] and input[n]
    loop,      \* where the running service is: "down", "top", "get", "run"
    agentOf,   \* agents_by_session
    threads,   \* the agents that run: records [chat, agent]
    told,      \* the last notices of the service about each session
    serverControl, input,  \* of each start: the control messages; how many messages wait for each session
    sender,    \* what each debugger is doing
    choices,   \* session_agents of each debugger
    puts
firstVars == <<setting, starts, loop, agentOf, threads, told, serverControl, input, sender, choices, puts>>

NoType == "none"
NoChat == [type |-> NoType, agent |-> NoType, initialized |-> FALSE, idle |-> FALSE, reported |-> TRUE]
NoNotice == [type |-> NoType, control |-> "none"]
Present == {c \in Chats : agentOf[c] # NoChat}

FirstInit ==
    /\ setting = [lazy |-> TRUE, synchronous |-> FALSE]
    /\ starts = 0 /\ loop = "down" /\ puts = 0
    /\ agentOf = [c \in Chats |-> NoChat] /\ threads = {} /\ told = [c \in Chats |-> NoNotice]
    /\ serverControl = [n \in 1 .. MaxStarts |-> <<>>]
    /\ input = [n \in 1 .. MaxStarts |-> [c \in Chats |-> 0]]
    /\ sender = [d \in Debuggers |-> [pc |-> "idle", chat |-> NoType, began |-> 0, root |-> 0]]
    /\ choices = [d \in Debuggers |-> [c \in Chats |-> DefaultType]]

-----------------------------------------------------------------------------
(* A debugger.  get_queue_service finds the newest queues; it is asked     *)
(* when there are none yet and when the last time is 5 seconds ago.        *)

LatestQueues == starts
Attached(d) == {LatestQueues} \cup IF sender[d].root = 0 THEN {} ELSE {sender[d].root}

PutControl(root, message) ==
    /\ serverControl' = [serverControl EXCEPT ![root] = Append(@, message)]
    /\ puts < MaxPuts /\ puts' = puts + 1
    /\ UNCHANGED <<setting, starts, loop, agentOf, threads, told>>

SyncActiveSessions(d, c, others, first) ==
    \E root \in Attached(d) :
        /\ starts > 0 /\ sender[d].pc = "idle"
        /\ PutControl(root, [kind |-> "sync", chats |-> others \cup {c}, first |-> first])
        /\ sender' = [sender EXCEPT ![d] = [pc |-> "type", chat |-> c, began |-> root, root |-> root]]
        /\ UNCHANGED <<choices, input>>

SyncSessionAgent(d) ==
    \E root \in Attached(d) :
        /\ sender[d].pc = "type"
        /\ PutControl(root, [kind |-> "agent", chat |-> sender[d].chat, type |-> choices[d][sender[d].chat]])
        /\ sender' = [sender EXCEPT ![d].pc = "message", ![d].root = root]
        /\ UNCHANGED <<choices, input>>

SendUserInput(d) ==
    \E root \in (IF d \in KeepsFirst THEN {sender[d].began} ELSE Attached(d)) :
        /\ sender[d].pc = "message"
        /\ input' = [input EXCEPT ![root][sender[d].chat] = @ + 1]
        /\ sender' = [sender EXCEPT ![d] = [pc |-> "idle", chat |-> NoType, began |-> 0, root |-> root]]
        /\ UNCHANGED <<setting, starts, loop, agentOf, threads, told, serverControl, choices, puts>>

ApplySettings(d, c, type) ==
    \E root \in Attached(d) :
        /\ starts > 0 /\ sender[d].pc = "idle"
        /\ PutControl(root, [kind |-> "agent", chat |-> c, type |-> type])
        /\ choices' = [choices EXCEPT ![d][c] = type]
        /\ sender' = [sender EXCEPT ![d].root = root]
        /\ UNCHANGED input

(* Versions of templates are sent to either service; the first one does    *)
(* not know the message.                                                   *)
SendOther(d, message) ==
    \E root \in Attached(d) :
        /\ starts > 0 /\ sender[d].pc = "idle"
        /\ PutControl(root, message)
        /\ sender' = [sender EXCEPT ![d].root = root]
        /\ UNCHANGED <<choices, input>>

SendAgentControl(d, c) == SendOther(d, [kind |-> "control", chat |-> c])
SendTemplateVersion(d) == SendOther(d, [kind |-> "template"])

-----------------------------------------------------------------------------
(* Creating and removing agents.  A thread outlives its session and goes   *)
(* on reading the session's input queue.                                   *)

UnchangedDebuggers == UNCHANGED <<setting, starts, sender, choices, puts>>

(* Every type but one is the planning agent with its browser.              *)
CreateAgent(type) == IF type = MockType THEN "clarifying" ELSE "planning"

StartsThread == ~setting.synchronous

WithAgent(info) ==
    [info EXCEPT !.agent = CreateAgent(info.type), !.initialized = TRUE, !.reported = FALSE]
ThreadsOf(new) == IF StartsThread THEN {[chat |-> c, agent |-> new[c]] : c \in DOMAIN new} ELSE {}

NewChatInfo(type) == [NoChat EXCEPT !.type = type]

(* Creating the agent may fail; the session stays without one.             *)
GetOrCreateAgent(new, fails) ==
    [c \in new |-> IF setting.lazy \/ c \in fails THEN NewChatInfo(DefaultType) ELSE WithAgent(NewChatInfo(DefaultType))]

CleanupSession(removed, infos) == [c \in Chats |-> IF c \in removed THEN NoChat ELSE infos[c]]

CleanupIdleSessions(infos) == CleanupSession({c \in Chats : infos[c].idle}, infos)

(* A session is kept as long as a page names it, not as long as its agent  *)
(* works.                                                                  *)
GrowsIdle(c) ==
    /\ c \in Present /\ ~agentOf[c].idle
    /\ agentOf' = [agentOf EXCEPT ![c].idle = TRUE]
    /\ UnchangedDebuggers /\ UNCHANGED <<loop, threads, told, serverControl, input>>

-----------------------------------------------------------------------------
(* One pass of the service's loop: idle sessions, waiting first messages,  *)
(* changed statuses; then one control message.                             *)

LazilyCreated(infos, fails) ==
    {c \in Chats \ fails : setting.lazy /\ infos[c] # NoChat /\ ~infos[c].initialized /\ input[starts][c] > 0}

StatusTold(infos) == {c \in Chats : infos[c].initialized /\ ~infos[c].reported}

BeginPass(cleansUp, fails) ==
    LET kept == IF cleansUp THEN CleanupIdleSessions(agentOf) ELSE agentOf
        created == LazilyCreated(kept, fails)
        after == [c \in Chats |-> IF c \in created THEN WithAgent(kept[c]) ELSE kept[c]]
    IN /\ loop = "top" /\ loop' = "get"
       /\ threads' = threads \cup ThreadsOf([c \in created |-> after[c].agent])
       /\ told' = [c \in Chats |-> IF c \in StatusTold(after) THEN [told[c] EXCEPT !.control = "status"] ELSE told[c]]
       /\ agentOf' = [c \in Chats |-> IF c \in StatusTold(after) THEN [after[c] EXCEPT !.reported = TRUE] ELSE after[c]]
       /\ UnchangedDebuggers /\ UNCHANGED <<serverControl, input>>

(* The agent's status changes at any time.                                 *)
StatusChanges(c) ==
    /\ agentOf[c].initialized /\ agentOf[c].reported
    /\ agentOf' = [agentOf EXCEPT ![c].reported = FALSE]
    /\ UnchangedDebuggers /\ UNCHANGED <<loop, threads, told, serverControl, input>>

HandleSync(message, fails) ==
    LET active == IF setting.synchronous THEN {message.first} ELSE message.chats
        new == active \ Present
        made == GetOrCreateAgent(new, fails)
        synced == [c \in Chats |-> IF c \in new THEN made[c]
                                   ELSE IF c \in active THEN [agentOf[c] EXCEPT !.idle = FALSE] ELSE agentOf[c]]
    IN /\ agentOf' = CleanupSession(Chats \ active, synced)
       /\ threads' = threads \cup ThreadsOf([c \in {n \in new : made[n].initialized} |-> made[c].agent])
       /\ told' = [c \in Chats |-> IF c \in new THEN [told[c] EXCEPT !.type = DefaultType] ELSE told[c]]

(* Mutant of Unlocked: without the test of "initialized".                  *)
AnyChat(info) == TRUE

Unlocked(info) == ~info.initialized

(* "agent_locked", "agent_unchanged" or "agent_type_updated", with the     *)
(* type of the session; a session that is not there is not answered.       *)
HandleSyncSessionAgent(message) ==
    LET c == message.chat
        type == IF Unlocked(agentOf[c]) THEN message.type ELSE agentOf[c].type
    IN /\ UNCHANGED threads
       /\ IF c \notin Present THEN UNCHANGED <<agentOf, told>>
          ELSE /\ agentOf' = [agentOf EXCEPT ![c].type = type]
               /\ told' = [told EXCEPT ![c].type = type]

(* The command reaches the agent of the session as it is now.              *)
HandleAgentControl(message) ==
    LET c == message.chat
        outcome == IF c \notin Present THEN "not found" ELSE IF agentOf[c].agent = NoType THEN "no agent" ELSE "success"
    IN /\ told' = [told EXCEPT ![c].control = outcome]
       /\ agentOf' = IF outcome = "success" THEN [agentOf EXCEPT ![c].reported = TRUE] ELSE agentOf
       /\ UNCHANGED threads

HandlesControl(message, fails) ==
    \/ message.kind = "sync" /\ HandleSync(message, fails)
    \/ message.kind = "agent" /\ HandleSyncSessionAgent(message)
    \/ message.kind = "control" /\ HandleAgentControl(message)
    \/ message.kind = "template" /\ UNCHANGED <<agentOf, threads, told>>

GetControl(fails) ==
    /\ loop = "get" /\ serverControl[starts] # <<>>
    /\ HandlesControl(Head(serverControl[starts]), fails)
    /\ serverControl' = [serverControl EXCEPT ![starts] = Tail(@)]
    /\ loop' = IF setting.synchronous /\ \E c \in Chats : agentOf'[c].agent # NoType THEN "run" ELSE "top"
    /\ UnchangedDebuggers /\ UNCHANGED input

GetNothing ==
    /\ loop = "get" /\ serverControl[starts] = <<>> /\ loop' = "top"
    /\ UnchangedDebuggers /\ UNCHANGED <<agentOf, threads, told, serverControl, input>>

(* The agent runs in the loop, which waits with it for a message, until it *)
(* returns or raises.                                                      *)
SynchronousRun(c) ==
    /\ loop = "run" /\ agentOf[c].agent # NoType /\ input[starts][c] > 0
    /\ input' = [input EXCEPT ![starts][c] = @ - 1]
    /\ loop' \in {"run", "top"} /\ agentOf' = [agentOf EXCEPT ![c].reported = FALSE]
    /\ UnchangedDebuggers /\ UNCHANGED <<threads, told, serverControl>>

RunAgentInThread(t) ==
    /\ t \in threads /\ input[starts][t.chat] > 0
    /\ input' = [input EXCEPT ![starts][t.chat] = @ - 1]
    /\ threads' \in {threads, threads \ {t}}
    /\ UnchangedDebuggers /\ UNCHANGED <<loop, agentOf, told, serverControl>>

ServiceStart ==
    /\ loop = "down" /\ starts < MaxStarts
    /\ loop' = "top" /\ starts' = starts + 1
    /\ setting' \in [lazy : BOOLEAN, synchronous : BOOLEAN]
    /\ UNCHANGED <<agentOf, threads, told, serverControl, input, sender, choices, puts>>

(* An interrupt, or a crash: the threads are daemons and end with it.      *)
ServiceStop ==
    /\ loop # "down" /\ loop' = "down"
    /\ agentOf' = CleanupSession(Chats, agentOf) /\ threads' = {} /\ told' = [c \in Chats |-> NoNotice]
    /\ UnchangedDebuggers /\ UNCHANGED <<serverControl, input>>

-----------------------------------------------------------------------------
FirstNext ==
    \/ ServiceStart \/ ServiceStop \/ GetNothing
    \/ \E cleansUp \in BOOLEAN, fails \in SUBSET Chats : BeginPass(cleansUp, fails)
    \/ \E fails \in SUBSET Chats : GetControl(fails)
    \/ \E c \in Chats : GrowsIdle(c) \/ StatusChanges(c) \/ SynchronousRun(c)
    \/ \E t \in threads : RunAgentInThread(t)
    \/ \E d \in Debuggers :
          \/ SyncSessionAgent(d) \/ SendUserInput(d) \/ SendTemplateVersion(d)
          \/ \E c \in Chats : SendAgentControl(d, c) \/ \E type \in AgentTypes : ApplySettings(d, c, type)
          \/ \E c \in Chats, others \in SUBSET Chats : \E first \in others \cup {c} : SyncActiveSessions(d, c, others, first)

FirstSpec == FirstInit /\ [][FirstNext]_firstVars

-----------------------------------------------------------------------------
(* The last type the service has named for a session, to whoever asked,    *)
(* is the type of the session, and of its agent once there is one: what a  *)
(* debugger shows as the session's agent is the agent that answers there,  *)
(* however choices, first messages and removals follow one another.        *)
NamedTypeIsAgents ==
    \A c \in Present :
        /\ told[c].type = agentOf[c].type
        /\ agentOf[c].initialized => agentOf[c].agent = CreateAgent(told[c].type)
=============================================================================
