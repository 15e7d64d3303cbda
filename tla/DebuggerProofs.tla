----------------------------- MODULE DebuggerProofs -----------------------------
(* Proofs about FirstService, for every set of sessions, agent types and   *)
(* debuggers and every number of starts and messages; about DebuggerLogs,  *)
(* for every set of sessions and logs and of writes to them; and about     *)
(* ActionTester, for every set of callbacks that run at once.              *)
EXTENDS FirstService, DebuggerLogs, ActionTester, SequenceTheorems, TLAPS

Types == AgentTypes \cup {NoType}
Agents == {NoType, "clarifying", "planning"}

Infos ==
    [type : Types, agent : Agents, initialized : BOOLEAN, idle : BOOLEAN, reported : BOOLEAN]
Notices == [type : Types, control : {"none", "status", "success", "no agent", "not found"}]

Messages ==
    [kind : {"sync"}, chats : SUBSET Chats, first : Chats]
      \cup [kind : {"agent"}, chat : Chats, type : AgentTypes]
      \cup [kind : {"control"}, chat : Chats]
      \cup [kind : {"template"}]

FirstStarts == 1 .. MaxStarts

Senders ==
    [pc : {"idle", "type", "message"}, chat : Chats \cup {NoType}, began : 0 .. MaxStarts,
     root : 0 .. MaxStarts]

\* The sessions, and what has been told about them.
ChatTypes ==
    /\ agentOf \in [Chats -> Infos]
    /\ told \in [Chats -> Notices]

\* The service's starts and queues.
QueueTypes ==
    /\ starts \in 0 .. MaxStarts
    /\ loop # "down" => starts # 0
    /\ serverControl \in [FirstStarts -> Seq(Messages)]

DebuggerTypes ==
    /\ choices \in [Debuggers -> [Chats -> AgentTypes]]
    /\ sender \in [Debuggers -> Senders]
    /\ \A d \in Debuggers : sender[d].pc # "idle" => sender[d].chat \in Chats

Inv == ChatTypes /\ QueueTypes /\ DebuggerTypes /\ NamedTypeIsAgents

USE DEF firstVars

-----------------------------------------------------------------------------
\* What is true of a session whether or not it is there.
LEMMA AgentsTyped == \A type \in Types : CreateAgent(type) \in Agents
BY DEF CreateAgent, Agents

LEMMA InfosTyped ==
    /\ NoChat \in Infos
    /\ \A type \in Types : NewChatInfo(type) \in Infos
    /\ \A chat \in Infos : WithAgent(chat) \in Infos
<1>1. NoChat \in Infos
  BY DEF NoChat, Infos, Types, Agents
<1>2. \A type \in Types : NewChatInfo(type) \in Infos
  BY DEF NewChatInfo, NoChat, Infos, Types, Agents
<1>3. ASSUME NEW chat \in Infos PROVE WithAgent(chat) \in Infos
  <2>1. chat.type \in Types
    BY DEF Infos
  <2>2. CreateAgent(chat.type) \in Agents
    BY <2>1, AgentsTyped
  <2> QED
    BY <2>2 DEF WithAgent, Infos
<1> QED
  BY <1>1, <1>2, <1>3

\* The type told for a session and its agent fit, wherever they come from.
Fits(chat, notice) ==
    chat # NoChat => /\ notice.type = chat.type
                     /\ chat.initialized => chat.agent = CreateAgent(notice.type)

LEMMA NamedMeansFits ==
    ASSUME TRUE
    PROVE  NamedTypeIsAgents <=> \A c \in Chats : Fits(agentOf[c], told[c])
BY DEF NamedTypeIsAgents, Present, Fits

\* An agent is created of the type that has been told.
LEMMA WithAgentFits ==
    ASSUME NEW chat \in Infos, NEW notice, notice.type = chat.type
    PROVE  Fits(WithAgent(chat), notice)
BY DEF WithAgent, Infos, Fits

\* A new session has the default type.
LEMMA NewFits ==
    ASSUME NEW notice, notice.type = DefaultType
    PROVE  /\ NewChatInfo(DefaultType) \in Infos
           /\ Fits(NewChatInfo(DefaultType), notice)
           /\ WithAgent(NewChatInfo(DefaultType)) \in Infos
           /\ Fits(WithAgent(NewChatInfo(DefaultType)), notice)
<1>1. DefaultType \in Types
  BY TypesAreTypes DEF Types
<1>2. NewChatInfo(DefaultType) \in Infos /\ WithAgent(NewChatInfo(DefaultType)) \in Infos
  BY <1>1, InfosTyped
<1>3. NewChatInfo(DefaultType).type = DefaultType /\ ~NewChatInfo(DefaultType).initialized
  BY DEF NewChatInfo, NoChat
<1>4. Fits(NewChatInfo(DefaultType), notice)
  BY <1>3 DEF Fits
<1>5. Fits(WithAgent(NewChatInfo(DefaultType)), notice)
  BY <1>2, <1>3, WithAgentFits
<1> QED
  BY <1>2, <1>4, <1>5

\* Marking a session idle or reported changes neither its type nor its agent.
LEMMA MarkFits ==
    ASSUME NEW chat \in Infos, NEW other, NEW notice, Fits(chat, notice), chat # NoChat,
           NEW b \in BOOLEAN,
           other = [chat EXCEPT !.idle = b] \/ other = [chat EXCEPT !.reported = b]
    PROVE  other \in Infos /\ Fits(other, notice)
<1>1. other \in Infos
  BY DEF Infos
<1>2. other.type = chat.type /\ other.initialized = chat.initialized /\ other.agent = chat.agent
  BY DEF Infos
<1> QED
  BY <1>1, <1>2 DEF Fits

\* Nor does another control notice.
LEMMA NoticeMarked ==
    ASSUME NEW notice \in Notices, NEW other,
           NEW control \in {"none", "status", "success", "no agent", "not found"},
           other = [notice EXCEPT !.control = control]
    PROVE  other \in Notices /\ other.type = notice.type
BY DEF Notices

LEMMA NoticeFits ==
    ASSUME NEW chat, NEW notice, NEW other, Fits(chat, notice), other.type = notice.type
    PROVE  Fits(chat, other)
BY DEF Fits

\* What the invariant says of one session.
LEMMA OneChat ==
    ASSUME Inv, NEW c \in Chats
    PROVE  agentOf[c] \in Infos /\ told[c] \in Notices /\ Fits(agentOf[c], told[c])
BY NamedMeansFits DEF Inv, ChatTypes

-----------------------------------------------------------------------------
(* The service.  ChatsOK is what a step must show of the sessions.          *)

ChatsOK == ChatTypes' /\ NamedTypeIsAgents'

LEMMA ChatsShown ==
    ASSUME DOMAIN agentOf' = Chats, DOMAIN told' = Chats,
           agentOf' = [c \in Chats |-> agentOf'[c]], told' = [c \in Chats |-> told'[c]],
           \A c \in Chats : agentOf'[c] \in Infos /\ told'[c] \in Notices
                            /\ Fits(agentOf'[c], told'[c])
    PROVE  ChatsOK
<1>1. ChatTypes'
  BY DEF ChatTypes
<1>2. NamedTypeIsAgents'
  BY DEF NamedTypeIsAgents, Present, Fits
<1> QED
  BY <1>1, <1>2 DEF ChatsOK

\* A step that leaves the sessions alone, and one that changes one session.
LEMMA ChatsKept ==
    ASSUME Inv, UNCHANGED <<agentOf, told>>
    PROVE  ChatsOK
BY DEF Inv, ChatTypes, NamedTypeIsAgents, Present, ChatsOK

LEMMA OneChanges ==
    ASSUME Inv, NEW c \in Chats, NEW chat, NEW notice,
           agentOf' = [agentOf EXCEPT ![c] = chat], told' = [told EXCEPT ![c] = notice],
           agentOf'[c] \in Infos, told'[c] \in Notices, Fits(agentOf'[c], told'[c])
    PROVE  ChatsOK
<1>1. ASSUME NEW d \in Chats
      PROVE  agentOf'[d] \in Infos /\ told'[d] \in Notices /\ Fits(agentOf'[d], told'[d])
  <2>1. CASE d = c
    BY <2>1
  <2>2. CASE d # c
    <3>1. agentOf'[d] = agentOf[d] /\ told'[d] = told[d]
      BY <2>2 DEF Inv, ChatTypes
    <3> QED
      BY <3>1, OneChat
  <2> QED
    BY <2>1, <2>2
<1>2. /\ DOMAIN agentOf' = Chats /\ agentOf' = [d \in Chats |-> agentOf'[d]]
      /\ DOMAIN told' = Chats /\ told' = [d \in Chats |-> told'[d]]
  BY DEF Inv, ChatTypes
<1> QED
  BY <1>1, <1>2, ChatsShown

LEMMA BeginPassOK ==
    ASSUME Inv, NEW cleansUp \in BOOLEAN, NEW fails \in SUBSET Chats, BeginPass(cleansUp, fails)
    PROVE  ChatsOK
<1> USE DEF Inv, ChatTypes
<1> DEFINE kept == IF cleansUp THEN CleanupIdleSessions(agentOf) ELSE agentOf
           created == LazilyCreated(kept, fails)
           after == [c \in Chats |-> IF c \in created THEN WithAgent(kept[c]) ELSE kept[c]]
<1>1. /\ told' = [c \in Chats |-> IF c \in StatusTold(after) THEN [told[c] EXCEPT !.control = "status"]
                                  ELSE told[c]]
      /\ agentOf' = [c \in Chats |-> IF c \in StatusTold(after) THEN [after[c] EXCEPT !.reported = TRUE]
                                     ELSE after[c]]
  BY DEF BeginPass
<1>2. ASSUME NEW c \in Chats PROVE kept[c] \in Infos /\ Fits(kept[c], told[c])
  <2>1. kept[c] \in {NoChat, agentOf[c]}
    BY DEF CleanupIdleSessions, CleanupSession
  <2>2. Fits(NoChat, told[c]) /\ Fits(agentOf[c], told[c])
    BY NamedMeansFits DEF Fits
  <2> QED
    BY <2>1, <2>2, InfosTyped
<1>3. ASSUME NEW c \in Chats PROVE after[c] \in Infos /\ Fits(after[c], told[c])
  <2> HIDE DEF kept
  <2>1. CASE c \in created
    <3>1. kept[c] # NoChat
      BY <2>1 DEF LazilyCreated
    <3>2. told[c].type = kept[c].type
      BY <1>2, <3>1 DEF Fits
    <3>3. WithAgent(kept[c]) \in Infos /\ Fits(WithAgent(kept[c]), told[c])
      BY <1>2, <3>2, InfosTyped, WithAgentFits
    <3> QED
      BY <2>1, <3>3
  <2>2. CASE c \notin created
    BY <1>2, <2>2
  <2> QED
    BY <2>1, <2>2
<1> HIDE DEF after
<1>4. ASSUME NEW c \in Chats
      PROVE  agentOf'[c] \in Infos /\ told'[c] \in Notices /\ Fits(agentOf'[c], told'[c])
  <2>1. CASE c \in StatusTold(after)
    <3>1. after[c] # NoChat
      BY <2>1 DEF StatusTold, NoChat
    <3>2. /\ agentOf'[c] = [after[c] EXCEPT !.reported = TRUE]
          /\ told'[c] = [told[c] EXCEPT !.control = "status"]
      BY <1>1, <2>1
    <3>3. agentOf'[c] \in Infos /\ Fits(agentOf'[c], told[c])
      BY <1>3, <3>1, <3>2, MarkFits
    <3>4. told'[c] \in Notices /\ told'[c].type = told[c].type
      BY <3>2, OneChat, NoticeMarked
    <3> QED
      BY <3>3, <3>4, NoticeFits
  <2>2. CASE c \notin StatusTold(after)
    BY <1>1, <1>3, <2>2
  <2> QED
    BY <2>1, <2>2
<1> QED
  BY <1>1, <1>4, ChatsShown

LEMMA SyncOK ==
    ASSUME Inv, NEW m \in Messages, m.kind = "sync", NEW fails \in SUBSET Chats, HandleSync(m, fails)
    PROVE  ChatsOK
<1> USE DEF Inv, ChatTypes
<1> DEFINE live == IF setting.synchronous THEN {m.first} ELSE m.chats
           new == live \ Present
           created == GetOrCreateAgent(new, fails)
           synced == [c \in Chats |-> IF c \in new THEN created[c]
                                      ELSE IF c \in live THEN [agentOf[c] EXCEPT !.idle = FALSE]
                                      ELSE agentOf[c]]
<1>1. /\ agentOf' = CleanupSession(Chats \ live, synced)
      /\ told' = [c \in Chats |-> IF c \in new THEN [told[c] EXCEPT !.type = DefaultType] ELSE told[c]]
  BY DEF HandleSync
<1>2. ASSUME NEW c \in Chats
      PROVE  agentOf'[c] \in Infos /\ told'[c] \in Notices /\ Fits(agentOf'[c], told'[c])
  <2>1. agentOf'[c] = IF c \notin live THEN NoChat ELSE synced[c]
    BY <1>1 DEF CleanupSession
  <2>2. CASE c \in new
    <3>1. created[c] \in {NewChatInfo(DefaultType), WithAgent(NewChatInfo(DefaultType))}
      BY <2>2 DEF GetOrCreateAgent
    <3>2. told'[c] = [told[c] EXCEPT !.type = DefaultType]
      BY <1>1, <2>2
    <3>3. told'[c] \in Notices /\ told'[c].type = DefaultType
      BY <3>2, TypesAreTypes DEF Notices, Types
    <3>4. agentOf'[c] = created[c]
      BY <2>1, <2>2
    <3> QED
      BY <3>1, <3>3, <3>4, NewFits
  <2>3. CASE c \in live /\ c \in Present
    <3>1. agentOf'[c] = [agentOf[c] EXCEPT !.idle = FALSE] /\ told'[c] = told[c]
      BY <1>1, <2>1, <2>3
    <3>2. agentOf[c] # NoChat
      BY <2>3 DEF Present
    <3>3. agentOf'[c] \in Infos /\ Fits(agentOf'[c], told[c])
      BY <3>1, <3>2, OneChat, MarkFits
    <3> QED
      BY <3>1, <3>3, OneChat
  <2>4. CASE c \notin live
    BY <1>1, <2>1, <2>4, InfosTyped DEF Fits
  <2> QED
    BY <2>2, <2>3, <2>4
<1>3. DOMAIN agentOf' = Chats /\ agentOf' = [c \in Chats |-> agentOf'[c]]
  BY <1>1 DEF CleanupSession
<1>4. DOMAIN told' = Chats /\ told' = [c \in Chats |-> told'[c]]
  BY <1>1
<1> QED
  BY <1>2, <1>3, <1>4, ChatsShown

LEMMA AgentTypeOK ==
    ASSUME Inv, NEW m \in Messages, m.kind = "agent", HandleSyncSessionAgent(m)
    PROVE  ChatsOK
<1> DEFINE c == m.chat
           type == IF Unlocked(agentOf[c]) THEN m.type ELSE agentOf[c].type
<1>1. c \in Chats /\ m.type \in Types
  BY DEF Messages, Types
<1>2. CASE UNCHANGED <<agentOf, told>>
  BY <1>2, ChatsKept
<1>3. CASE /\ c \in Present
           /\ agentOf' = [agentOf EXCEPT ![c].type = type]
           /\ told' = [told EXCEPT ![c].type = type]
  <2>1. agentOf[c] # NoChat /\ agentOf[c] \in Infos /\ told[c] \in Notices
    BY <1>1, <1>3, OneChat DEF Present
  <2>2. /\ agentOf[c].type = told[c].type
        /\ agentOf[c].initialized => agentOf[c].agent = CreateAgent(told[c].type)
    BY <1>1, <2>1, OneChat DEF Fits
  <2>3. type \in Types
    BY <1>1, <2>1 DEF Infos
  <2>4. agentOf[c].initialized => type = told[c].type
    BY <2>2 DEF Unlocked
  <2> HIDE DEF type
  <2>5. /\ agentOf'[c] = [agentOf[c] EXCEPT !.type = type]
        /\ told'[c] = [told[c] EXCEPT !.type = type]
    BY <1>1, <1>3 DEF Inv, ChatTypes
  <2>6. agentOf'[c] \in Infos /\ agentOf'[c].type = type
    BY <2>1, <2>3, <2>5 DEF Infos
  <2>7. told'[c] \in Notices /\ told'[c].type = type
    BY <2>1, <2>3, <2>5 DEF Notices
  <2>8. agentOf'[c].initialized = agentOf[c].initialized /\ agentOf'[c].agent = agentOf[c].agent
    BY <2>1, <2>5 DEF Infos
  <2>9. Fits(agentOf'[c], told'[c])
    BY <2>2, <2>4, <2>6, <2>7, <2>8 DEF Fits
  <2> QED
    BY <1>1, <1>3, <2>6, <2>7, <2>9, OneChanges
<1> QED
  BY <1>2, <1>3 DEF HandleSyncSessionAgent

LEMMA ControlOK ==
    ASSUME Inv, NEW m \in Messages, m.kind = "control", HandleAgentControl(m)
    PROVE  ChatsOK
<1> DEFINE c == m.chat
<1>1. c \in Chats
  BY DEF Messages
<1>2. PICK outcome \in {"not found", "no agent", "success"} :
        /\ told' = [told EXCEPT ![c].control = outcome]
        /\ \/ agentOf' = agentOf
           \/ agentOf[c] # NoChat /\ agentOf' = [agentOf EXCEPT ![c].reported = TRUE]
  BY <1>1 DEF HandleAgentControl, Present
<1>3. told'[c] = [told[c] EXCEPT !.control = outcome]
  BY <1>1, <1>2 DEF Inv, ChatTypes
<1>4. told'[c] \in Notices /\ told'[c].type = told[c].type
  BY <1>1, <1>3, OneChat, NoticeMarked
<1>5. CASE agentOf' = agentOf
  <2>1. agentOf' = [agentOf EXCEPT ![c] = agentOf[c]]
    BY <1>5 DEF Inv, ChatTypes
  <2>2. agentOf'[c] \in Infos /\ Fits(agentOf'[c], told'[c])
    BY <1>1, <1>4, <1>5, OneChat, NoticeFits
  <2> QED
    BY <1>1, <1>2, <1>4, <2>1, <2>2, OneChanges
<1>6. CASE agentOf[c] # NoChat /\ agentOf' = [agentOf EXCEPT ![c].reported = TRUE]
  <2>1. agentOf'[c] = [agentOf[c] EXCEPT !.reported = TRUE]
    BY <1>1, <1>6 DEF Inv, ChatTypes
  <2>2. agentOf'[c] \in Infos /\ Fits(agentOf'[c], told[c])
    BY <1>1, <1>6, <2>1, OneChat, MarkFits
  <2>3. Fits(agentOf'[c], told'[c])
    BY <1>4, <2>2, NoticeFits
  <2> QED
    BY <1>1, <1>2, <1>4, <1>6, <2>2, <2>3, OneChanges
<1> QED
  BY <1>2, <1>5, <1>6

\* A pass of the loop takes one message.
LEMMA GetControlOK ==
    ASSUME Inv, NEW fails \in SUBSET Chats, GetControl(fails)
    PROVE  ChatsOK /\ QueueTypes'
<1> USE DEF Inv
<1>1. starts \in FirstStarts /\ serverControl[starts] \in Seq(Messages)
  BY DEF GetControl, QueueTypes, FirstStarts
<1> DEFINE q == serverControl[starts]
<1>2. q # <<>> /\ Head(q) \in Messages /\ Tail(q) \in Seq(Messages)
  BY <1>1 DEF GetControl
<1>3. serverControl' = [serverControl EXCEPT ![starts] = Tail(q)]
  BY DEF GetControl
<1>4. QueueTypes'
  BY <1>1, <1>2, <1>3 DEF QueueTypes, GetControl, UnchangedDebuggers, FirstStarts
<1>5. HandlesControl(Head(q), fails)
  BY DEF GetControl
<1> HIDE DEF Inv, q
<1>6. CASE Head(q).kind = "template" /\ UNCHANGED <<agentOf, threads, told>>
  BY <1>4, <1>6, ChatsKept
<1>7. CASE Head(q).kind = "sync" /\ HandleSync(Head(q), fails)
  BY <1>2, <1>4, <1>7, SyncOK
<1>8. CASE Head(q).kind = "agent" /\ HandleSyncSessionAgent(Head(q))
  BY <1>2, <1>4, <1>8, AgentTypeOK
<1>9. CASE Head(q).kind = "control" /\ HandleAgentControl(Head(q))
  BY <1>2, <1>4, <1>9, ControlOK
<1> QED
  BY <1>5, <1>6, <1>7, <1>8, <1>9 DEF HandlesControl

\* What the agents and the time do to a session.
LEMMA MarkOK ==
    ASSUME Inv, NEW c \in Chats, agentOf[c] # NoChat, NEW b \in BOOLEAN, told' = told,
           \/ agentOf' = [agentOf EXCEPT ![c].idle = b]
           \/ agentOf' = [agentOf EXCEPT ![c].reported = b]
    PROVE  ChatsOK
<1>1. \/ agentOf'[c] = [agentOf[c] EXCEPT !.idle = b]
      \/ agentOf'[c] = [agentOf[c] EXCEPT !.reported = b]
  BY DEF Inv, ChatTypes
<1>2. agentOf'[c] \in Infos /\ Fits(agentOf'[c], told[c])
  BY <1>1, OneChat, MarkFits
<1>3. agentOf' = [agentOf EXCEPT ![c] = agentOf'[c]] /\ told' = [told EXCEPT ![c] = told[c]]
  BY DEF Inv, ChatTypes
<1> QED
  BY <1>2, <1>3, OneChat, OneChanges

-----------------------------------------------------------------------------
\* A debugger puts a typed message where it is attached.
LEMMA PutTypes ==
    ASSUME Inv, NEW root, NEW m \in Messages, PutControl(root, m)
    PROVE  QueueTypes' /\ ChatsOK
<1>1. QueueTypes'
  <2>1. serverControl \in [FirstStarts -> Seq(Messages)]
    BY DEF Inv, QueueTypes
  <2>2. serverControl' = [serverControl EXCEPT ![root] = Append(serverControl[root], m)]
    BY DEF PutControl
  <2>3. ASSUME root \in FirstStarts PROVE Append(serverControl[root], m) \in Seq(Messages)
    BY <2>1, <2>3
  <2>4. serverControl' \in [FirstStarts -> Seq(Messages)]
    BY <2>1, <2>2, <2>3
  <2> QED
    BY <2>4 DEF Inv, QueueTypes, PutControl
<1>2. ChatsOK
  BY ChatsKept DEF PutControl
<1> QED
  BY <1>1, <1>2

LEMMA AttachedTypes ==
    ASSUME Inv, NEW d \in Debuggers
    PROVE  Attached(d) \subseteq 0 .. MaxStarts
BY DEF Inv, QueueTypes, DebuggerTypes, Senders, Attached, LatestQueues

LEMMA DebuggerOK ==
    ASSUME Inv, NEW d \in Debuggers,
           \/ SyncSessionAgent(d) \/ SendUserInput(d) \/ SendTemplateVersion(d)
           \/ \E c \in Chats : \/ SendAgentControl(d, c)
                               \/ \E type \in AgentTypes : ApplySettings(d, c, type)
           \/ \E c \in Chats, others \in SUBSET Chats :
                 \E first \in others \cup {c} : SyncActiveSessions(d, c, others, first)
    PROVE  Inv'
<1> USE DEF Inv, DebuggerTypes, Senders
<1>1. CASE SyncSessionAgent(d)
  <2>1. PICK root \in 0 .. MaxStarts :
          /\ sender[d].pc = "type"
          /\ PutControl(root, [kind |-> "agent", chat |-> sender[d].chat,
                               type |-> choices[d][sender[d].chat]])
          /\ sender' = [sender EXCEPT ![d].pc = "message", ![d].root = root]
          /\ UNCHANGED <<choices, input>>
    BY <1>1, AttachedTypes DEF SyncSessionAgent
  <2>2. [kind |-> "agent", chat |-> sender[d].chat, type |-> choices[d][sender[d].chat]] \in Messages
    BY <2>1 DEF Messages
  <2> QED
    BY <2>1, <2>2, PutTypes DEF ChatsOK
<1>2. CASE SendUserInput(d)
  <2>1. PICK root \in 0 .. MaxStarts :
          /\ sender' = [sender EXCEPT ![d] = [pc |-> "idle", chat |-> NoType, began |-> 0, root |-> root]]
          /\ UNCHANGED <<setting, starts, loop, agentOf, threads, told, serverControl, choices, puts>>
    BY <1>2, AttachedTypes DEF SendUserInput
  <2>2. DebuggerTypes'
    <3>1. [pc |-> "idle", chat |-> NoType, began |-> 0, root |-> root] \in Senders
      BY StartsAreCounted
    <3> QED
      BY <2>1, <3>1
  <2>3. ChatsOK
    BY <2>1, ChatsKept
  <2> QED
    BY <2>1, <2>2, <2>3 DEF QueueTypes, ChatsOK
<1>3. ASSUME NEW m \in Messages, SendOther(d, m) PROVE Inv'
  <2>1. PICK root \in 0 .. MaxStarts :
          /\ PutControl(root, m)
          /\ sender' = [sender EXCEPT ![d].root = root]
          /\ UNCHANGED <<choices, input>>
    BY <1>3, AttachedTypes DEF SendOther
  <2> QED
    BY <2>1, PutTypes DEF ChatsOK
<1>4. CASE SendTemplateVersion(d)
  <2>1. [kind |-> "template"] \in Messages
    BY DEF Messages
  <2> QED
    BY <1>3, <1>4, <2>1 DEF SendTemplateVersion
<1>5. ASSUME NEW c \in Chats, SendAgentControl(d, c) PROVE Inv'
  <2>1. [kind |-> "control", chat |-> c] \in Messages
    BY DEF Messages
  <2> QED
    BY <1>3, <1>5, <2>1 DEF SendAgentControl
<1>6. ASSUME NEW c \in Chats, NEW type \in AgentTypes, ApplySettings(d, c, type) PROVE Inv'
  <2>1. PICK root \in 0 .. MaxStarts :
          /\ PutControl(root, [kind |-> "agent", chat |-> c, type |-> type])
          /\ choices' = [choices EXCEPT ![d][c] = type]
          /\ sender' = [sender EXCEPT ![d].root = root]
    BY <1>6, AttachedTypes DEF ApplySettings
  <2>2. [kind |-> "agent", chat |-> c, type |-> type] \in Messages
    BY DEF Messages
  <2>3. choices' \in [Debuggers -> [Chats -> AgentTypes]]
    BY <2>1
  <2> QED
    BY <2>1, <2>2, <2>3, PutTypes DEF ChatsOK
<1>7. ASSUME NEW c \in Chats, NEW others \in SUBSET Chats, NEW first \in others \cup {c},
             SyncActiveSessions(d, c, others, first)
      PROVE  Inv'
  <2>1. PICK root \in 0 .. MaxStarts :
          /\ PutControl(root, [kind |-> "sync", chats |-> others \cup {c}, first |-> first])
          /\ sender' = [sender EXCEPT ![d] = [pc |-> "type", chat |-> c, began |-> root, root |-> root]]
          /\ UNCHANGED <<choices, input>>
    BY <1>7, AttachedTypes DEF SyncActiveSessions
  <2>2. [kind |-> "sync", chats |-> others \cup {c}, first |-> first] \in Messages
    BY DEF Messages
  <2> QED
    BY <2>1, <2>2, PutTypes DEF ChatsOK
<1> QED
  BY <1>1, <1>2, <1>4, <1>5, <1>6, <1>7

-----------------------------------------------------------------------------
LEMMA InvHolds == FirstSpec => []Inv
<1>1. FirstInit => Inv
  <2> SUFFICES ASSUME FirstInit PROVE Inv
    OBVIOUS
  <2> USE DEF FirstInit
  <2>1. ChatTypes
    <3>1. NoNotice \in Notices
      BY DEF NoNotice, Notices, Types
    <3> QED
      BY <3>1, InfosTyped DEF ChatTypes
  <2>2. QueueTypes
    <3>1. <<>> \in Seq(Messages) /\ 0 \in 0 .. MaxStarts
      BY StartsAreCounted
    <3> QED
      BY <3>1 DEF QueueTypes, FirstStarts
  <2>3. DebuggerTypes
    <3>1. [pc |-> "idle", chat |-> NoType, began |-> 0, root |-> 0] \in Senders
      BY StartsAreCounted DEF Senders
    <3>2. DefaultType \in AgentTypes
      BY TypesAreTypes
    <3> QED
      BY <3>1, <3>2 DEF DebuggerTypes
  <2>4. NamedTypeIsAgents
    BY DEF NamedTypeIsAgents, Present
  <2> QED
    BY <2>1, <2>2, <2>3, <2>4 DEF Inv
<1>2. Inv /\ [FirstNext]_firstVars => Inv'
  <2> SUFFICES ASSUME Inv, [FirstNext]_firstVars PROVE Inv'
    OBVIOUS
  <2> USE DEF Inv
  <2>1. ASSUME UnchangedDebuggers PROVE DebuggerTypes'
    BY <2>1 DEF UnchangedDebuggers, DebuggerTypes
  <2>2. ASSUME UnchangedDebuggers, UNCHANGED serverControl, loop' # "down" => loop # "down"
        PROVE  QueueTypes'
    BY <2>2 DEF UnchangedDebuggers, QueueTypes
  <2>3. ASSUME UNCHANGED <<agentOf, told>> PROVE ChatsOK
    BY <2>3, ChatsKept
  <2>4. CASE ServiceStart
    <3>1. starts' \in 0 .. MaxStarts /\ starts' # 0
      BY <2>4, StartsAreCounted DEF ServiceStart, QueueTypes
    <3>2. QueueTypes' /\ DebuggerTypes'
      BY <2>4, <3>1 DEF ServiceStart, QueueTypes, DebuggerTypes
    <3> QED
      BY <2>3, <2>4, <3>2 DEF ServiceStart, ChatsOK
  <2>5. CASE ServiceStop
    <3>1. NoNotice \in Notices
      BY DEF NoNotice, Notices, Types
    <3>2. agentOf' = [c \in Chats |-> NoChat] /\ told' = [c \in Chats |-> NoNotice]
      BY <2>5 DEF ServiceStop, CleanupSession
    <3>3. ChatsOK
      BY <3>1, <3>2, InfosTyped, ChatsShown DEF Fits
    <3> QED
      BY <2>1, <2>2, <2>5, <3>3 DEF ServiceStop, ChatsOK
  <2>6. CASE GetNothing
    BY <2>1, <2>2, <2>3, <2>6 DEF GetNothing, ChatsOK
  <2>7. ASSUME NEW cleansUp \in BOOLEAN, NEW fails \in SUBSET Chats, BeginPass(cleansUp, fails)
        PROVE  Inv'
    BY <2>1, <2>2, <2>7, BeginPassOK DEF BeginPass, ChatsOK
  <2>8. ASSUME NEW fails \in SUBSET Chats, GetControl(fails) PROVE Inv'
    BY <2>1, <2>8, GetControlOK DEF GetControl, ChatsOK
  <2>9. ASSUME NEW c \in Chats, GrowsIdle(c) PROVE Inv'
    <3>1. ChatsOK
      BY <2>9, MarkOK DEF GrowsIdle, Present
    <3> QED
      BY <2>1, <2>2, <2>9, <3>1 DEF GrowsIdle, ChatsOK
  <2>10. ASSUME NEW c \in Chats, StatusChanges(c) PROVE Inv'
    <3>1. agentOf[c] # NoChat
      BY <2>10 DEF StatusChanges, NoChat
    <3>2. ChatsOK
      BY <2>10, <3>1, MarkOK DEF StatusChanges
    <3> QED
      BY <2>1, <2>2, <2>10, <3>2 DEF StatusChanges, ChatsOK
  <2>11. ASSUME NEW c \in Chats, SynchronousRun(c) PROVE Inv'
    <3>1. agentOf[c] # NoChat
      BY <2>11 DEF SynchronousRun, NoChat
    <3>2. ChatsOK
      BY <2>11, <3>1, MarkOK DEF SynchronousRun
    <3> QED
      BY <2>1, <2>2, <2>11, <3>2 DEF SynchronousRun, ChatsOK
  <2>12. ASSUME NEW t \in threads, RunAgentInThread(t) PROVE Inv'
    BY <2>1, <2>2, <2>3, <2>12 DEF RunAgentInThread, ChatsOK
  <2>13. CASE UNCHANGED firstVars
    BY <2>3, <2>13 DEF QueueTypes, DebuggerTypes, ChatsOK
  <2> QED
    BY <2>4, <2>5, <2>6, <2>7, <2>8, <2>9, <2>10, <2>11, <2>12, <2>13, DebuggerOK DEF FirstNext
<1> QED
  BY <1>1, <1>2, PTL DEF FirstSpec

\* The type the service has named last for a session is the session's type and
\* that of its agent, over restarts, removals and every order of the messages.
THEOREM NamedTypeAnswers == FirstSpec => []NamedTypeIsAgents
BY InvHolds, PTL DEF Inv

-----------------------------------------------------------------------------
(* The logs that a debugger shows, for every set of sessions and of log     *)
(* directories, every number of writes and of messages, and both debuggers. *)

NamesOrNone == Ids \cup {"none"}
Held == [content : Nat, mtime : Nat]
Records == [path : BOOLEAN, loaded : Held, initialLoadDone : BOOLEAN, displayed : Nat, pending : BOOLEAN]

ControlMessages ==
    [type : {"log_path_available", "agent_status", "kb_get_response", "agent_control_ack"}, session : PageSessions]
Polls ==
    [pc : {"idle", "handling"}, session : PageSessions \cup {"none"}, batch : Seq(ControlMessages), created : BOOLEAN]

Monitors ==
    [pc : {"idle", "checking", "loading", "storing"}, todo : SUBSET Ids, session : NamesOrNone,
     mtime : Nat, content : Nat, mine : BOOLEAN]
Loaders == [pc : {"idle", "first_view", "switch"}, session : NamesOrNone, content : Nat, mine : BOOLEAN]
Graphs == [session : NamesOrNone, content : Nat, from : {"none", "monitor", "itself"}]

\* The records of the sessions, and the logs they are loaded from.
RecordTypes ==
    /\ written \in [Ids -> Nat]
    /\ known \in SUBSET Ids
    /\ info \in [Ids -> Records]

\* The page, and the control commands it sends.
PageTypes ==
    /\ chats \in [PageSessions -> {"new", "open", "closed"}]
    /\ current \in PageSessions \cup {"none"}
    /\ unanswered \in SUBSET PageSessions
    /\ click.pc = "sent" => click.session \in PageSessions

\* The control queue, and the callback that handles what it has taken from it.
PollTypes ==
    /\ messages \in Seq(ControlMessages)
    /\ poll \in Polls

ThreadTypes ==
    /\ monitor \in Monitors
    /\ monitor.pc \in {"loading", "storing"} => monitor.session \in Ids
    /\ loader \in Loaders
    /\ loader.pc # "idle" => loader.session \in Ids

\* Content is never older than the time put on it: in a record, in the monitor's
\* hands, and in the files it is about to read.
HeldIsDated ==
    /\ \A i \in Ids : info[i].loaded.content >= info[i].loaded.mtime
    /\ monitor.pc = "loading" => written[monitor.session] >= monitor.mtime
    /\ monitor.pc = "storing" => monitor.content >= monitor.mtime

\* A graph that shows what the monitor has loaded is as new as what its session
\* counts as displayed.
ShownIsDisplayed ==
    /\ graph \in Graphs
    /\ graph.from = "monitor" => graph.session \in Ids /\ graph.content >= info[graph.session].displayed

LogInv == RecordTypes /\ PageTypes /\ PollTypes /\ ThreadTypes /\ HeldIsDated /\ ShownIsDisplayed

LEMMA LogsBegin == ASSUME DebugInit PROVE LogInv
<1> USE DEF DebugInit
<1>1. RecordTypes
  BY DEF RecordTypes, NewInfo, NoData, Records, Held
<1>2. PageTypes
  BY DEF PageTypes, NoClick
<1>3. PollTypes
  <2>1. <<>> \in Seq(ControlMessages)
    OBVIOUS
  <2> QED
    BY <2>1 DEF PollTypes, NoPoll, Polls
<1>4. ThreadTypes
  BY DEF ThreadTypes, Resting, NotLoading, Monitors, Loaders, NamesOrNone
<1>5. HeldIsDated
  BY DEF HeldIsDated, NewInfo, NoData, Resting
<1>6. ShownIsDisplayed
  BY DEF ShownIsDisplayed, Graphs, NamesOrNone
<1> QED
  BY <1>1, <1>2, <1>3, <1>4, <1>5, <1>6 DEF LogInv

LEMMA LogInvMeans == LogInv => UpToDateIsTrue
<1> SUFFICES ASSUME LogInv PROVE UpToDateIsTrue
  OBVIOUS
<1>1. ASSUME NEW i \in known PROVE info[i].loaded.content >= info[i].loaded.mtime
  BY <1>1 DEF LogInv, RecordTypes, HeldIsDated
<1> DEFINE s == graph.session
<1>2. ASSUME graph.from = "monitor", s \in known, Status(s) = "up_to_date"
      PROVE  graph.content >= info[s].loaded.mtime
  <2>1. ~(info[s].loaded.mtime > info[s].displayed)
    BY <1>2 DEF Status
  <2>2. graph.content >= info[s].displayed /\ s \in Ids
    BY <1>2 DEF LogInv, ShownIsDisplayed
  <2>3. info[s].loaded.mtime \in Nat /\ info[s].displayed \in Nat /\ graph.content \in Nat
    BY <2>2 DEF LogInv, RecordTypes, Records, Held, ShownIsDisplayed, Graphs
  <2> QED
    BY <2>1, <2>2, <2>3
<1> QED
  BY <1>1, <1>2 DEF UpToDateIsTrue

\* A message of the service comes to the end of the queue.
LEMMA MessagesComeIn ==
    ASSUME PollTypes, NEW type, NEW s \in PageSessions, Sends(type, s),
           type \in {"log_path_available", "agent_status", "kb_get_response", "agent_control_ack"}
    PROVE  PollTypes'
<1>1. [type |-> type, session |-> s] \in ControlMessages
  BY DEF ControlMessages
<1>2. messages' \in Seq(ControlMessages)
  BY <1>1 DEF Sends, PollTypes
<1> QED
  BY <1>2 DEF Sends, PollTypes

\* A poll handles what it has taken.
LEMMA PollsHandle ==
    ASSUME PollTypes, poll.batch # <<>>
    PROVE  /\ Handled \in Polls
           /\ Head(poll.batch) \in ControlMessages
           /\ Subject \in PageSessions
           /\ \A b \in BOOLEAN : [Handled EXCEPT !.created = b] \in Polls
<1>1. poll.batch \in Seq(ControlMessages) /\ poll \in Polls
  BY DEF PollTypes, Polls
<1>2. Tail(poll.batch) \in Seq(ControlMessages) /\ Head(poll.batch) \in ControlMessages
  BY <1>1
<1>3. Handled \in Polls
  BY <1>1, <1>2 DEF Handled, Polls
<1>4. \A b \in BOOLEAN : [Handled EXCEPT !.created = b] \in Polls
  BY <1>3 DEF Polls
<1>5. Subject \in PageSessions
  BY <1>2 DEF Subject, ControlMessages
<1> QED
  BY <1>2, <1>3, <1>4, <1>5

\* What one record's change means for all of them.
LEMMA RecordChanges ==
    ASSUME LogInv, NEW i \in Ids, NEW r \in Records, info' = [info EXCEPT ![i] = r],
           known' \in SUBSET Ids, UNCHANGED <<written, monitor>>,
           r.loaded.content >= r.loaded.mtime
    PROVE  /\ RecordTypes'
           /\ HeldIsDated'
           /\ \A j \in Ids \ {i} : info'[j] = info[j]
           /\ info'[i] = r
<1>1. info \in [Ids -> Records] /\ RecordTypes'
  BY DEF LogInv, RecordTypes
<1>2. \A j \in Ids \ {i} : info'[j] = info[j]
  BY <1>1
<1>3. info'[i] = r
  BY <1>1
<1>4. HeldIsDated'
  BY <1>2, <1>3 DEF LogInv, HeldIsDated
<1> QED
  BY <1>1, <1>2, <1>3, <1>4

\* A record whose logs stay as they were.
LEMMA OnlyFlagsChange ==
    ASSUME LogInv, NEW i \in Ids, NEW r \in Records, info' = [info EXCEPT ![i] = r],
           known' \in SUBSET Ids, UNCHANGED <<written, monitor, graph>>,
           r.loaded = info[i].loaded, r.displayed = info[i].displayed
    PROVE  RecordTypes' /\ HeldIsDated' /\ ShownIsDisplayed'
<1>1. r.loaded.content >= r.loaded.mtime
  BY DEF LogInv, HeldIsDated
<1>2. /\ RecordTypes' /\ HeldIsDated'
      /\ \A j \in Ids : info'[j].displayed = info[j].displayed
  BY <1>1, RecordChanges
<1> QED
  BY <1>2 DEF LogInv, ShownIsDisplayed

-----------------------------------------------------------------------------
LEMMA ServiceKeepsLogInv ==
    ASSUME LogInv, Start \/ (\E i \in Ids : AgentWrites(i)) \/ (\E s \in PageSessions : ServiceReports(s) \/ ServiceAcknowledges(s))
    PROVE  LogInv'
<1> USE DEF LogInv
<1>1. CASE Start
  BY <1>1 DEF Start, Page, AllThreads, Controls, RecordTypes, PageTypes, PollTypes, ThreadTypes, HeldIsDated, ShownIsDisplayed
<1>2. ASSUME NEW i \in Ids, AgentWrites(i) PROVE LogInv'
  <2> USE DEF AgentWrites, Running, Page, AllThreads, Controls
  <2>1. /\ written' \in [Ids -> Nat]
        /\ \A j \in Ids : written'[j] >= written[j] /\ written[j] \in Nat
    BY <1>2 DEF RecordTypes
  <2>2. RecordTypes'
    BY <1>2, <2>1 DEF RecordTypes
  <2>3. monitor.mtime \in Nat /\ (monitor.pc = "loading" => monitor.session \in Ids)
    BY DEF ThreadTypes, Monitors
  <2>4. HeldIsDated'
    BY <1>2, <2>1, <2>3 DEF HeldIsDated
  <2> QED
    BY <1>2, <2>2, <2>4 DEF PageTypes, PollTypes, ThreadTypes, ShownIsDisplayed
<1>3. ASSUME NEW s \in PageSessions, ServiceReports(s) \/ ServiceAcknowledges(s) PROVE LogInv'
  <2>1. PollTypes'
    BY <1>3, MessagesComeIn DEF ServiceReports, ServiceAcknowledges
  <2>2. unanswered' \in SUBSET PageSessions
    BY <1>3 DEF ServiceReports, ServiceAcknowledges, PageTypes
  <2> QED
    BY <1>3, <2>1, <2>2
    DEF ServiceReports, ServiceAcknowledges, Sends, Page, RecordTypes, PageTypes, ThreadTypes, HeldIsDated, ShownIsDisplayed
<1> QED
  BY <1>1, <1>2, <1>3

LEMMA NoRecordYet == NewInfo \in Records /\ NewInfo.displayed = 0 /\ NewInfo.loaded.content >= NewInfo.loaded.mtime
BY DEF NewInfo, NoData, Records, Held

LEMMA SessionsKeepLogInv ==
    ASSUME LogInv, SyncSessionsOnChange \/ (\E s \in PageSessions : NewChat(s) \/ CloseChat(s))
    PROVE  LogInv'
<1> USE DEF LogInv
<1>1. ASSUME NEW s \in PageSessions, NewChat(s) \/ CloseChat(s) PROVE LogInv'
  <2>1. known' \in SUBSET Ids
    BY <1>1, DebuggerAssumption DEF NewChat, CloseChat, GetOrCreate, RecordTypes
  <2>2. PageTypes'
    BY <1>1 DEF NewChat, CloseChat, PageTypes, Open, AllThreads, Controls
  <2> QED
    BY <1>1, <2>1, <2>2
    DEF NewChat, CloseChat, AllThreads, Controls, RecordTypes, PollTypes, ThreadTypes, HeldIsDated, ShownIsDisplayed
<1>2. CASE SyncSessionsOnChange
  <2> USE DEF SyncSessionsOnChange, CleanupInactive
  <2>1. info' = [i \in Ids |-> IF i \in Open THEN info[i] ELSE NewInfo]
    BY <1>2
  <2>2. \A i \in Ids : info'[i] = info[i] \/ info'[i] = NewInfo
    BY <2>1
  <2>3. RecordTypes'
    BY <1>2, <2>1, NoRecordYet DEF RecordTypes
  <2>4. /\ monitor' \in Monitors /\ loader' \in Loaders
        /\ monitor'.pc = monitor.pc /\ monitor'.session = monitor.session /\ monitor'.mtime = monitor.mtime
        /\ monitor'.content = monitor.content
        /\ loader'.pc = loader.pc /\ loader'.session = loader.session
    <3>1. \A b \in BOOLEAN : [monitor EXCEPT !.mine = b] \in Monitors /\ [loader EXCEPT !.mine = b] \in Loaders
      BY DEF ThreadTypes, Monitors, Loaders
    <3> DEFINE m == monitor.mine /\ monitor.session \in Open
               l == loader.mine /\ loader.session \in Open
    <3>2. m \in BOOLEAN /\ l \in BOOLEAN
      OBVIOUS
    <3>3. monitor' = [monitor EXCEPT !.mine = m] /\ loader' = [loader EXCEPT !.mine = l]
      BY <1>2
    <3> HIDE DEF m, l
    <3>4. /\ monitor \in Monitors
          /\ loader \in Loaders
      BY DEF ThreadTypes
    <3> QED
      BY <3>1, <3>2, <3>3, <3>4 DEF Monitors, Loaders
  <2>5. ThreadTypes'
    BY <2>4 DEF ThreadTypes
  <2>6. HeldIsDated'
    BY <1>2, <2>2, <2>4, NoRecordYet DEF HeldIsDated
  <2>7. ShownIsDisplayed'
    <3>1. graph.content \in Nat
      BY DEF ShownIsDisplayed, Graphs
    <3> QED
      BY <1>2, <2>2, <3>1, NoRecordYet DEF ShownIsDisplayed
  <2> QED
    BY <1>2, <2>3, <2>5, <2>6, <2>7 DEF Page, Controls, PageTypes, PollTypes
<1> QED
  BY <1>1, <1>2

LEMMA PollsKeepLogInv ==
    ASSUME LogInv,
           PollClientControls \/ HandleLogPath \/ HandleControlAck \/ HandleAgentStatus \/ HandleUnknown \/ PollEnds
    PROVE  LogInv'
<1> USE DEF LogInv
<1>1. CASE PollClientControls
  <2>1. <<>> \in Seq(ControlMessages)
    OBVIOUS
  <2>2. PollTypes'
    BY <1>1, <2>1 DEF PollClientControls, PollTypes, PageTypes, Polls
  <2> QED
    BY <1>1, <2>2 DEF PollClientControls, Page, RecordTypes, PageTypes, ThreadTypes, HeldIsDated, ShownIsDisplayed
<1>2. ASSUME NEW type, HandlesOne(type), poll' \in Polls, known' \in SUBSET Ids,
             info' = info \/ \E i \in Ids, r \in Records :
                               /\ info' = [info EXCEPT ![i] = r]
                               /\ r.loaded = info[i].loaded /\ r.displayed = info[i].displayed
      PROVE  LogInv'
  <2>1. /\ UNCHANGED <<written, messages, chats, current, graph, monitor, loader, click, unanswered>>
    BY <1>2 DEF HandlesOne, InPoll, Page
  <2>2. RecordTypes' /\ HeldIsDated' /\ ShownIsDisplayed'
    <3>1. CASE info' = info
      BY <1>2, <2>1, <3>1 DEF RecordTypes, HeldIsDated, ShownIsDisplayed
    <3>2. ASSUME NEW i \in Ids, NEW r \in Records, info' = [info EXCEPT ![i] = r],
                 r.loaded = info[i].loaded, r.displayed = info[i].displayed
          PROVE  RecordTypes' /\ HeldIsDated' /\ ShownIsDisplayed'
      BY <1>2, <2>1, <3>2, OnlyFlagsChange
    <3> QED
      BY <1>2, <3>1, <3>2
  <2> QED
    BY <1>2, <2>1, <2>2 DEF PageTypes, PollTypes, ThreadTypes
<1>3. ASSUME NEW i \in Ids, NEW b \in BOOLEAN
      PROVE  /\ [info[i] EXCEPT !.path = b] \in Records
             /\ [info[i] EXCEPT !.pending = b] \in Records
             /\ [info[i] EXCEPT !.path = b].loaded = info[i].loaded
             /\ [info[i] EXCEPT !.path = b].displayed = info[i].displayed
             /\ [info[i] EXCEPT !.pending = b].loaded = info[i].loaded
             /\ [info[i] EXCEPT !.pending = b].displayed = info[i].displayed
  <2>1. info[i] \in Records
    BY DEF RecordTypes
  <2> QED
    BY <2>1 DEF Records
<1>4. CASE HandleLogPath
  <2>1. poll' \in Polls /\ Subject \in PageSessions
    BY <1>4, PollsHandle DEF HandleLogPath, HandlesOne
  <2> DEFINE d == DirectoryOf[Subject]
             r == [info[d] EXCEPT !.path = TRUE]
  <2>2. d \in Ids
    BY <2>1, DebuggerAssumption
  <2>3. known' \in SUBSET Ids
    BY <1>4, <2>2 DEF HandleLogPath, GetOrCreate, RecordTypes
  <2>4. r \in Records /\ r.loaded = info[d].loaded /\ r.displayed = info[d].displayed
    BY <1>3, <2>2
  <2>5. info' = info \/ info' = [info EXCEPT ![d] = r]
    BY <1>4 DEF HandleLogPath
  <2> HIDE DEF d, r
  <2> QED
    BY <1>2, <1>4, <2>1, <2>2, <2>3, <2>4, <2>5 DEF HandleLogPath
<1>5. CASE HandleControlAck
  <2>1. poll' \in Polls /\ Subject \in PageSessions
    BY <1>5, PollsHandle DEF HandleControlAck, HandlesOne
  <2> DEFINE s == Subject
             r == [info[s] EXCEPT !.pending = FALSE]
  <2>2. s \in Ids
    BY <2>1, DebuggerAssumption
  <2>3. known' \in SUBSET Ids
    BY <1>5, <2>2 DEF HandleControlAck, GetOrCreate, RecordTypes
  <2>4. r \in Records /\ r.loaded = info[s].loaded /\ r.displayed = info[s].displayed
    BY <1>3, <2>2
  <2>5. info' = info \/ info' = [info EXCEPT ![s] = r]
    BY <1>5 DEF HandleControlAck
  <2> HIDE DEF s, r
  <2> QED
    BY <1>2, <1>5, <2>1, <2>2, <2>3, <2>4, <2>5 DEF HandleControlAck
<1>6. CASE HandleAgentStatus
  <2> DEFINE b == Handled.created \/ Subject = poll.session
  <2>1. b \in BOOLEAN /\ poll' = [Handled EXCEPT !.created = b]
    BY <1>6 DEF HandleAgentStatus
  <2>2. poll' \in Polls
    <3> HIDE DEF b
    <3> QED
      BY <1>6, <2>1, PollsHandle DEF HandleAgentStatus, HandlesOne
  <2>3. info' = info /\ known' = known
    BY <1>6 DEF HandleAgentStatus
  <2> QED
    BY <1>2, <1>6, <2>2, <2>3 DEF HandleAgentStatus, RecordTypes
<1>7. CASE HandleUnknown
  <2>1. poll' \in Polls
    BY <1>7, PollsHandle DEF HandleUnknown, HandlesOne
  <2> QED
    BY <1>2, <1>7, <2>1 DEF HandleUnknown, RecordTypes
<1>8. CASE PollEnds
  <2>1. NoPoll \in Polls
    <3>1. <<>> \in Seq(ControlMessages)
      OBVIOUS
    <3> QED
      BY <3>1 DEF NoPoll, Polls
  <2>2. poll.session \in PageSessions \cup {"none"}
    BY DEF PollTypes, Polls
  <2>3. known' \in SUBSET Ids
    BY <1>8, <2>2, DebuggerAssumption DEF PollEnds, GetOrCreate, RecordTypes
  <2> QED
    BY <1>8, <2>1, <2>3
    DEF PollEnds, InPoll, Page, RecordTypes, PageTypes, PollTypes, ThreadTypes, HeldIsDated, ShownIsDisplayed
<1> QED
  BY <1>1, <1>4, <1>5, <1>6, <1>7, <1>8

\* A step of the monitor's thread that leaves the records alone.
LEMMA MonitorMovesOn ==
    ASSUME LogInv, NEW m \in Monitors, MonitorMoves(m), info' = info, known' \in SUBSET Ids,
           m.pc \in {"loading", "storing"} => m.session \in Ids,
           m.pc = "loading" => written[m.session] >= m.mtime,
           m.pc = "storing" => m.content >= m.mtime
    PROVE  LogInv'
<1>1. monitor' = m
  BY DEF MonitorMoves
<1>2. UNCHANGED <<written, messages, chats, current, graph, loader, poll, click, unanswered>>
  BY DEF MonitorMoves, Page, Controls
<1>3. ThreadTypes' /\ HeldIsDated'
  BY <1>1, <1>2 DEF LogInv, ThreadTypes, HeldIsDated
<1> QED
  BY <1>2, <1>3 DEF LogInv, RecordTypes, PageTypes, PollTypes, ShownIsDisplayed

LEMMA MonitorsRest ==
    ASSUME LogInv
    PROVE  /\ NextInTurn \in Monitors /\ NextInTurn.pc = "checking"
           /\ Resting \in Monitors /\ Resting.pc = "idle"
<1>1. monitor \in Monitors
  BY DEF LogInv, ThreadTypes
<1> QED
  BY <1>1 DEF NextInTurn, Resting, Monitors, NamesOrNone

\* What a check of one session leaves the monitor with.
LEMMA MonitorsCheck ==
    ASSUME LogInv, NEW i \in Ids, known' \in SUBSET Ids, info' = info,
           MonitorMoves([Takes(i) EXCEPT !.pc = "loading", !.mtime = Newest(i)])
             \/ (monitor.pc = "checking" /\ MonitorMoves([monitor EXCEPT !.todo = @ \ {i}]))
    PROVE  LogInv'
<1>1. monitor \in Monitors /\ Newest(i) \in Nat
  BY DEF LogInv, ThreadTypes, RecordTypes, Newest, Log
<1> DEFINE m == [Takes(i) EXCEPT !.pc = "loading", !.mtime = Newest(i)]
           n == [monitor EXCEPT !.todo = @ \ {i}]
<1>2. /\ m \in Monitors /\ m.pc = "loading" /\ m.session = i /\ m.mtime = Newest(i)
      /\ n \in Monitors /\ n.pc = monitor.pc
  BY <1>1 DEF Takes, Monitors, NamesOrNone
<1>3. written[i] >= Newest(i)
  BY <1>1 DEF Newest, Log
<1>4. MonitorMoves(m) \/ (monitor.pc = "checking" /\ MonitorMoves(n))
  OBVIOUS
<1> HIDE DEF m, n
<1>5. CASE MonitorMoves(m)
  BY <1>2, <1>3, <1>5, MonitorMovesOn
<1>6. CASE monitor.pc = "checking" /\ MonitorMoves(n)
  BY <1>2, <1>6, MonitorMovesOn
<1> QED
  BY <1>4, <1>5, <1>6

\* The monitor puts what it has loaded into a record.
LEMMA MonitorPuts ==
    ASSUME LogInv, monitor.pc = "storing", MonitorMoves(NextInTurn), known' = known,
           info' = info \/ info' = [info EXCEPT ![monitor.session].loaded = LoadedData]
    PROVE  LogInv'
<1> DEFINE i == monitor.session
           r == [info[i] EXCEPT !.loaded = LoadedData]
<1>1. NextInTurn \in Monitors /\ NextInTurn.pc = "checking"
  BY MonitorsRest
<1>2. i \in Ids /\ monitor \in Monitors /\ info[i] \in Records
  BY DEF LogInv, ThreadTypes, RecordTypes
<1>3. monitor.content \in Nat /\ monitor.mtime \in Nat /\ monitor.content >= monitor.mtime
  BY <1>2 DEF LogInv, HeldIsDated, Monitors
<1>4. LoadedData \in Held /\ LoadedData.content >= LoadedData.mtime
  BY <1>3 DEF LoadedData, Held
<1>5. /\ r \in Records
      /\ r.loaded.content >= r.loaded.mtime
      /\ r.displayed = info[i].displayed
  BY <1>2, <1>4 DEF Records
<1>6. /\ UNCHANGED <<written, messages, chats, current, graph, loader, poll, click, unanswered>>
      /\ monitor' = NextInTurn
  BY DEF MonitorMoves, Page, Controls
<1>7. info' = info \/ info' = [info EXCEPT ![i] = r]
  OBVIOUS
<1> HIDE DEF i, r
<1>8. /\ RecordTypes'
      /\ \A j \in Ids : /\ info'[j].loaded.content >= info'[j].loaded.mtime
                        /\ info'[j].displayed = info[j].displayed
  BY <1>2, <1>5, <1>6, <1>7 DEF LogInv, RecordTypes, HeldIsDated
<1>9. HeldIsDated' /\ ThreadTypes'
  BY <1>1, <1>6, <1>8 DEF LogInv, HeldIsDated, ThreadTypes
<1>10. ShownIsDisplayed'
  BY <1>6, <1>8 DEF LogInv, ShownIsDisplayed
<1> QED
  BY <1>6, <1>8, <1>9, <1>10 DEF LogInv, PageTypes, PollTypes

LEMMA MonitorKeepsLogInv ==
    ASSUME LogInv,
           \/ MonitorBegins \/ MonitorLoads \/ MonitorStores \/ FirstMonitorStores \/ MonitorSleeps
           \/ \E i \in Ids : CheckSessionLogs(i) \/ FirstCheckSessionLogs(i)
    PROVE  LogInv'
<1>0. known \in SUBSET Ids /\ monitor \in Monitors
  BY DEF LogInv, RecordTypes, ThreadTypes
<1>1. CASE MonitorBegins
  <2> DEFINE m == [Resting EXCEPT !.pc = "checking", !.todo = {i \in known : info[i].path}]
  <2>1. m \in Monitors /\ m.pc = "checking"
    BY <1>0 DEF Resting, Monitors, NamesOrNone
  <2>2. MonitorMoves(m) /\ info' = info /\ known' = known
    BY <1>1 DEF MonitorBegins
  <2> HIDE DEF m
  <2> QED
    BY <1>0, <2>1, <2>2, MonitorMovesOn
<1>2. CASE MonitorLoads
  <2> DEFINE m == [monitor EXCEPT !.pc = "storing", !.content = Log(monitor.session)]
  <2>1. /\ monitor.session \in Ids /\ written[monitor.session] \in Nat
        /\ written[monitor.session] >= monitor.mtime
    BY <1>2 DEF MonitorLoads, LogInv, ThreadTypes, RecordTypes, HeldIsDated
  <2>2. /\ m \in Monitors /\ m.pc = "storing" /\ m.session = monitor.session
        /\ m.content = written[monitor.session] /\ m.mtime = monitor.mtime
    BY <1>0, <2>1 DEF Monitors, Log
  <2>3. MonitorMoves(m) \/ MonitorMoves(NextInTurn)
    BY <1>2 DEF MonitorLoads
  <2>4. info' = info /\ known' = known
    BY <1>2 DEF MonitorLoads
  <2> HIDE DEF m
  <2>5. CASE MonitorMoves(m)
    BY <1>0, <2>1, <2>2, <2>4, <2>5, MonitorMovesOn
  <2>6. CASE MonitorMoves(NextInTurn)
    BY <1>0, <2>4, <2>6, MonitorsRest, MonitorMovesOn
  <2> QED
    BY <2>3, <2>5, <2>6
<1>3. CASE MonitorStores
  BY <1>3, MonitorPuts DEF MonitorStores
<1>4. CASE FirstMonitorStores
  BY <1>4, MonitorPuts DEF FirstMonitorStores
<1>5. CASE MonitorSleeps
  BY <1>0, <1>5, MonitorsRest, MonitorMovesOn DEF MonitorSleeps
<1>6. ASSUME NEW i \in Ids, CheckSessionLogs(i) PROVE LogInv'
  BY <1>0, <1>6, MonitorsCheck DEF CheckSessionLogs
<1>7. ASSUME NEW i \in Ids, FirstCheckSessionLogs(i) PROVE LogInv'
  BY <1>0, <1>7, MonitorsCheck DEF FirstCheckSessionLogs, GetOrCreate
<1> QED
  BY <1>1, <1>2, <1>3, <1>4, <1>5, <1>6, <1>7

\* A callback of the page that leaves what is loaded as it is: it may change one
\* record, and show a graph.
LEMMA CallbacksKeepLogInv ==
    ASSUME LogInv, InCallback, known' \in SUBSET Ids, current' \in PageSessions \cup {"none"},
           NEW i \in Ids, NEW r \in Records, info' = [info EXCEPT ![i] = r], r.loaded = info[i].loaded,
           loader' \in Loaders, loader'.pc # "idle" => loader'.session \in Ids,
           \/ graph' = graph /\ r.displayed = info[i].displayed
           \/ graph' \in Graphs /\ graph'.from = "itself"
           \/ /\ graph' \in Graphs /\ graph'.session = i
              /\ graph'.content >= r.displayed
    PROVE  LogInv'
<1> USE DEF LogInv
<1>1. UNCHANGED <<written, messages, chats, monitor, poll, click, unanswered>>
  BY DEF InCallback, Controls
<1>2. r.loaded.content >= r.loaded.mtime
  BY DEF HeldIsDated
<1>3. /\ RecordTypes' /\ HeldIsDated'
      /\ \A j \in Ids \ {i} : info'[j] = info[j]
      /\ info'[i] = r
  BY <1>1, <1>2, RecordChanges
<1>4. ShownIsDisplayed'
  <2>1. CASE graph' = graph /\ r.displayed = info[i].displayed
    BY <1>3, <2>1 DEF ShownIsDisplayed
  <2>2. CASE graph' \in Graphs /\ graph'.from = "itself"
    BY <2>2 DEF ShownIsDisplayed
  <2>3. CASE graph' \in Graphs /\ graph'.session = i /\ graph'.content >= r.displayed
    BY <1>3, <2>3 DEF ShownIsDisplayed
  <2> QED
    BY <2>1, <2>2, <2>3
<1> QED
  BY <1>1, <1>3, <1>4 DEF PageTypes, PollTypes, ThreadTypes

LEMMA RecordParts ==
    ASSUME LogInv, NEW i \in Ids
    PROVE  /\ info[i] \in Records
           /\ info[i].loaded.content \in Nat /\ info[i].loaded.mtime \in Nat /\ info[i].displayed \in Nat
           /\ info[i].loaded.content >= info[i].loaded.mtime
           /\ info = [info EXCEPT ![i] = info[i]]
<1>1. info \in [Ids -> Records]
  BY DEF LogInv, RecordTypes
<1> QED
  BY <1>1 DEF LogInv, HeldIsDated, Records, Held

LEMMA LoadersTyped ==
    ASSUME LogInv
    PROVE  /\ loader \in Loaders /\ (loader.pc # "idle" => loader.session \in Ids)
           /\ NotLoading \in Loaders /\ NotLoading.pc = "idle"
           /\ \A i \in Ids, pc \in {"first_view", "switch"} : StartsLoading(pc, i) => loader' \in Loaders /\ loader'.session \in Ids
<1>1. ASSUME NEW i \in Ids, NEW pc \in {"first_view", "switch"}, StartsLoading(pc, i)
      PROVE  loader' \in Loaders /\ loader'.session \in Ids
  <2>1. Log(i) \in Nat
    BY DEF LogInv, RecordTypes, Log
  <2> QED
    BY <1>1, <2>1 DEF StartsLoading, NotLoading, Loaders, NamesOrNone
<1> QED
  BY <1>1 DEF LogInv, ThreadTypes, NotLoading, Loaders, NamesOrNone

LEMMA GraphsTyped ==
    ASSUME NEW i \in Ids, NEW content \in Nat, NEW from \in {"monitor", "itself"}, Shows(i, content, from)
    PROVE  graph' \in Graphs /\ graph'.session = i /\ graph'.content = content /\ graph'.from = from
BY DEF Shows, Graphs, NamesOrNone

LEMMA FirstViewKeepsLogInv ==
    ASSUME LogInv, AutoLoadOnFirstTabSwitch
    PROVE  LogInv'
<1> DEFINE s == current
           done == [info[s] EXCEPT !.initialLoadDone = TRUE]
           drawn == [info[s] EXCEPT !.initialLoadDone = TRUE, !.displayed = info[s].loaded.mtime]
<1>1. s \in PageSessions /\ s \in Ids /\ InCallback /\ current' = current /\ GetOrCreate(s)
  BY DebuggerAssumption DEF AutoLoadOnFirstTabSwitch, LogInv, PageTypes
<1>2. known' \in SUBSET Ids /\ current' \in PageSessions \cup {"none"}
  BY <1>1 DEF GetOrCreate, LogInv, RecordTypes
<1>3. /\ info[s] \in Records /\ info = [info EXCEPT ![s] = info[s]]
      /\ info[s].loaded.content \in Nat /\ info[s].loaded.mtime \in Nat
      /\ info[s].loaded.content >= info[s].loaded.mtime
  BY <1>1, RecordParts
<1>4. /\ done \in Records /\ done.loaded = info[s].loaded /\ done.displayed = info[s].displayed
      /\ drawn \in Records /\ drawn.loaded = info[s].loaded /\ drawn.displayed = info[s].loaded.mtime
  BY <1>3 DEF Records
<1>5. info \in [Ids -> Records]
  BY DEF LogInv, RecordTypes
<1>6. \/ /\ info' = [info EXCEPT ![s] = drawn] /\ Shows(s, info[s].loaded.content, "monitor") /\ loader' = loader
      \/ /\ StartsLoading("first_view", s) /\ info' = info /\ graph' = graph
      \/ /\ info' = [info EXCEPT ![s] = done] /\ graph' = graph /\ loader' = loader
  <2>1. CASE ShowsLoaded(s)
    <3>1. info' = [info EXCEPT ![s] = drawn]
      BY <1>1, <1>5, <2>1 DEF ShowsLoaded, Records
    <3> QED
      BY <2>1, <3>1 DEF ShowsLoaded
  <2>2. CASE StartsLoading("first_view", s) /\ UNCHANGED <<info, graph>>
    BY <2>2
  <2>3. CASE info' = [info EXCEPT ![s].initialLoadDone = TRUE] /\ UNCHANGED <<graph, loader>>
    BY <2>3
  <2> HIDE DEF done, drawn
  <2> QED
    BY <2>1, <2>2, <2>3 DEF AutoLoadOnFirstTabSwitch
<1> HIDE DEF s, done, drawn
<1>7. CASE info' = [info EXCEPT ![s] = drawn] /\ Shows(s, info[s].loaded.content, "monitor") /\ loader' = loader
  <2>1. graph' \in Graphs /\ graph'.session = s /\ graph'.content = info[s].loaded.content
    BY <1>1, <1>3, <1>7, GraphsTyped
  <2>2. loader' \in Loaders /\ (loader'.pc # "idle" => loader'.session \in Ids)
    BY <1>7, LoadersTyped
  <2> QED
    BY <1>1, <1>2, <1>3, <1>4, <1>7, <2>1, <2>2, CallbacksKeepLogInv
<1>8. CASE StartsLoading("first_view", s) /\ info' = info /\ graph' = graph
  <2>1. loader' \in Loaders /\ loader'.session \in Ids
    BY <1>1, <1>8, LoadersTyped
  <2> QED
    BY <1>1, <1>2, <1>3, <1>8, <2>1, CallbacksKeepLogInv
<1>9. CASE info' = [info EXCEPT ![s] = done] /\ graph' = graph /\ loader' = loader
  <2>1. loader' \in Loaders /\ (loader'.pc # "idle" => loader'.session \in Ids)
    BY <1>9, LoadersTyped
  <2> QED
    BY <1>1, <1>2, <1>4, <1>9, <2>1, CallbacksKeepLogInv
<1> QED
  BY <1>6, <1>7, <1>8, <1>9

LEMMA LoadsKeepLogInv ==
    ASSUME LogInv, DirectLoadEnds \/ SwitchLoadEnds
    PROVE  LogInv'
<1> DEFINE s == loader.session
           drawn == [info[s] EXCEPT !.initialLoadDone = TRUE, !.displayed = Newest(s)]
<1>1. /\ s \in Ids /\ loader.content \in Nat /\ InCallback /\ current' = current /\ known' = known
      /\ Shows(s, loader.content, "itself") /\ loader' = NotLoading
  BY DEF DirectLoadEnds, SwitchLoadEnds, LogInv, ThreadTypes, Loaders
<1>2. known' \in SUBSET Ids /\ current' \in PageSessions \cup {"none"}
  BY <1>1 DEF LogInv, RecordTypes, PageTypes
<1>3. info[s] \in Records /\ info = [info EXCEPT ![s] = info[s]] /\ Newest(s) \in Nat
  BY <1>1, RecordParts DEF LogInv, RecordTypes, Newest, Log
<1>4. drawn \in Records /\ drawn.loaded = info[s].loaded
  BY <1>3 DEF Records
<1>5. info \in [Ids -> Records]
  BY DEF LogInv, RecordTypes
<1>6. info' = info \/ info' = [info EXCEPT ![s] = drawn]
  BY <1>1, <1>5 DEF DirectLoadEnds, SwitchLoadEnds, Records
<1>7. graph' \in Graphs /\ graph'.from = "itself"
  BY <1>1, GraphsTyped
<1>8. loader' \in Loaders /\ loader'.pc = "idle"
  BY <1>1, LoadersTyped
<1> HIDE DEF s, drawn
<1>9. CASE info' = info
  BY <1>1, <1>2, <1>3, <1>7, <1>8, <1>9, CallbacksKeepLogInv
<1>10. CASE info' = [info EXCEPT ![s] = drawn]
  BY <1>1, <1>2, <1>4, <1>7, <1>8, <1>10, CallbacksKeepLogInv
<1> QED
  BY <1>6, <1>9, <1>10

LEMMA SwitchKeepsLogInv ==
    ASSUME LogInv, NEW s \in PageSessions, HandleSessionSwitch(s)
    PROVE  LogInv'
<1>1. s \in Ids /\ InCallback /\ current' = s /\ GetOrCreate(s) /\ info' = info
  BY DebuggerAssumption DEF HandleSessionSwitch
<1>2. known' \in SUBSET Ids /\ current' \in PageSessions \cup {"none"}
  BY <1>1 DEF GetOrCreate, LogInv, RecordTypes
<1>3. /\ info[s] \in Records /\ info = [info EXCEPT ![s] = info[s]]
      /\ info[s].loaded.content \in Nat /\ info[s].loaded.mtime \in Nat
      /\ info[s].loaded.content >= info[s].loaded.mtime
  BY <1>1, RecordParts
<1>4. \/ graph' = graph /\ loader' = loader
      \/ StartsLoading("switch", s) /\ graph' = graph
      \/ /\ info[s].loaded.mtime = info[s].displayed /\ loader' = loader
         /\ Shows(s, info[s].loaded.content, "monitor")
  BY DEF HandleSessionSwitch
<1>5. loader' = loader => loader' \in Loaders /\ (loader'.pc # "idle" => loader'.session \in Ids)
  BY LoadersTyped
<1>6. CASE graph' = graph /\ loader' = loader
  BY <1>1, <1>2, <1>3, <1>5, <1>6, CallbacksKeepLogInv
<1>7. CASE StartsLoading("switch", s) /\ graph' = graph
  <2>1. loader' \in Loaders /\ loader'.session \in Ids
    BY <1>1, <1>7, LoadersTyped
  <2> QED
    BY <1>1, <1>2, <1>3, <1>7, <2>1, CallbacksKeepLogInv
<1>8. CASE info[s].loaded.mtime = info[s].displayed /\ loader' = loader /\ Shows(s, info[s].loaded.content, "monitor")
  <2>1. graph' \in Graphs /\ graph'.session = s /\ graph'.content = info[s].loaded.content
    BY <1>1, <1>3, <1>8, GraphsTyped
  <2>2. graph'.content >= info[s].displayed
    BY <1>3, <1>8, <2>1
  <2> QED
    BY <1>1, <1>2, <1>3, <1>5, <1>8, <2>1, <2>2, CallbacksKeepLogInv
<1> QED
  BY <1>4, <1>6, <1>7, <1>8

LEMMA PanelKeepsLogInv ==
    ASSUME LogInv, RefreshLogGraph \/ UpdateLogMonitorPanel
    PROVE  LogInv'
<1> DEFINE s == current
           drawn == [info[s] EXCEPT !.displayed = info[s].loaded.mtime]
<1>1. s \in PageSessions /\ s \in Ids /\ InCallback /\ current' = current /\ loader' = loader
  BY DebuggerAssumption DEF RefreshLogGraph, UpdateLogMonitorPanel, LogInv, PageTypes
<1>2. known' \in SUBSET Ids /\ current' \in PageSessions \cup {"none"}
  BY <1>1 DEF RefreshLogGraph, UpdateLogMonitorPanel, GetOrCreate, LogInv, RecordTypes
<1>3. /\ info[s] \in Records /\ info = [info EXCEPT ![s] = info[s]]
      /\ info[s].loaded.content \in Nat /\ info[s].loaded.mtime \in Nat
      /\ info[s].loaded.content >= info[s].loaded.mtime
  BY <1>1, RecordParts
<1>4. drawn \in Records /\ drawn.loaded = info[s].loaded /\ drawn.displayed = info[s].loaded.mtime
  BY <1>3 DEF Records
<1>5. \/ info' = info /\ graph' = graph
      \/ info' = [info EXCEPT ![s] = drawn] /\ Shows(s, info[s].loaded.content, "monitor")
  BY DEF RefreshLogGraph, UpdateLogMonitorPanel
<1>6. loader' \in Loaders /\ (loader'.pc # "idle" => loader'.session \in Ids)
  BY <1>1, LoadersTyped
<1> HIDE DEF s, drawn
<1>7. CASE info' = info /\ graph' = graph
  BY <1>1, <1>2, <1>3, <1>6, <1>7, CallbacksKeepLogInv
<1>8. CASE info' = [info EXCEPT ![s] = drawn] /\ Shows(s, info[s].loaded.content, "monitor")
  <2>1. graph' \in Graphs /\ graph'.session = s /\ graph'.content = info[s].loaded.content
    BY <1>1, <1>3, <1>8, GraphsTyped
  <2> QED
    BY <1>1, <1>2, <1>3, <1>4, <1>6, <1>8, <2>1, CallbacksKeepLogInv
<1> QED
  BY <1>5, <1>7, <1>8

LEMMA ControlsKeepLogInv ==
    ASSUME LogInv, HandleAgentControlClick \/ MarksPending
    PROVE  LogInv'
<1> USE DEF LogInv
<1>1. CASE HandleAgentControlClick
  BY <1>1 DEF HandleAgentControlClick, Page, RecordTypes, PageTypes, PollTypes, ThreadTypes, HeldIsDated, ShownIsDisplayed
<1>2. CASE MarksPending
  <2> DEFINE s == click.session
             r == [info[s] EXCEPT !.pending = TRUE]
  <2>1. s \in PageSessions /\ s \in Ids
    BY <1>2, DebuggerAssumption DEF MarksPending, PageTypes
  <2>2. info[s] \in Records
    BY <2>1 DEF RecordTypes
  <2>3. r \in Records /\ r.loaded = info[s].loaded /\ r.displayed = info[s].displayed
    BY <2>2 DEF Records
  <2>4. known' \in SUBSET Ids /\ info' = [info EXCEPT ![s] = r] /\ click' = NoClick
    BY <1>2, <2>1 DEF MarksPending, GetOrCreate, RecordTypes
  <2>5. UNCHANGED <<written, messages, chats, current, graph, poll, monitor, loader, unanswered>>
    BY <1>2 DEF MarksPending, Page
  <2> HIDE DEF s, r
  <2>6. RecordTypes' /\ HeldIsDated' /\ ShownIsDisplayed'
    BY <2>1, <2>3, <2>4, <2>5, OnlyFlagsChange
  <2> QED
    BY <2>4, <2>5, <2>6 DEF PageTypes, PollTypes, ThreadTypes, NoClick
<1> QED
  BY <1>1, <1>2

\* What the monitor holds is never older than the time it has put on it, and the
\* panel says "Up to date" of a graph that the monitor has loaded only when the
\* monitor has nothing newer: whatever is written while files are read, in
\* whatever order the thread, the callbacks and the control queue take turns, and
\* however sessions come, go and come again.
THEOREM UpToDateMeansIt == DebugSpec => []UpToDateIsTrue
<1>1. DebugInit => LogInv
  BY LogsBegin
<1>2. LogInv /\ [DebugNext]_debugVars => LogInv'
  <2> SUFFICES ASSUME LogInv, [DebugNext]_debugVars PROVE LogInv'
    OBVIOUS
  <2>1. CASE Start \/ (\E i \in Ids : AgentWrites(i)) \/ (\E s \in PageSessions : ServiceReports(s) \/ ServiceAcknowledges(s))
    BY <2>1, ServiceKeepsLogInv
  <2>2. CASE SyncSessionsOnChange \/ (\E s \in PageSessions : NewChat(s) \/ CloseChat(s))
    BY <2>2, SessionsKeepLogInv
  <2>3. CASE PollClientControls \/ HandleLogPath \/ HandleControlAck \/ HandleAgentStatus \/ HandleUnknown \/ PollEnds
    BY <2>3, PollsKeepLogInv
  <2>4. CASE \/ MonitorBegins \/ MonitorLoads \/ MonitorStores \/ FirstMonitorStores \/ MonitorSleeps
             \/ \E i \in Ids : CheckSessionLogs(i) \/ FirstCheckSessionLogs(i)
    BY <2>4, MonitorKeepsLogInv
  <2>5. CASE AutoLoadOnFirstTabSwitch
    BY <2>5, FirstViewKeepsLogInv
  <2>6. CASE DirectLoadEnds \/ SwitchLoadEnds
    BY <2>6, LoadsKeepLogInv
  <2>7. CASE \E s \in PageSessions : HandleSessionSwitch(s)
    BY <2>7, SwitchKeepsLogInv
  <2>8. CASE RefreshLogGraph \/ UpdateLogMonitorPanel
    BY <2>8, PanelKeepsLogInv
  <2>9. CASE HandleAgentControlClick \/ MarksPending
    BY <2>9, ControlsKeepLogInv
  <2>10. CASE UNCHANGED debugVars
    BY <2>10 DEF debugVars, LogInv, RecordTypes, PageTypes, PollTypes, ThreadTypes, HeldIsDated, ShownIsDisplayed
  <2> QED
    BY <2>1, <2>2, <2>3, <2>4, <2>5, <2>6, <2>7, <2>8, <2>9, <2>10 DEF DebugNext
<1>3. LogInv => UpToDateIsTrue
  BY LogInvMeans
<1> QED
  BY <1>1, <1>2, <1>3, PTL DEF DebugSpec
-----------------------------------------------------------------------------
(* ActionTester *)

TabNames == Nat \X Nat
Chrome == [tabs : Seq(TabNames), current : TabNames, opened : Nat]
TesterStates == {"idle", "launch", "close", "construct", "launched", "status", "create", "handles", "register", "show",
                 "closed", "acting"}
TestRecord == [id : Nat, tab : TabNames, raced : BOOLEAN]
Callback == [pc : TesterStates, test : Nat, tab : TabNames, on : Nat]

\* Browser n has tabs of its own only.
IsBrowser(chrome, n) ==
    /\ chrome \in Chrome
    /\ \A j \in DOMAIN chrome.tabs : chrome.tabs[j][1] = n
AreBrowsers(all) == all \in Seq(Chrome) /\ \A n \in DOMAIN all : IsBrowser(all[n], n)

TesterTypes ==
    /\ AreBrowsers(chromes)
    /\ driver \in 0 .. Len(chromes)
    /\ tests \in Seq(TestRecord)
    /\ made \in Nat
    /\ callback \in [Threads -> Callback]

\* Between the reset of a launch and its new browser, which takes over what is
\* listed by then, only a race lists anything.
Launching == \E t \in Threads : At(t, "construct")
AllRaced(list) == \A i \in DOMAIN list : list[i].raced
NothingDuringLaunch == Launching => AllRaced(tests)

Fit(list) == \A i \in DOMAIN list : list[i].tab[1] = driver \/ list[i].raced
TesterInv == TesterTypes /\ NothingDuringLaunch /\ TestsOfThisBrowser

LEMMA ElementOf ==
    ASSUME NEW S, NEW q \in Seq(S), NEW i \in DOMAIN q
    PROVE  q[i] \in S
OBVIOUS

\* What a removal leaves.
LEMMA RemovedOne ==
    ASSUME NEW S, NEW q \in Seq(S), NEW i \in DOMAIN q
    PROVE  /\ RemoveAt(q, i) \in Seq(S) /\ Len(RemoveAt(q, i)) = Len(q) - 1
           /\ \A j \in DOMAIN RemoveAt(q, i) : \E k \in DOMAIN q : RemoveAt(q, i)[j] = q[k]
<1>1. Len(q) \in Nat /\ i \in 1 .. Len(q)
  OBVIOUS
<1> DEFINE before == SubSeq(q, 1, i - 1)
           after == SubSeq(q, i + 1, Len(q))
<1>2. /\ before \in Seq(S) /\ Len(before) = i - 1 /\ \A j \in 1 .. i - 1 : before[j] = q[j]
  <2>1. 1 \in 1 .. Len(q) + 1 /\ i - 1 \in 0 .. Len(q)
    BY <1>1
  <2> QED
    BY <1>1, <2>1, SubSeqProperties
<1>3. /\ after \in Seq(S) /\ Len(after) = Len(q) - i /\ \A j \in 1 .. Len(q) - i : after[j] = q[i + j]
  <2>1. i + 1 \in 1 .. Len(q) + 1 /\ Len(q) \in i .. Len(q)
    BY <1>1
  <2> QED
    BY <1>1, <2>1, SubSeqProperties
<1>4. RemoveAt(q, i) = before \o after
  BY DEF RemoveAt
<1> HIDE DEF before, after
<1>5. /\ before \o after \in Seq(S) /\ Len(before \o after) = Len(q) - 1
      /\ \A j \in 1 .. Len(before) + Len(after) :
            (before \o after)[j] = IF j <= Len(before) THEN before[j] ELSE after[j - Len(before)]
  BY <1>1, <1>2, <1>3, ConcatProperties
<1>6. ASSUME NEW j \in 1 .. Len(q) - 1
      PROVE  \E k \in 1 .. Len(q) : (before \o after)[j] = q[k]
  <2>1. CASE j <= i - 1
    BY <1>1, <1>2, <1>3, <1>5, <2>1
  <2>2. CASE ~(j <= i - 1)
    <3>1. j - (i - 1) \in 1 .. Len(q) - i /\ i + (j - (i - 1)) = j + 1 /\ j + 1 \in 1 .. Len(q)
      BY <1>1, <2>2
    <3>2. (before \o after)[j] = after[j - (i - 1)]
      BY <1>1, <1>2, <1>3, <1>5, <2>2
    <3>3. (before \o after)[j] = q[j + 1]
      BY <1>3, <3>1, <3>2
    <3> QED
      BY <3>1, <3>3
  <2> QED
    BY <2>1, <2>2
<1>7. DOMAIN (before \o after) = 1 .. Len(q) - 1 /\ DOMAIN q = 1 .. Len(q)
  BY <1>5
<1> QED
  BY <1>4, <1>5, <1>6, <1>7

LEMMA OneBrowserChanges ==
    ASSUME NEW all, AreBrowsers(all), NEW n \in DOMAIN all, NEW chrome, IsBrowser(chrome, n)
    PROVE  AreBrowsers([all EXCEPT ![n] = chrome]) /\ Len([all EXCEPT ![n] = chrome]) = Len(all)
<1>1. all \in Seq(Chrome) /\ chrome \in Chrome
  BY DEF AreBrowsers, IsBrowser
<1>2. [all EXCEPT ![n] = chrome] \in Seq(Chrome) /\ Len([all EXCEPT ![n] = chrome]) = Len(all)
  BY <1>1
<1>3. \A m \in DOMAIN all : IsBrowser([all EXCEPT ![n] = chrome][m], m)
  BY <1>1 DEF AreBrowsers
<1> QED
  BY <1>1, <1>2, <1>3 DEF AreBrowsers

LEMMA GoneIsOne == \A n : IsBrowser(Gone, n)
BY DEF IsBrowser, Gone, NoTab, Chrome, TabNames

LEMMA TabsChange ==
    ASSUME AreBrowsers(chromes), NEW n \in DOMAIN chromes
    PROVE  /\ AreBrowsers(OpensTab(n)) /\ Len(OpensTab(n)) = Len(chromes)
           /\ AreBrowsers([chromes EXCEPT ![n] = Gone]) /\ Len([chromes EXCEPT ![n] = Gone]) = Len(chromes)
           /\ \A tab : HasTab(n, tab) =>
                 AreBrowsers(WithoutTab(n, tab)) /\ Len(WithoutTab(n, tab)) = Len(chromes) /\ tab \in TabNames
<1>1. /\ chromes \in Seq(Chrome) /\ IsBrowser(chromes[n], n) /\ n \in Nat
      /\ chromes[n].tabs \in Seq(TabNames) /\ chromes[n].opened \in Nat /\ chromes[n] \in Chrome
      /\ chromes[n].current \in TabNames
  BY DEF AreBrowsers, IsBrowser, Chrome
<1>2. AreBrowsers(OpensTab(n)) /\ Len(OpensTab(n)) = Len(chromes)
  <2> DEFINE more == Append(chromes[n].tabs, NewTab(n))
             other == [chromes[n] EXCEPT !.tabs = more]
             chrome == [other EXCEPT !.opened = chromes[n].opened + 1]
  <2>1. NewTab(n) \in TabNames /\ NewTab(n)[1] = n
    BY <1>1 DEF NewTab, TabNames
  <2>2. /\ more \in Seq(TabNames) /\ more # <<>>
        /\ \A j \in DOMAIN more : more[j][1] = n
    <3> DEFINE tab == NewTab(n)
               tabs == chromes[n].tabs
    <3>1. tab \in TabNames /\ tab[1] = n /\ tabs \in Seq(TabNames) /\ \A j \in DOMAIN tabs : tabs[j][1] = n
      BY <1>1, <2>1 DEF IsBrowser
    <3>2. more = Append(tabs, tab)
      OBVIOUS
    <3> HIDE DEF more, tab, tabs
    <3>3. more \in Seq(TabNames) /\ more # <<>>
      BY <3>1, <3>2
    <3>4. DOMAIN more = 1 .. Len(tabs) + 1 /\ more[Len(tabs) + 1] = tab /\ \A j \in DOMAIN tabs : more[j] = tabs[j]
      BY <3>1, <3>2
    <3>5. Len(tabs) \in Nat /\ DOMAIN tabs = 1 .. Len(tabs)
      BY <3>1
    <3>6. ASSUME NEW j \in DOMAIN more PROVE more[j][1] = n
      BY <3>1, <3>4, <3>5
    <3> QED
      BY <3>3, <3>6
  <2> HIDE DEF more
  <2>3. chrome \in Chrome /\ chrome.tabs = more
    <3>1. other \in Chrome /\ other.tabs = more
      BY <1>1, <2>2 DEF Chrome
    <3> HIDE DEF other
    <3>2. chromes[n].opened + 1 \in Nat
      BY <1>1
    <3> QED
      BY <3>1, <3>2 DEF Chrome
  <2>4. IsBrowser(chrome, n)
    <3> HIDE DEF chrome
    <3> QED
      BY <2>2, <2>3 DEF IsBrowser
  <2>5. OpensTab(n) = [chromes EXCEPT ![n] = chrome]
    BY <1>1 DEF OpensTab, more
  <2> HIDE DEF chrome
  <2> QED
    <3>1. /\ AreBrowsers([chromes EXCEPT ![n] = chrome])
          /\ Len([chromes EXCEPT ![n] = chrome]) = Len(chromes)
      BY <2>4, OneBrowserChanges
    <3> QED
      BY <2>5, <3>1
<1>3. AreBrowsers([chromes EXCEPT ![n] = Gone]) /\ Len([chromes EXCEPT ![n] = Gone]) = Len(chromes)
  BY GoneIsOne, OneBrowserChanges
<1>4. ASSUME NEW tab, HasTab(n, tab)
      PROVE  AreBrowsers(WithoutTab(n, tab)) /\ Len(WithoutTab(n, tab)) = Len(chromes) /\ tab \in TabNames
  <2> DEFINE i == CHOOSE k \in DOMAIN chromes[n].tabs : chromes[n].tabs[k] = tab
             fewer == RemoveAt(chromes[n].tabs, i)
             now == IF chromes[n].current = tab THEN NoTab ELSE chromes[n].current
             left == [tabs |-> fewer, current |-> now, opened |-> chromes[n].opened]
             chrome == IF fewer = <<>> THEN Gone ELSE left
  <2>1. \E k \in DOMAIN chromes[n].tabs : chromes[n].tabs[k] = tab
    BY <1>4 DEF HasTab, Contains
  <2>2. i \in DOMAIN chromes[n].tabs /\ tab \in TabNames
    BY <1>1, <2>1
  <2> HIDE DEF i
  <2>3. /\ fewer \in Seq(TabNames)
        /\ \A j \in DOMAIN fewer : \E k \in DOMAIN chromes[n].tabs : fewer[j] = chromes[n].tabs[k]
    BY <1>1, <2>2, RemovedOne
  <2>4. WithoutTab(n, tab) = [chromes EXCEPT ![n] = chrome]
    <3>1. WithoutTab(n, tab) = [chromes EXCEPT ![n] = IF fewer = <<>> THEN Gone
             ELSE [tabs |-> fewer, current |-> IF @.current = tab THEN NoTab ELSE @.current, opened |-> @.opened]]
      BY DEF WithoutTab, i
    <3> HIDE DEF fewer
    <3> QED
      BY <1>1, <3>1
  <2> HIDE DEF fewer
  <2>5. \A j \in DOMAIN fewer : fewer[j][1] = n
    BY <1>1, <2>3 DEF IsBrowser
  <2>6. now \in TabNames
    BY <1>1 DEF NoTab, TabNames
  <2> HIDE DEF now
  <2>7. left \in Chrome /\ left.tabs = fewer
    BY <1>1, <2>3, <2>6 DEF Chrome
  <2> HIDE DEF left
  <2>8. IsBrowser(chrome, n)
    BY <2>5, <2>7, GoneIsOne DEF IsBrowser
  <2> HIDE DEF chrome
  <2> QED
    <3>1. /\ AreBrowsers([chromes EXCEPT ![n] = chrome])
          /\ Len([chromes EXCEPT ![n] = chrome]) = Len(chromes)
      BY <2>8, OneBrowserChanges
    <3> QED
      BY <2>2, <2>4, <3>1
<1> QED
  BY <1>2, <1>3, <1>4

\* The driver's tab is the driver's own affair.
LEMMA CurrentChanges ==
    ASSUME NEW all, AreBrowsers(all), NEW n \in DOMAIN all, NEW tab \in TabNames
    PROVE  /\ AreBrowsers([all EXCEPT ![n].current = tab])
           /\ Len([all EXCEPT ![n].current = tab]) = Len(all)
<1> DEFINE chrome == [all[n] EXCEPT !.current = tab]
<1>1. all \in Seq(Chrome) /\ IsBrowser(all[n], n) /\ all[n] \in Chrome
  BY DEF AreBrowsers, IsBrowser
<1>2. chrome \in Chrome /\ chrome.tabs = all[n].tabs
  BY <1>1 DEF Chrome
<1>3. [all EXCEPT ![n].current = tab] = [all EXCEPT ![n] = chrome]
  BY <1>1
<1> HIDE DEF chrome
<1>4. IsBrowser(chrome, n)
  BY <1>1, <1>2 DEF IsBrowser
<1> QED
  BY <1>3, <1>4, OneBrowserChanges

LEMMA NextOfCallback ==
    ASSUME TesterInv, NEW t \in Threads, NEW r \in Callback, callback' = [callback EXCEPT ![t] = r]
    PROVE  /\ callback' \in [Threads -> Callback]
           /\ r.pc # "construct" => \A u \in Threads : At(u, "construct")' => At(u, "construct")
           /\ \A u \in Threads : At(u, "construct")' => u = t \/ At(u, "construct")
BY DEF TesterInv, TesterTypes, At

LEMMA MovesAreCallbacks ==
    ASSUME TesterInv, NEW t \in Threads
    PROVE  /\ \A pc \in TesterStates \ {"construct"} : MovesOn(t, pc) =>
                 callback' \in [Threads -> Callback] /\ \A u \in Threads : At(u, "construct")' => At(u, "construct")
           /\ Returns(t) =>
                 callback' \in [Threads -> Callback] /\ \A u \in Threads : At(u, "construct")' => At(u, "construct")
           /\ \A pc \in TesterStates \ {"construct"} : Starts(t, pc) =>
                 callback' \in [Threads -> Callback] /\ \A u \in Threads : At(u, "construct")' => At(u, "construct")
<1>1. callback \in [Threads -> Callback] /\ callback[t] \in Callback
  BY DEF TesterInv, TesterTypes
<1>2. Rest \in Callback /\ Rest.pc # "construct"
  BY DEF Rest, NoTab, Callback, TesterStates, TabNames
<1>3. ASSUME NEW pc \in TesterStates \ {"construct"}, MovesOn(t, pc)
      PROVE  callback' \in [Threads -> Callback] /\ \A u \in Threads : At(u, "construct")' => At(u, "construct")
  <2> DEFINE r == [callback[t] EXCEPT !.pc = pc]
  <2>1. r \in Callback /\ r.pc # "construct" /\ callback' = [callback EXCEPT ![t] = r]
    BY <1>1, <1>3 DEF Callback, MovesOn
  <2> HIDE DEF r
  <2> QED
    BY <2>1, NextOfCallback
<1>4. ASSUME NEW pc \in TesterStates \ {"construct"}, Starts(t, pc)
      PROVE  callback' \in [Threads -> Callback] /\ \A u \in Threads : At(u, "construct")' => At(u, "construct")
  <2> DEFINE r == [Rest EXCEPT !.pc = pc]
  <2>1. r \in Callback /\ r.pc # "construct"
    BY DEF Callback, Rest, NoTab, TabNames
  <2>2. callback' = [callback EXCEPT ![t] = r]
    BY <1>4 DEF Starts
  <2> HIDE DEF r
  <2> QED
    BY <2>1, <2>2, NextOfCallback
<1>5. ASSUME Returns(t)
      PROVE  callback' \in [Threads -> Callback] /\ \A u \in Threads : At(u, "construct")' => At(u, "construct")
  BY <1>2, <1>5, NextOfCallback DEF Returns
<1> QED
  BY <1>3, <1>4, <1>5

\* A step that leaves the driver alone.
LEMMA SameDriver ==
    ASSUME TesterInv, AreBrowsers(chromes'), Len(chromes') = Len(chromes), driver' = driver,
           tests' \in Seq(TestRecord), made' \in Nat,
           Fit(tests'), Launching => AllRaced(tests'),
           callback' \in [Threads -> Callback], \A t \in Threads : At(t, "construct")' => At(t, "construct")
    PROVE  TesterInv'
<1>1. TesterTypes'
  BY DEF TesterInv, TesterTypes
<1>2. TestsOfThisBrowser' /\ NothingDuringLaunch'
  BY DEF Fit, TestsOfThisBrowser, NothingDuringLaunch, Launching, AllRaced
<1> QED
  BY <1>1, <1>2 DEF TesterInv

\* A step that resets the driver.
LEMMA NoDriver ==
    ASSUME TesterInv, AreBrowsers(chromes'), ResetBrowserState, made' \in Nat, callback' \in [Threads -> Callback]
    PROVE  TesterInv'
<1>1. driver' = 0 /\ tests' = <<>>
  BY DEF ResetBrowserState
<1>2. <<>> \in Seq(TestRecord) /\ 0 \in 0 .. Len(chromes')
  <2>1. chromes' \in Seq(Chrome)
    BY DEF AreBrowsers
  <2> QED
    BY <2>1
<1>3. TesterTypes'
  BY <1>1, <1>2 DEF TesterInv, TesterTypes
<1>4. TestsOfThisBrowser' /\ NothingDuringLaunch'
  BY <1>1 DEF TestsOfThisBrowser, NothingDuringLaunch, AllRaced
<1> QED
  BY <1>3, <1>4 DEF TesterInv

\* What the invariant gives every step.
LEMMA TesterState ==
    ASSUME TesterInv
    PROVE  /\ AreBrowsers(chromes) /\ chromes \in Seq(Chrome) /\ driver \in 0 .. Len(chromes)
           /\ tests \in Seq(TestRecord) /\ made \in Nat /\ callback \in [Threads -> Callback]
           /\ Fit(tests) /\ (Launching => AllRaced(tests))
           /\ driver # 0 => driver \in DOMAIN chromes
           /\ \A id : Exists(id) => Place(id) \in DOMAIN tests /\ TabOf(id) \in TabNames /\ id \in Nat
           /\ \A n : Alive(n) /\ n \in DOMAIN chromes => chromes[n].tabs \in Seq(TabNames) /\ chromes[n].tabs # <<>>
<1>1. /\ AreBrowsers(chromes) /\ chromes \in Seq(Chrome) /\ driver \in 0 .. Len(chromes)
      /\ tests \in Seq(TestRecord) /\ made \in Nat /\ callback \in [Threads -> Callback]
      /\ Fit(tests) /\ (Launching => AllRaced(tests))
  BY DEF TesterInv, TesterTypes, AreBrowsers, TestsOfThisBrowser, Fit, NothingDuringLaunch
<1>2. driver # 0 => driver \in DOMAIN chromes
  BY <1>1
<1>3. ASSUME NEW id, Exists(id) PROVE Place(id) \in DOMAIN tests /\ TabOf(id) \in TabNames /\ id \in Nat
  <2>1. Place(id) \in DOMAIN tests /\ tests[Place(id)].id = id
    BY <1>3 DEF Exists, Place
  <2> DEFINE test == tests[Place(id)]
  <2>2. test \in TestRecord
    BY <1>1, <2>1, ElementOf
  <2>3. test.id = id /\ test.tab = TabOf(id)
    BY <2>1 DEF TabOf
  <2> HIDE DEF test
  <2> QED
    BY <2>1, <2>2, <2>3 DEF TestRecord
<1>4. ASSUME NEW n \in DOMAIN chromes, Alive(n) PROVE chromes[n].tabs \in Seq(TabNames) /\ chromes[n].tabs # <<>>
  BY <1>1, <1>4 DEF Alive, AreBrowsers, IsBrowser, Chrome
<1> QED
  BY <1>1, <1>2, <1>3, <1>4

LEMMA Switching ==
    ASSUME TesterInv, NEW tab, SwitchesTo(tab)
    PROVE  AreBrowsers(chromes') /\ Len(chromes') = Len(chromes)
<1>1. CASE HasTab(driver, tab)
  <2>1. driver \in DOMAIN chromes /\ AreBrowsers(chromes) /\ chromes[driver].tabs \in Seq(TabNames)
    <3>1. driver \in DOMAIN chromes /\ AreBrowsers(chromes)
      BY <1>1, TesterState DEF HasTab
    <3> QED
      BY <3>1 DEF AreBrowsers, IsBrowser, Chrome
  <2>2. tab \in TabNames
    BY <1>1, <2>1 DEF HasTab, Contains
  <2> QED
    BY <1>1, <2>1, <2>2, CurrentChanges DEF SwitchesTo
<1>2. CASE ~HasTab(driver, tab)
  BY <1>2, TesterState DEF SwitchesTo
<1> QED
  BY <1>1, <1>2

LEMMA Quitting ==
    ASSUME TesterInv, Quits
    PROVE  AreBrowsers(chromes') /\ Len(chromes') = Len(chromes)
<1>1. AreBrowsers(chromes) /\ (driver # 0 => driver \in DOMAIN chromes)
  BY TesterState
<1>2. CASE chromes' = chromes
  BY <1>1, <1>2
<1>3. CASE driver # 0 /\ chromes' = [chromes EXCEPT ![driver] = Gone]
  BY <1>1, <1>3, TabsChange
<1> QED
  BY <1>2, <1>3 DEF Quits

\* The browser's own steps, and those of callbacks that leave the tests alone.
LEMMA BrowserSteps ==
    ASSUME TesterInv,
           \E n \in DOMAIN chromes : \/ PageOpensTab(n) \/ BrowserDies(n)
                                     \/ \E i \in DOMAIN chromes[n].tabs : UserClosesTab(n, chromes[n].tabs[i])
    PROVE  TesterInv'
<1>1. AreBrowsers(chromes') /\ Len(chromes') = Len(chromes)
  <2>1. PICK n \in DOMAIN chromes :
           \/ chromes' = OpensTab(n) \/ chromes' = [chromes EXCEPT ![n] = Gone]
           \/ \E tab : HasTab(n, tab) /\ chromes' = WithoutTab(n, tab)
    BY DEF PageOpensTab, BrowserDies, UserClosesTab
  <2>2. AreBrowsers(chromes)
    BY TesterState
  <2>3. CASE \E tab : HasTab(n, tab) /\ chromes' = WithoutTab(n, tab)
    <3>1. PICK tab : HasTab(n, tab) /\ chromes' = WithoutTab(n, tab)
      BY <2>3
    <3>2. AreBrowsers(WithoutTab(n, tab)) /\ Len(WithoutTab(n, tab)) = Len(chromes)
      BY <2>2, <3>1, TabsChange
    <3> QED
      BY <3>1, <3>2
  <2>4. CASE chromes' = OpensTab(n) \/ chromes' = [chromes EXCEPT ![n] = Gone]
    <3>1. /\ AreBrowsers(OpensTab(n)) /\ Len(OpensTab(n)) = Len(chromes)
          /\ AreBrowsers([chromes EXCEPT ![n] = Gone])
          /\ Len([chromes EXCEPT ![n] = Gone]) = Len(chromes)
      BY <2>2, TabsChange
    <3>2. CASE chromes' = OpensTab(n)
      BY <3>1, <3>2
    <3>3. CASE chromes' = [chromes EXCEPT ![n] = Gone]
      BY <3>1, <3>3
    <3> QED
      BY <2>4, <3>2, <3>3
  <2> QED
    BY <2>1, <2>3, <2>4
<1>2. UNCHANGED <<driver, tests, made, callback>>
  BY DEF PageOpensTab, BrowserDies, UserClosesTab
<1> QED
  BY <1>1, <1>2, TesterState, SameDriver DEF At

LEMMA LaunchSteps ==
    ASSUME TesterInv, NEW t \in Threads,
           \/ LaunchBrowser(t) \/ CloseBrowser(t) \/ ResetAfterQuit(t) \/ Construct(t)
           \/ GetBrowserStatus(t) \/ VisitForStatus(t)
    PROVE  TesterInv'
<1>1. /\ AreBrowsers(chromes) /\ chromes \in Seq(Chrome) /\ made \in Nat /\ callback \in [Threads -> Callback]
      /\ tests \in Seq(TestRecord) /\ driver \in Nat /\ Fit(tests) /\ (Launching => AllRaced(tests))
  BY TesterState
<1>2. CASE LaunchBrowser(t) \/ CloseBrowser(t)
  <2>1. /\ Starts(t, "launch") \/ Starts(t, "close")
        /\ UNCHANGED <<driver, tests, made>> /\ AreBrowsers(chromes') /\ Len(chromes') = Len(chromes)
    BY <1>2, Quitting DEF LaunchBrowser, CloseBrowser
  <2>2. callback' \in [Threads -> Callback] /\ \A u \in Threads : At(u, "construct")' => At(u, "construct")
    BY <2>1, MovesAreCallbacks DEF TesterStates
  <2> QED
    BY <1>1, <2>1, <2>2, SameDriver
<1>3. CASE ResetAfterQuit(t)
  <2>1. ResetBrowserState /\ made' = made /\ chromes' = chromes /\ (MovesOn(t, "construct") \/ Returns(t))
    BY <1>3 DEF ResetAfterQuit
  <2>2. callback' \in [Threads -> Callback]
    <3>1. CASE MovesOn(t, "construct")
      <4> DEFINE r == [callback[t] EXCEPT !.pc = "construct"]
      <4>1. callback[t] \in Callback
        BY <1>1
      <4>2. r \in Callback /\ callback' = [callback EXCEPT ![t] = r]
        BY <3>1, <4>1 DEF Callback, MovesOn, TesterStates
      <4> HIDE DEF r
      <4> QED
        BY <4>2, NextOfCallback
    <3> QED
      BY <2>1, <3>1, MovesAreCallbacks
  <2> QED
    BY <1>1, <2>1, <2>2, NoDriver
<1>4. CASE GetBrowserStatus(t)
  <2> DEFINE r == [Rest EXCEPT !.pc = "status", !.on = driver]
  <2>1. UNCHANGED <<chromes, driver, tests, made>> /\ callback' = [callback EXCEPT ![t] = r]
    BY <1>4 DEF GetBrowserStatus
  <2>2. r \in Callback /\ r.pc # "construct"
    BY <1>1 DEF Callback, TesterStates, Rest, NoTab, TabNames
  <2> HIDE DEF r
  <2>3. callback' \in [Threads -> Callback] /\ \A u \in Threads : At(u, "construct")' => At(u, "construct")
    BY <2>1, <2>2, NextOfCallback
  <2> QED
    BY <1>1, <2>1, <2>3, SameDriver
<1>6. CASE VisitForStatus(t)
  <2>1. chromes' = chromes /\ made' = made /\ At(t, "status")
    BY <1>6 DEF VisitForStatus
  <2>2. CASE ResetBrowserState /\ Returns(t)
    BY <1>1, <2>1, <2>2, MovesAreCallbacks, NoDriver
  <2>3. CASE Returns(t) /\ UNCHANGED <<driver, tests>>
    BY <1>1, <2>1, <2>3, MovesAreCallbacks, SameDriver
  <2>4. CASE callback' = [callback EXCEPT ![t].on = driver] /\ UNCHANGED <<driver, tests>>
    <3> DEFINE r == [callback[t] EXCEPT !.on = driver]
    <3>1. callback[t] \in Callback /\ callback[t].pc = "status"
      BY <1>1, <2>1 DEF At
    <3>2. r \in Callback /\ r.pc # "construct" /\ callback' = [callback EXCEPT ![t] = r]
      BY <1>1, <2>4, <3>1 DEF Callback
    <3> HIDE DEF r
    <3>3. callback' \in [Threads -> Callback] /\ \A u \in Threads : At(u, "construct")' => At(u, "construct")
      BY <3>2, NextOfCallback
    <3> QED
      BY <1>1, <2>1, <2>4, <3>3, SameDriver
  <2> QED
    BY <1>6, <2>2, <2>3, <2>4 DEF VisitForStatus
<1>5. CASE Construct(t)
  <2>1. Launching /\ AllRaced(tests) /\ made' = made
    BY <1>1, <1>5 DEF Construct, Launching
  <2>2. CASE ResetBrowserState /\ Returns(t) /\ UNCHANGED chromes
    BY <1>1, <2>1, <2>2, MovesAreCallbacks, NoDriver
  <2>3. CASE active' = FALSE /\ Returns(t) /\ UNCHANGED <<chromes, driver, tests, activeTest>>
    BY <1>1, <2>1, <2>3, TesterState, MovesAreCallbacks, SameDriver
  <2>4. CASE /\ chromes' = Append(chromes, [tabs |-> <<<<Len(chromes) + 1, 1>>>>,
                                             current |-> <<Len(chromes) + 1, 1>>, opened |-> 1])
             /\ driver' = Len(chromes) + 1 /\ MovesOn(t, "launched") /\ UNCHANGED tests
    <3> DEFINE n == Len(chromes) + 1
               chrome == [tabs |-> <<<<n, 1>>>>, current |-> <<n, 1>>, opened |-> 1]
    <3>1. n \in Nat /\ <<n, 1>> \in TabNames
      BY <1>1 DEF TabNames
    <3>2. chromes' = Append(chromes, chrome)
      BY <2>4
    <3> HIDE DEF n
    <3>3. chrome \in Chrome /\ IsBrowser(chrome, n)
      BY <3>1 DEF Chrome, IsBrowser
    <3> HIDE DEF chrome
    <3>4. /\ chromes' \in Seq(Chrome) /\ DOMAIN chromes' = 1 .. n /\ Len(chromes') = n /\ chromes'[n] = chrome
          /\ \A m \in DOMAIN chromes : chromes'[m] = chromes[m]
          /\ \A m \in 1 .. n : m = n \/ m \in DOMAIN chromes
      BY <1>1, <3>2, <3>3 DEF n
    <3>5. AreBrowsers(chromes')
      BY <1>1, <3>3, <3>4 DEF AreBrowsers
    <3>6. driver' \in 0 .. Len(chromes')
      BY <2>4, <3>1, <3>4 DEF n
    <3>7. callback' \in [Threads -> Callback]
      <4>1. callback' = [callback EXCEPT ![t] = [callback[t] EXCEPT !.pc = "launched"]]
        BY <2>4 DEF MovesOn
      <4>2. callback[t] \in Callback
        BY <1>1
      <4>3. [callback[t] EXCEPT !.pc = "launched"] \in Callback /\ [callback[t] EXCEPT !.pc = "launched"].pc = "launched"
        BY <4>2 DEF Callback, TesterStates
      <4> QED
        BY <1>1, <4>1, <4>3 DEF At
    <3>8. TesterTypes'
      BY <1>1, <2>1, <2>4, <3>5, <3>6, <3>7 DEF TesterTypes
    <3>9. NothingDuringLaunch' /\ TestsOfThisBrowser'
      BY <2>1, <2>4 DEF NothingDuringLaunch, TestsOfThisBrowser, AllRaced
    <3> QED
      BY <3>8, <3>9 DEF TesterInv
  <2> QED
    BY <1>5, <2>2, <2>3, <2>4 DEF Construct
<1> QED
  BY <1>2, <1>3, <1>4, <1>5, <1>6

LEMMA TestSteps ==
    ASSUME TesterInv, NEW t \in Threads,
           \/ CreateNewTest(t) \/ OpenTestTab(t) \/ TakeHandle(t) \/ RegisterTest(t) \/ ShowTest(t) \/ ForgetTest(t) \/ RunSequence(t)
           \/ ExecuteAction(t) \/ \E id \in 1 .. made : SwitchActiveTest(t, id) \/ CloseTest(t, id)
    PROVE  TesterInv'
<1>1. /\ AreBrowsers(chromes) /\ chromes \in Seq(Chrome) /\ driver \in 0 .. Len(chromes)
      /\ tests \in Seq(TestRecord) /\ made \in Nat /\ callback \in [Threads -> Callback]
      /\ Fit(tests) /\ (Launching => AllRaced(tests)) /\ (driver # 0 => driver \in DOMAIN chromes)
  BY TesterState
<1>2. CASE CreateNewTest(t)
  <2>1. UNCHANGED <<chromes, driver, tests, made>> /\ (MovesOn(t, "create") \/ MovesOn(t, "idle"))
    BY <1>2 DEF CreateNewTest, MovesOn
  <2>2. callback' \in [Threads -> Callback] /\ \A u \in Threads : At(u, "construct")' => At(u, "construct")
    BY <2>1, MovesAreCallbacks DEF TesterStates
  <2> QED
    BY <1>1, <2>1, <2>2, SameDriver
<1>3. CASE OpenTestTab(t)
  <2>1. /\ UNCHANGED <<driver, tests, made>> /\ (MovesOn(t, "handles") \/ Returns(t))
        /\ chromes' = chromes \/ (CanOpen(driver) /\ chromes' = OpensTab(driver))
    BY <1>3 DEF OpenTestTab
  <2>2. callback' \in [Threads -> Callback] /\ \A u \in Threads : At(u, "construct")' => At(u, "construct")
    BY <2>1, MovesAreCallbacks DEF TesterStates
  <2>3. AreBrowsers(chromes') /\ Len(chromes') = Len(chromes)
    <3>1. CASE CanOpen(driver) /\ chromes' = OpensTab(driver)
      <4>1. driver \in DOMAIN chromes
        BY <1>1, <3>1 DEF CanOpen, Alive
      <4> QED
        BY <1>1, <3>1, <4>1, TabsChange
    <3> QED
      BY <1>1, <2>1, <3>1
  <2> QED
    BY <1>1, <2>1, <2>2, <2>3, SameDriver
<1>11. CASE TakeHandle(t)
  <2>1. CASE Alive(driver)
    <3> DEFINE tab == Last(chromes[driver].tabs)
               r == [Rest EXCEPT !.pc = "register", !.tab = tab]
    <3>1. UNCHANGED <<chromes, driver, tests, made>> /\ callback' = [callback EXCEPT ![t] = r]
      BY <1>11, <2>1 DEF TakeHandle
    <3>2. tab \in TabNames
      <4>1. chromes[driver].tabs \in Seq(TabNames) /\ chromes[driver].tabs # <<>>
        BY <2>1, TesterState DEF Alive
      <4> QED
        BY <4>1 DEF Last
    <3> HIDE DEF tab
    <3>3. r \in Callback /\ r.pc # "construct"
      BY <3>2 DEF Callback, TesterStates, Rest
    <3> HIDE DEF r
    <3>4. callback' \in [Threads -> Callback] /\ \A u \in Threads : At(u, "construct")' => At(u, "construct")
      BY <3>1, <3>3, NextOfCallback
    <3> QED
      BY <1>1, <3>1, <3>4, SameDriver
  <2>2. CASE ~Alive(driver)
    BY <1>1, <1>11, <2>2, MovesAreCallbacks, SameDriver DEF TakeHandle
  <2> QED
    BY <2>1, <2>2
<1>4. CASE RegisterTest(t)
  <2> DEFINE tab == callback[t].tab
             raced == Raced(tab)
             test == [id |-> made + 1, tab |-> tab, raced |-> raced]
             r == [pc |-> "show", test |-> made + 1, tab |-> tab, on |-> 0]
  <2>1. /\ tests' = Append(tests, test) /\ made' = made + 1 /\ callback' = [callback EXCEPT ![t] = r]
        /\ UNCHANGED <<chromes, driver>>
    BY <1>4 DEF RegisterTest
  <2>2. tab \in TabNames
    <3>1. callback[t] \in Callback
      BY <1>1
    <3> QED
      BY <3>1 DEF Callback
  <2>3. raced \in BOOLEAN /\ (Launching => raced) /\ (tab[1] = driver \/ raced)
    BY DEF Raced, Launching
  <2> HIDE DEF tab, raced
  <2>4. test \in TestRecord /\ test.tab = tab /\ test.raced = raced /\ made + 1 \in Nat
    BY <1>1, <2>2, <2>3 DEF TestRecord
  <2>5. r \in Callback /\ r.pc # "construct"
    BY <1>1, <2>2 DEF Callback, TesterStates
  <2> HIDE DEF r, test
  <2>6. callback' \in [Threads -> Callback] /\ \A u \in Threads : At(u, "construct")' => At(u, "construct")
    BY <2>1, <2>5, NextOfCallback
  <2>7. /\ tests' \in Seq(TestRecord) /\ DOMAIN tests' = 1 .. Len(tests) + 1
        /\ tests'[Len(tests) + 1] = test /\ DOMAIN tests = 1 .. Len(tests) /\ Len(tests) \in Nat
        /\ \A i \in DOMAIN tests : tests'[i] = tests[i]
    BY <1>1, <2>1, <2>4
  <2>8. Fit(tests')
    <3> SUFFICES ASSUME NEW i \in DOMAIN tests' PROVE tests'[i].tab[1] = driver \/ tests'[i].raced
      BY DEF Fit
    <3>1. CASE i \in DOMAIN tests
      BY <1>1, <2>7, <3>1 DEF Fit
    <3>2. CASE i = Len(tests) + 1
      BY <2>3, <2>4, <2>7, <3>2
    <3> QED
      BY <2>7, <3>1, <3>2
  <2>9. ASSUME Launching PROVE AllRaced(tests')
    <3> SUFFICES ASSUME NEW i \in DOMAIN tests' PROVE tests'[i].raced
      BY DEF AllRaced
    <3>1. CASE i \in DOMAIN tests
      BY <1>1, <2>7, <2>9, <3>1 DEF AllRaced
    <3>2. CASE i = Len(tests) + 1
      BY <2>3, <2>4, <2>7, <2>9, <3>2
    <3> QED
      BY <2>7, <3>1, <3>2
  <2> QED
    BY <1>1, <2>1, <2>4, <2>6, <2>7, <2>8, <2>9, SameDriver
<1>5. CASE ShowTest(t)
  <2>1. SwitchesTo(callback[t].tab) /\ Returns(t) /\ UNCHANGED <<driver, tests, made>>
    BY <1>5 DEF ShowTest
  <2> QED
    BY <1>1, <2>1, Switching, MovesAreCallbacks, SameDriver
<1>6. CASE ForgetTest(t)
  <2> DEFINE id == callback[t].test
  <2>1. /\ Returns(t) /\ UNCHANGED <<driver, made>>
        /\ tests' = IF Exists(id) THEN RemoveAt(tests, Place(id)) ELSE tests
    BY <1>6 DEF ForgetTest
  <2>2. AreBrowsers(chromes') /\ Len(chromes') = Len(chromes)
    <3>1. \E tab : SwitchesTo(tab)
      BY <1>6 DEF ForgetTest
    <3> QED
      BY <3>1, Switching
  <2> HIDE DEF id
  <2>3. tests' \in Seq(TestRecord) /\ Fit(tests') /\ (Launching => AllRaced(tests'))
    <3>1. CASE Exists(id)
      <4>1. Place(id) \in DOMAIN tests
        BY <3>1, TesterState
      <4>2. /\ tests' \in Seq(TestRecord)
            /\ \A j \in DOMAIN tests' : \E k \in DOMAIN tests : tests'[j] = tests[k]
        BY <1>1, <2>1, <3>1, <4>1, RemovedOne
      <4>3. Fit(tests')
        BY <1>1, <4>2 DEF Fit
      <4>4. ASSUME Launching PROVE AllRaced(tests')
        BY <1>1, <4>2, <4>4 DEF AllRaced
      <4> QED
        BY <4>2, <4>3, <4>4
    <3>2. CASE ~Exists(id)
      BY <1>1, <2>1, <3>2
    <3> QED
      BY <3>1, <3>2
  <2> QED
    BY <1>1, <2>1, <2>2, <2>3, MovesAreCallbacks, SameDriver
<1>7. CASE RunSequence(t)
  <2> DEFINE r == [Rest EXCEPT !.pc = "acting", !.on = driver]
  <2>1. PICK id : /\ SwitchesTo(TabOf(id)) /\ UNCHANGED <<driver, tests, made>>
                  /\ callback' = callback \/ callback' = [callback EXCEPT ![t] = r]
    BY <1>7 DEF RunSequence
  <2>2. r \in Callback /\ r.pc # "construct"
    <3>1. driver \in Nat
      BY <1>1
    <3> QED
      BY <3>1 DEF Callback, TesterStates, Rest, NoTab, TabNames
  <2> HIDE DEF r
  <2>3. callback' \in [Threads -> Callback] /\ \A u \in Threads : At(u, "construct")' => At(u, "construct")
    BY <1>1, <2>1, <2>2, NextOfCallback DEF At
  <2> QED
    BY <1>1, <2>1, <2>3, Switching, SameDriver
<1>8. CASE ExecuteAction(t)
  <2> DEFINE n == callback[t].on
  <2>1. /\ UNCHANGED <<driver, tests, made>> /\ (callback' = callback \/ Returns(t))
        /\ \/ chromes' = chromes
           \/ CanOpen(n) /\ chromes' = [OpensTab(n) EXCEPT ![n].current = NewTab(n)]
    BY <1>8 DEF ExecuteAction
  <2>2. callback' \in [Threads -> Callback] /\ \A u \in Threads : At(u, "construct")' => At(u, "construct")
    BY <1>1, <2>1, MovesAreCallbacks DEF At
  <2> HIDE DEF n
  <2>3. AreBrowsers(chromes') /\ Len(chromes') = Len(chromes)
    <3>1. CASE n \in DOMAIN chromes /\ chromes' = [OpensTab(n) EXCEPT ![n].current = NewTab(n)]
      <4>1. AreBrowsers(OpensTab(n)) /\ Len(OpensTab(n)) = Len(chromes)
        BY <1>1, <3>1, TabsChange
      <4>2. n \in DOMAIN OpensTab(n)
        BY <1>1, <3>1, <4>1 DEF AreBrowsers
      <4>3. NewTab(n) \in TabNames
        <5>1. chromes[n] \in Chrome /\ n \in Nat
          BY <1>1, <3>1, ElementOf
        <5> QED
          BY <5>1 DEF NewTab, TabNames, Chrome
      <4> QED
        BY <3>1, <4>1, <4>2, <4>3, CurrentChanges
    <3>2. CASE n \notin DOMAIN chromes /\ chromes' = [OpensTab(n) EXCEPT ![n].current = NewTab(n)]
      <4>1. OpensTab(n) = chromes
        BY <1>1, <3>2 DEF OpensTab
      <4>2. [chromes EXCEPT ![n].current = NewTab(n)] = chromes
        BY <1>1, <3>2
      <4> QED
        BY <1>1, <3>2, <4>1, <4>2
    <3> QED
      BY <1>1, <2>1, <3>1, <3>2
  <2> QED
    BY <1>1, <2>1, <2>2, <2>3, SameDriver
<1>9. ASSUME NEW id \in 1 .. made, SwitchActiveTest(t, id)
      PROVE  TesterInv'
  <2>1. UNCHANGED <<driver, tests, made, callback>> /\ (chromes' = chromes \/ SwitchesTo(TabOf(id)))
    BY <1>9 DEF SwitchActiveTest
  <2> QED
    BY <1>1, <2>1, Switching, SameDriver DEF At
<1>10. ASSUME NEW id \in 1 .. made, CloseTest(t, id)
       PROVE  TesterInv'
  <2> DEFINE closes == active /\ HasTab(driver, TabOf(id))
             r == [pc |-> "closed", test |-> id, tab |-> NoTab, on |-> IF closes THEN driver ELSE 0]
  <2>1. /\ UNCHANGED <<driver, tests, made>> /\ callback' = [callback EXCEPT ![t] = r]
        /\ chromes' = IF closes THEN [WithoutTab(driver, TabOf(id)) EXCEPT ![driver].current = NoTab] ELSE chromes
    BY <1>10 DEF CloseTest
  <2>2. r \in Callback /\ r.pc # "construct"
    <3> DEFINE on == IF closes THEN driver ELSE 0
    <3>1. on \in Nat /\ id \in Nat
      <4>1. Len(chromes) \in Nat
        BY <1>1
      <4> HIDE DEF closes
      <4> QED
        BY <1>1, <4>1
    <3>2. r = [pc |-> "closed", test |-> id, tab |-> NoTab, on |-> on]
      OBVIOUS
    <3> HIDE DEF on, r
    <3> QED
      BY <3>1, <3>2 DEF Callback, TesterStates, NoTab, TabNames
  <2> HIDE DEF r
  <2>3. callback' \in [Threads -> Callback] /\ \A u \in Threads : At(u, "construct")' => At(u, "construct")
    BY <2>1, <2>2, NextOfCallback
  <2>4. AreBrowsers(chromes') /\ Len(chromes') = Len(chromes)
    <3>1. CASE closes
      <4>1. driver \in DOMAIN chromes
        BY <1>1, <3>1 DEF HasTab, Alive
      <4>2. /\ AreBrowsers(WithoutTab(driver, TabOf(id))) /\ Len(WithoutTab(driver, TabOf(id))) = Len(chromes)
            /\ NoTab \in TabNames
        BY <1>1, <3>1, <4>1, TabsChange DEF NoTab, TabNames
      <4>3. driver \in DOMAIN WithoutTab(driver, TabOf(id))
        BY <1>1, <4>1, <4>2 DEF AreBrowsers
      <4> QED
        BY <2>1, <3>1, <4>2, <4>3, CurrentChanges
    <3>2. CASE ~closes
      BY <1>1, <2>1, <3>2
    <3> QED
      BY <3>1, <3>2
  <2> QED
    BY <1>1, <2>1, <2>3, <2>4, SameDriver
<1> QED
  BY <1>2, <1>3, <1>4, <1>5, <1>6, <1>7, <1>8, <1>9, <1>10, <1>11

\* Whatever the callbacks of the page do at once, two launches included, a test
\* that is listed was made in the browser the manager drives, or in a race with a
\* reset or a launch, for any number of callbacks, browsers, tabs and tests.
THEOREM TestsKeepTheirBrowser == TesterSpec => []TestsOfThisBrowser
<1>1. TesterInit => TesterInv
  <2> SUFFICES ASSUME TesterInit PROVE TesterInv
    OBVIOUS
  <2>1. chromes = <<>> /\ driver = 0 /\ tests = <<>> /\ made = 0 /\ callback = [t \in Threads |-> Rest]
    BY DEF TesterInit
  <2>2. Rest \in Callback /\ Rest.pc # "construct"
    BY DEF Rest, NoTab, Callback, TesterStates, TabNames
  <2>3. <<>> \in Seq(Chrome) /\ DOMAIN <<>> = {} /\ <<>> \in Seq(TestRecord) /\ 0 \in 0 .. Len(<<>>)
    OBVIOUS
  <2>4. TesterTypes
    BY <2>1, <2>2, <2>3 DEF TesterTypes, AreBrowsers
  <2>5. NothingDuringLaunch /\ TestsOfThisBrowser
    BY <2>1, <2>2 DEF NothingDuringLaunch, TestsOfThisBrowser, AllRaced
  <2> QED
    BY <2>4, <2>5 DEF TesterInv
<1>2. TesterInv /\ [TesterNext]_testerVars => TesterInv'
  <2> SUFFICES ASSUME TesterInv, [TesterNext]_testerVars PROVE TesterInv'
    OBVIOUS
  <2>1. CASE UNCHANGED testerVars
    BY <2>1, TesterState, SameDriver DEF testerVars, At
  <2>2. CASE TesterNext
    BY <2>2, BrowserSteps, LaunchSteps, TestSteps DEF TesterNext
  <2> QED
    BY <2>1, <2>2
<1>3. TesterInv => TestsOfThisBrowser
  BY DEF TesterInv
<1> QED
  BY <1>1, <1>2, <1>3, PTL DEF TesterSpec
=============================================================================
