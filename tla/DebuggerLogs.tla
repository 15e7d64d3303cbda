------------------------------ MODULE DebuggerLogs ------------------------------
(***************************************************************************)
(* The agent debugger and the logs it shows (agent_debugger_nextgen/): a   *)
(* thread reloads the logs of every session whose files have changed,      *)
(* callbacks of the page show what was loaded, or load by themselves, and  *)
(* one of them drains the client control queue.  Its predecessor           *)
(* (agent_debugger.py) is the same machine but for the steps named First.  *)
(*                                                                         *)
(* A log has as many versions as there were writes to it; the time of its  *)
(* newest file is the number of the last one.  Graphs are their versions.  *)
(***************************************************************************)
EXTENDS Naturals, Sequences

CONSTANTS
    PageSessions,       \* sessions of the page
    Ids,                \* names of sessions and of log directories
    DirectoryOf,        \* the name of each session's log directory
    Logs,               \* the directories that agents write to
    MaxWrites,          \* bound: writes to one log
    MaxMessages         \* bound: messages of the service and commands in one behaviour

ASSUME DebuggerAssumption ==
    /\ PageSessions \subseteq Ids /\ DirectoryOf \in [PageSessions -> Ids]
    /\ "none" \notin Ids
    /\ MaxWrites \in Nat

VARIABLES
    generation,     \* "none", then "first" or "next"
    written,        \* versions of each log
    messages,       \* the client control queue
    sent,           \* messages of the service so far
    known,          \* SessionManager._sessions: names that have a record
    info,           \* the records
    chats, current, \* each session: "new", "open" or "closed"; current-session-store
    graph,          \* log-data-store: whose graph, which version, and from where
    agentMade,      \* sessions_agent_created
    poll,           \* the callback that drains the queue
    monitor,        \* the monitor's thread
    loader,         \* a callback that loads files itself
    click,          \* a callback that sends a control command
    unanswered      \* sessions whose control command the service has not answered
debugVars == <<generation, written, messages, sent, known, info, chats, current, graph, agentMade, poll, monitor, loader, click, unanswered>>

NoData == [content |-> 0, mtime |-> 0]
NewInfo == [path |-> FALSE, loaded |-> NoData, initialLoadDone |-> FALSE, displayed |-> 0, pending |-> FALSE]
Resting == [pc |-> "idle", todo |-> {}, session |-> "none", mtime |-> 0, content |-> 0, mine |-> TRUE]
NotLoading == [pc |-> "idle", session |-> "none", content |-> 0, mine |-> TRUE]
NoPoll == [pc |-> "idle", session |-> "none", batch |-> <<>>, created |-> FALSE]
NoClick == [pc |-> "idle", session |-> "none"]

DebugInit ==
    /\ generation = "none" /\ written = [d \in Ids |-> 0] /\ messages = <<>> /\ sent = 0
    /\ known = {} /\ info = [i \in Ids |-> NewInfo] /\ chats = [s \in PageSessions |-> "new"] /\ current = "none"
    /\ graph = [session |-> "none", content |-> 0, from |-> "none"] /\ agentMade = {}
    /\ poll = NoPoll /\ monitor = Resting /\ loader = NotLoading /\ click = NoClick /\ unanswered = {}

Log(id) == written[id]
GetOrCreate(id) == known' = known \cup {id}
Open == {s \in PageSessions : chats[s] = "open"}
Page == <<chats, current>>
Controls == <<poll, click, unanswered>>
AllThreads == <<monitor, loader, Controls>>

(* Which of the two programs it is, and the service beside it.             *)
Start ==
    /\ generation = "none" /\ generation' \in {"first", "next"}
    /\ UNCHANGED <<written, messages, sent, known, info, Page, graph, agentMade, AllThreads>>
Running == generation # "none" /\ generation' = generation

-----------------------------------------------------------------------------
(* The service *)

AgentWrites(id) ==
    /\ Running /\ id \in Logs /\ written[id] < MaxWrites /\ written' = [written EXCEPT ![id] = @ + 1]
    /\ UNCHANGED <<messages, sent, known, info, Page, graph, agentMade, AllThreads>>

Sends(type, s) ==
    /\ Running /\ messages' = Append(messages, [type |-> type, session |-> s])
    /\ UNCHANGED <<written, known, info, Page, graph, agentMade, poll, monitor, loader, click>>

(* Answers to the consoles come by the same queue.                         *)
ServiceReports(s) ==
    /\ sent < MaxMessages /\ sent' = sent + 1 /\ UNCHANGED unanswered
    /\ \E type \in {"log_path_available", "agent_status", "kb_get_response"} : Sends(type, s)
ServiceAcknowledges(s) ==
    s \in unanswered /\ Sends("agent_control_ack", s) /\ unanswered' = unanswered \ {s} /\ UNCHANGED sent

-----------------------------------------------------------------------------
(* Sessions of the page *)

NewChat(s) ==
    /\ Running /\ chats[s] = "new" /\ chats' = [chats EXCEPT ![s] = "open"] /\ current' = s /\ GetOrCreate(s)
    /\ UNCHANGED <<written, messages, sent, info, graph, agentMade, AllThreads>>

CloseChat(s) ==
    /\ Running /\ s \in Open /\ chats' = [chats EXCEPT ![s] = "closed"]
    /\ UNCHANGED <<written, messages, sent, known, info, current, graph, agentMade, AllThreads>>

(* What is held of a removed session is no longer the record of its name.  *)
CleanupInactive ==
    /\ known' = known \cap Open
    /\ info' = [i \in Ids |-> IF i \in Open THEN info[i] ELSE NewInfo]
    /\ monitor' = [monitor EXCEPT !.mine = @ /\ monitor.session \in Open]
    /\ loader' = [loader EXCEPT !.mine = @ /\ loader.session \in Open]
SyncSessionsOnChange ==
    /\ Running /\ known # known \cap Open /\ CleanupInactive
    /\ UNCHANGED <<written, messages, sent, Page, graph, agentMade, Controls>>

-----------------------------------------------------------------------------
(* The client control queue.  A poll takes all that waits there, and then  *)
(* handles one message after the other beside the other threads.           *)

(* Without a session, the first debugger drains the queue all the same.    *)
PollClientControls ==
    /\ Running /\ poll.pc = "idle" /\ messages # <<>> /\ (current # "none" \/ generation = "first")
    /\ poll' = [pc |-> "handling", session |-> current, batch |-> messages, created |-> FALSE] /\ messages' = <<>>
    /\ UNCHANGED <<written, sent, known, info, Page, graph, agentMade, monitor, loader, click, unanswered>>

InPoll == Running /\ poll.pc = "handling" /\ UNCHANGED <<written, messages, sent, Page, graph, monitor, loader, click, unanswered>>
Handled == [poll EXCEPT !.batch = Tail(@)]
HandlesOne(type) == InPoll /\ poll.batch # <<>> /\ Head(poll.batch).type = type /\ UNCHANGED agentMade
Subject == Head(poll.batch).session

(* The record is named after the directory, whatever session the message   *)
(* names.  The directory may not be readable.                              *)
HandleLogPath ==
    /\ HandlesOne("log_path_available") /\ poll' = Handled
    /\ \/ GetOrCreate(DirectoryOf[Subject]) /\ info' = [info EXCEPT ![DirectoryOf[Subject]].path = TRUE]
       \/ UNCHANGED <<known, info>>

(* The next service's acknowledgement has no "message" part.               *)
HandleControlAck ==
    /\ HandlesOne("agent_control_ack") /\ poll' = Handled
    /\ IF generation = "first" /\ Subject \in known \cup {poll.session}
       THEN GetOrCreate(Subject) /\ info' = [info EXCEPT ![Subject].pending = FALSE]
       ELSE UNCHANGED <<known, info>>

(* Only the session the page showed when the poll began is told.           *)
HandleAgentStatus ==
    /\ HandlesOne("agent_status") /\ UNCHANGED <<known, info>>
    /\ poll' = [Handled EXCEPT !.created = @ \/ Subject = poll.session]

HandleUnknown == HandlesOne("kb_get_response") /\ poll' = Handled /\ UNCHANGED <<known, info>>

PollEnds ==
    /\ InPoll /\ poll.batch = <<>> /\ poll' = NoPoll /\ UNCHANGED info
    /\ IF poll.session = "none" THEN UNCHANGED <<known, agentMade>>
       ELSE GetOrCreate(poll.session) /\ agentMade' = agentMade \cup (IF poll.created THEN {poll.session} ELSE {})

-----------------------------------------------------------------------------
(* The monitor's thread *)

MonitorMoves(next) == monitor' = next /\ Running /\ UNCHANGED <<written, messages, sent, Page, graph, agentMade, loader, Controls>>
NextInTurn == [Resting EXCEPT !.pc = "checking", !.todo = monitor.todo \ {monitor.session}]

MonitorBegins ==
    /\ monitor.pc = "idle" /\ MonitorMoves([Resting EXCEPT !.pc = "checking", !.todo = {i \in known : info[i].path}])
    /\ UNCHANGED <<known, info>>

Newest(id) == Log(id)
Takes(id) == [monitor EXCEPT !.session = id, !.todo = @ \ {id}, !.mine = TRUE]

(* The time of the newest file is taken before the files are read.         *)
CheckSessionLogs(id) ==
    /\ generation = "next" /\ monitor.pc = "checking" /\ id \in monitor.todo
    /\ MonitorMoves(IF id \in known /\ info[id].loaded.mtime < Newest(id)
                    THEN [Takes(id) EXCEPT !.pc = "loading", !.mtime = Newest(id)] ELSE [monitor EXCEPT !.todo = @ \ {id}])
    /\ UNCHANGED <<known, info>>

(* The first monitor asks for the record, and so makes one.                *)
FirstCheckSessionLogs(id) ==
    /\ generation = "first" /\ monitor.pc = "checking" /\ id \in monitor.todo /\ GetOrCreate(id)
    /\ MonitorMoves(IF info[id].loaded.mtime < Newest(id)
                    THEN [Takes(id) EXCEPT !.pc = "loading", !.mtime = Newest(id)] ELSE [monitor EXCEPT !.todo = @ \ {id}])
    /\ UNCHANGED info

(* Files that cannot be read end the check of this session.                *)
MonitorLoads ==
    /\ monitor.pc = "loading" /\ UNCHANGED <<known, info>>
    /\ MonitorMoves([monitor EXCEPT !.pc = "storing", !.content = Log(monitor.session)]) \/ MonitorMoves(NextInTurn)

(* Mutant of LoadedData: the time is that of the files as they are now.    *)
DatedAfterwards == [content |-> monitor.content, mtime |-> Newest(monitor.session)]

LoadedData == [content |-> monitor.content, mtime |-> monitor.mtime]

(* By name, if there is still such a record.                               *)
MonitorStores ==
    /\ generation = "next" /\ monitor.pc = "storing" /\ MonitorMoves(NextInTurn) /\ UNCHANGED known
    /\ info' = IF monitor.session \in known THEN [info EXCEPT ![monitor.session].loaded = LoadedData] ELSE info

(* In the record that was asked for.                                       *)
FirstMonitorStores ==
    /\ generation = "first" /\ monitor.pc = "storing" /\ MonitorMoves(NextInTurn) /\ UNCHANGED known
    /\ info' = IF monitor.mine THEN [info EXCEPT ![monitor.session].loaded = LoadedData] ELSE info

MonitorSleeps == monitor.pc = "checking" /\ monitor.todo = {} /\ MonitorMoves(Resting) /\ UNCHANGED <<known, info>>

-----------------------------------------------------------------------------
(* The graph of the page *)

InCallback == Running /\ UNCHANGED <<written, messages, sent, chats, agentMade, monitor, Controls>>
Shows(s, content, from) == graph' = [session |-> s, content |-> content, from |-> from]
StartsLoading(pc, s) == loader' = [NotLoading EXCEPT !.pc = pc, !.session = s, !.content = Log(s)]

ShowsLoaded(s) ==
    /\ info' = [info EXCEPT ![s].initialLoadDone = TRUE, ![s].displayed = info[s].loaded.mtime]
    /\ Shows(s, info[s].loaded.content, "monitor") /\ UNCHANGED loader

(* The click on the log tab, first for a session; loading may fail.        *)
AutoLoadOnFirstTabSwitch ==
    LET s == current
    IN /\ s # "none" /\ loader.pc = "idle" /\ ~info[s].initialLoadDone /\ GetOrCreate(s) /\ InCallback /\ UNCHANGED current
       /\ IF info[s].loaded # NoData THEN ShowsLoaded(s)
          ELSE \/ info[s].path /\ StartsLoading("first_view", s) /\ UNCHANGED <<info, graph>>
               \/ info' = [info EXCEPT ![s].initialLoadDone = TRUE] /\ UNCHANGED <<graph, loader>>

(* The time is taken after the files were read, and counts as displayed.   *)
DirectLoadEnds ==
    /\ loader.pc = "first_view" /\ loader' = NotLoading /\ InCallback /\ UNCHANGED <<current, known>>
    /\ Shows(loader.session, loader.content, "itself")
    /\ info' = IF loader.mine THEN [info EXCEPT ![loader.session].initialLoadDone = TRUE, ![loader.session].displayed = Newest(loader.session)]
               ELSE info

HandleSessionSwitch(s) ==
    /\ s \in Open \ {current} /\ loader.pc = "idle" /\ current' = s /\ GetOrCreate(s) /\ InCallback /\ UNCHANGED info
    /\ IF ~info[s].initialLoadDone THEN UNCHANGED <<graph, loader>>
       ELSE IF info[s].loaded # NoData /\ info[s].loaded.mtime = info[s].displayed
            THEN Shows(s, info[s].loaded.content, "monitor") /\ UNCHANGED loader
       ELSE \/ info[s].path /\ StartsLoading("switch", s) /\ UNCHANGED graph
            \/ UNCHANGED <<graph, loader>>

SwitchLoadEnds ==
    /\ loader.pc = "switch" /\ loader' = NotLoading /\ InCallback /\ UNCHANGED <<current, known, info>>
    /\ Shows(loader.session, loader.content, "itself")

RefreshLogGraph ==
    LET s == current
    IN /\ s # "none" /\ info[s].loaded # NoData /\ InCallback /\ UNCHANGED <<current, known, loader>>
       /\ info' = [info EXCEPT ![s].displayed = info[s].loaded.mtime] /\ Shows(s, info[s].loaded.content, "monitor")

(* update_log_monitor_panel, at every tick: it makes a record, too.        *)
Status(s) ==
    IF ~info[s].initialLoadDone THEN "waiting"
    ELSE IF ~info[s].path THEN "no_path"
    ELSE IF info[s].loaded = NoData THEN "loading_now"
    ELSE IF info[s].loaded.mtime > info[s].displayed THEN "new_data" ELSE "up_to_date"
UpdateLogMonitorPanel ==
    /\ current # "none" /\ current \notin known /\ GetOrCreate(current) /\ InCallback /\ UNCHANGED <<current, info, graph, loader>>

-----------------------------------------------------------------------------
(* Control of the agent *)

HandleAgentControlClick ==
    /\ Running /\ current # "none" /\ click.pc = "idle" /\ click' = [pc |-> "sent", session |-> current]
    /\ unanswered' = unanswered \cup {current} /\ sent < MaxMessages /\ sent' = sent + 1
    /\ UNCHANGED <<written, messages, known, info, Page, graph, agentMade, poll, monitor, loader>>

MarksPending ==
    /\ Running /\ click.pc = "sent" /\ click' = NoClick /\ GetOrCreate(click.session) /\ info' = [info EXCEPT ![click.session].pending = TRUE]
    /\ UNCHANGED <<written, messages, sent, Page, graph, agentMade, poll, monitor, loader, unanswered>>

DebugNext ==
    \/ Start \/ SyncSessionsOnChange
    \/ PollClientControls \/ HandleLogPath \/ HandleControlAck \/ HandleAgentStatus \/ HandleUnknown \/ PollEnds
    \/ MonitorBegins \/ MonitorLoads \/ MonitorStores \/ FirstMonitorStores \/ MonitorSleeps
    \/ AutoLoadOnFirstTabSwitch \/ DirectLoadEnds \/ SwitchLoadEnds \/ RefreshLogGraph \/ UpdateLogMonitorPanel
    \/ HandleAgentControlClick \/ MarksPending
    \/ \E i \in Ids : AgentWrites(i) \/ CheckSessionLogs(i) \/ FirstCheckSessionLogs(i)
    \/ \E s \in PageSessions : ServiceReports(s) \/ ServiceAcknowledges(s) \/ NewChat(s) \/ CloseChat(s) \/ HandleSessionSwitch(s)

DebugSpec == DebugInit /\ [][DebugNext]_debugVars

-----------------------------------------------------------------------------
(* What the monitor holds is never older than the time it has put on it:   *)
(* no write that precedes that time is missing until the next write.  And  *)
(* the panel says "Up to date" of a graph that the monitor has loaded only *)
(* when the monitor has nothing newer, whatever is written while it reads, *)
(* however sessions are switched, closed and made again, and although the  *)
(* first view of a session may have counted a later time as displayed.     *)
UpToDateIsTrue ==
    LET s == graph.session
    IN /\ \A i \in known : info[i].loaded.content >= info[i].loaded.mtime
       /\ graph.from = "monitor" /\ s = current /\ s \in known /\ Status(s) = "up_to_date" => graph.content >= info[s].loaded.mtime
=============================================================================
