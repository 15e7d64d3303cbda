# A TLA+ model of WebAxon

WebAxon (`src/src/webaxon`, `src/sidecar`) runs LLM agents that drive a browser. Around the agents
there are services, consoles and debuggers that talk over queues, a sidecar that lends one browser
to several callers, and a layer that turns a page into something an agent can read and an agent's
answer into something a page does. This project models those parts; what is inside a model, a
browser or a web site is external to it.

## 1. Inventory

Paths are relative to `src/src/webaxon/` unless they start with `sidecar/`; `svc/` stands for
`devsuite/web_agent_service_nextgen/`.

| component | state | operations | what makes it correct |
|---|---|---|---|
| debug pipeline gate (`svc/agents/stage_gate_controller.py`) | completed_state, the event, aborted, pipeline_done; `_debug_sessions` | stage_hook, resume, abort; collect, advance, abort and status handlers | a stage starts only after a resume at the stage before it, an abort stops the pipeline, a pipeline that nobody answers ends and frees its slot |
| service main loop (`svc/service.py`) | the shutdown flag | one control message, one monitoring cycle, sleep; clean-up | a bad message or a failing agent does not stop the loop |
| session manager (`svc/session/`) | registry id -> session object, the object's info | create, get_or_create, cleanup, idle cleanup | an agent belongs to a registered session; a cleanup leaves none behind |
| session monitor (`svc/session/agent_session_monitor.py`) | last_agent_status, initialized | status check, lazy creation, idle cleanup | a waiting message gets an agent, once; the status settles on what is true |
| agent runner (`svc/agents/agent_runner.py`) | a thread per agent | start, run, record the outcome | the outcome reaches last_agent_status |
| agent factory and templates (`svc/core/agent_factory.py`) | the current template version, shared by all sessions | create_agent | a session's agent has the session's version (which a shared factory does not give: section 5) |
| run adapters (`svc/agents/*_adapter.py`) | private session ids and queues, the agent thread of one run | run | a run ends, lets its agent go, and takes its own responses only |
| message handlers (`svc/communication/message_handlers.py`) | none of their own | dispatch and one handler per control message | one reply per request |
| queues (file based, external library) | FIFO directories shared by processes | put, get, peek, size | |
| CLI client (`svc/cli/client.py`) | none between commands | requests and their polls, questions, two-phase deletion, /meta and /meta-debug | what is shown and answered belongs together although nothing numbers the requests |
| tab monitor (`automation/monitor.py`) | last value, time of the last change, the monitored tab | check, debounce, setup, verify, one iteration | a condition fires on a change that lasted; watched tabs are left alone |
| web driver (`automation/web_driver.py`) | window infos, monitored tabs, state | open, close, switch, execute an action | an action runs on the tab and the element it was meant for; a follow-up is compared with its own base |
| browser backends (`automation/backends/`) | none but the browser's | clicks, new tabs, text input, lookup, scrolling, for Selenium and Playwright | one click is one click; a silent call did what it was asked |
| HTML utilities (`html_utils/`) | none; trees that are changed in place | cleaning, incremental change, XPath generation | no text is lost, nothing new is withheld, an XPath selects its element |
| action tester (`devsuite/agent_debugger_nextgen/action_tester/`) | one browser, tests with a tab each, the active test | launch, create, run, switch, close | a test is of the browser that is driven |
| agent debugger (`devsuite/agent_debugger_nextgen/`) | sessions, loaded logs, settings of the page | callbacks, the log monitor, polling | it shows the state of the session it displays |
| browser sidecar (`sidecar/server.py`, `browser_tools.py`) | one browser, the run adapter, two locks | navigate, snapshot, act, query, start, shutdown | one user of the browser at a time |
| gateway node (`sidecar/gateway_node.py`) | the socket, connected, should_run | connect, receive, reconnect, disconnect | a lost connection is made again, a closed one is not |
| sidecar authentication (`sidecar/remote_auth.py`, `oauth_auth.py`) | authentication sessions with an expiry | create, submit, poll, inject, exchange | cookies and tokens reach whoever waits for them, once they are there |
| evaluation (`evaluation/`) | results and labels in files | run, retry, sanitize, judge | a task is labelled once, on its own run |
| first-generation service and debugger (`devsuite/*.py`) | sessions, agents, queues of one start | as their successors | the agent type told is the one that answers |
| URL and browser utilities, queue manager and settings | none | string and file helpers | |

Interactions. Clients and the service exchange dictionaries over queues: `user_input_<id>` and
`agent_response` between a client and an agent, `server_control` and `client_control` between a
client and the main loop. The main loop is one thread. Agent threads share the session object with
it, pipeline threads a `StageGateController` and the `_debug_sessions` registry. Only the controller
and that registry have locks. All consoles read the same two queues and put back what is not theirs.

The sidecar is one asyncio event loop in one process: its HTTP handlers serialise on
`server._request_lock`, the Gateway's receive loop calls the same `BrowserTools` object without that
lock, and `BrowserTools._lock` serialises launch and quit only.

An agent's turn on a page goes: clean the page, or cut out what is new on it, number its elements,
show it, read indices or html from the answer, find the live element, act on it (click, type, scroll,
open a tab), record the snapshots. The page and the user act all the time.

What is hard, and where: threads that share an object without a lock (the stage controller's event,
`last_agent_status`); one consumer per queue as a convention that nothing enforces; answers without
request numbers on queues that several consoles read and reorder; a check under one lock acquisition
and a use under another; coroutines that use after an `await` what they read before it; tasks that
outlive the object that started them; a connection that is lost between a request and its result; a
page that answers a click late, goes on changing between snapshot and action, or has look-alikes;
files that are written while they are read or used again by the next attempt; a fallback that sends
again what was half sent. `PROJECT.json` lists each at its line under `hazards`, with the properties
that would catch it.

## 2. Plan

Done, in this order:

1. `PipelineGate`, `StageGate`, `StageGateProofs`: the debug pipeline gate, what it promises, and
   that it keeps the promise.
2. `AgentService`, `AgentServiceProofs`: the main loop, the registry, lazy creation, agent threads.
3. `BrowserTools`, `BrowserToolsProofs`: the shared browser of the sidecar.
4. `GatewayNode`, with its proofs in `SidecarProofs`: the sidecar's connection.
5. The agent's page: `BrowserTabs`, `TabMonitor`, `NewTabClick`, `TextInput`, `Scrolling`,
   `ActionMemory`, `HtmlTree`, `HtmlCleaning`, `HtmlChanges`, `ElementXPath`, `ElementLookup`,
   `EvaluationRuns`; composed in `MCAutomation`; proofs in `AutomationProofs` and `PageProofs`.
6. Who uses the system: `RemoteAuth`, `OAuthCodes`, `KnowledgeConsole`, `TurnConsole`,
   `MetaDebugConsole`, `ActionTester`, `DebuggerLogs`, `FirstService`; composed in `MCConsoles`;
   proofs in `SidecarProofs`, `ConsoleProofs` and `DebuggerProofs`.

Not done, and worth doing next:

7. A composition of `AgentService` with the consoles' put-back, in which a status acknowledgement
   goes round `server_control`.

A composition of `GatewayNode` with `BrowserTools` is not planned: `BrowserTools` already has the
Gateway's receive loop as a caller that handles one command at a time, which is all it needs to know
of the connection, and `GatewayNode` needs to know only that a command ends.

## 3. The modules

In every module an action is a stretch of code that no other actor can interleave with: for threads a
critical section or a single access to shared state, for coroutines the code between two awaits, for
calls into a browser one visit to it, for consoles one queue operation.

### StageGate (threads)

The service loop executes one handler at a time (`svcPc`, `svcRun`, `svcCmd` are its program counter
and locals); a pipeline thread per run executes `_run_meta_agent_pipeline` around
`StageGateController.stage_hook` (`pc`, `stage`, `signaled`, `target`). `completed`, `event`,
`aborted` and `done` are the fields of the controller, `debugSessions` the registry.

| code | actions |
|---|---|
| `_handle_debug_collect` | `HandleCollect` (limit, new id, registration, thread start) |
| `_handle_debug_advance` | `HandleAdvance` (lookup under the registry lock), `AdvanceChecks` (the unlocked comparison), `Resume` |
| `_handle_debug_abort` | `HandleAbort`, `Abort` |
| `_handle_debug_status` | `HandleStatus`, `StatusReadsState`, `StatusReadsNext` per controller |
| `stage_hook` | `HookCompletes`, `HookAnnounces`, `HookClears`, `WaitReturns`, `HookChecks` |
| the thread's end | `PipelineResponds`, `RetireLooksUp`, `RetireMarks`, `RetirePops` |

`released` is a history variable: the completed stages at which `resume()` was accepted and no
`abort()` has come since, before the gate was passed. Message contents, checkpoints and the stages'
work are left out; a stage ends well or ends the pipeline.

`PipelineGate` is the abstract specification: a pipeline has a phase, the last stage it reached and
the grants it was given; it passes a gate only with a grant for the stage it has reached, and an
abort revokes a grant that has not been used (`Revoke`). The
refinement mapping is `phase <- Phase(pc)`, `reached <- completed`, `granted <- released`.

`MetaDebugConsole` puts consoles on top of `PipelineGate`: the pipelines there are the abstract ones
(`Gate == INSTANCE PipelineGate`), and what is added is `server_control`, `client_control`, the
handlers and the consoles' polls with their put-backs and drops.

### AgentService (one loop, agent threads)

`sessions` is the registry, and an element of `Objs` a session object with its info: an id can get a
new object while a thread still works with the old one, and this is where the errors are. A cycle of
the main loop is `LoopGets` (one control message and its handler), then `LoopChecksStatus` and
`LoopWritesStatus` for each session, `LoopCreatesLazily` for each, `LoopCleansUpIdle` and
`LoopEndsCycle`. The status check is two actions because the thread writes the same field without a
lock; the other handlers touch nothing a thread writes and are one. An agent thread goes through
`ThreadCallsAgent`, `AgentConsumes`, `AgentReturns` or `AgentRaises`, `ThreadCompletes` or
`ThreadFails`, `ThreadEnds`. Clients put input messages and control messages at any time.
`factoryVersion` is the template version the one shared factory is switched to.

### BrowserTools (coroutines and worker threads)

Callers are HTTP requests and the Gateway's receive loop; `pc` is where a caller waits. `tools` are
the fields of `BrowserTools`, and each launch is a generation, so that a reference to an old
`WebDriver` or factory is a number smaller than `gen`. `page` says which caller loaded what a browser
shows, `create` what each factory's `create_agent` is: its own method and the patches of `run_task`
on it. Code run by `asyncio.to_thread` is an action between the `await` and its continuation
(`LaunchBrowser`, `Get`, `Act`, `ReadPage`, `Quit`), and every one of them can raise; a launch that
raises may leave its browser running, known to nobody (`LaunchFails`). `failed` remembers the browsers
whose launch or quit raised. An agent that
outlives `adapter.run` (it is joined for five seconds) stays in `overruns` and can still act.

### GatewayNode (coroutines)

A connector is a task inside `connect()`: the start-up task, which tries once, or a `_reconnect()`.
Each socket has a number, a state the Gateway can end at any time (properly, `closed`, or not,
`lost`), and at most one receive loop. `disconnect()` is two actions, split at `ws.close()`.

### The agent's page (`MCAutomation`)

| module | models | actions |
|---|---|---|
| `BrowserTabs` | the tabs of one browser, as either backend and the `WebDriver` over it keep them, with `_monitor_tabs` | `VisitUrl`, `Search`, `Click`, `CloseTab`, `SwitchToActionTab`, `SetState`; the site and the user open, change and close tabs |
| `TabMonitor` | the closures of `create_monitor_callbacks` with `MonitorCondition`, one or two monitors on those tabs | `MonitorIteration`, which verifies the tab, sets it up, checks and debounces, and `MonitorError`; `Tick` is the clock |
| `NewTabClick` | one `click_element`: the decision for a new tab, the strategies, the waits, the fallback | `StartClick`, `Attempt`, `RestoreTarget` (which can raise, before the check or after a tab was seen), `CheckNewTab`, `Wait`, `Compare`, `NormalClick`; `PageReacts` at any time after a click |
| `TextInput` | one `input_text`: sanitizing, clearing, the ways of typing, the verification | `StartInput`, `FocusClick`, `ClearContent`, `TypeKeys`, `SetValue`, `VerifyInputValue`; `PageRewrites`; the caret is part of the state |
| `Scrolling` | `scroll_element` and `solve_scrollable_child` with all search strategies | `Solve`, `ScrollElement`, `CenterElementInView` and `ContainersMove`, one action for each way of sending, `ScrollRaises` with the fallback; `Glide` is the browser that carries a smooth scroll on, before and after the call returns |
| `ActionMemory` | what `WebDriver.__call__` does to the memory of the window an action starts in | `BeginAction`, `BeginFails`, `ExecuteAction`, `ActionRaises`, `FinishAction` |
| `HtmlTree` | a parsed page and the tree helpers; operators only, without `RECURSIVE`, so that the modules on it can be proved about | |
| `HtmlCleaning` | `clean_html`, one action for each of its passes | each takes its list of elements at its start |
| `HtmlChanges` | `extract_incremental_html_change` | signatures, elements, thresholds |
| `ElementXPath` | `elements_to_xpath` with its scoring left open (every ranking), and the validation on the page | |
| `ElementLookup` | from a shown element back to the live one, by index or by html | `PageAdds`, `PageCopies`, `PageRemoves`, and `StateChanges` of the attributes that answer with an element's state, between snapshot and action; `FindByIndex`, `FindByHtml`, `ContinueSequence` |
| `EvaluationRuns` | running a dataset, interruption, retry, sanitizing, labelling with several workers | files are what survives an interruption |

### Who uses the system (`MCConsoles`)

| module | models | what is external |
|---|---|---|
| `RemoteAuth` | the sessions and the relay page of `remote_auth.py`, the handlers of `server.py` that wait for cookies and inject them under `_request_lock`, step by step: each can fail, and an exception breaks the request off wherever it is (`BreaksOff`) | the browser with its page and its cookies, the users who send cookies |
| `OAuthCodes` | `oauth_auth.py`: a code is exchanged by the callback and by hand, others poll | the authorization server, which takes a code once and may answer without a token |
| `KnowledgeConsole` | the /kb commands of several consoles, and the service's handlers | the knowledge base: which pieces match, and what an insertion does |
| `TurnConsole` | requests, questions and responses of agents as the consoles and both run adapters see them, with session ids or without, and with Ctrl-C at any time | the agent: takes an input, responds, asks, completes |
| `MetaDebugConsole` | /meta and /meta-debug, their polls, the handlers | the pipelines are those of `PipelineGate` |
| `ActionTester` | `ActionTesterManager` and the callbacks that call it, each from one visit to the browser to the next: a launch and a close quit, reset and construct in steps of their own, a status check visits and resets, a new test is a tab opened (`OpenTestTab`), its handle read (`TakeHandle`), the test registered (`RegisterTest`) and shown (`ShowTest`) | the browser: tabs are opened and closed by hand, it may die |
| `DebuggerLogs` | the log monitor, the callbacks that load or show, the control queue; both debuggers | the log files |
| `FirstService` | the first service's loop in its four modes, across restarts, and the debuggers that send to it | the agents |

Both composites are one specification for all their modules. A variable `part` names the module a
behaviour is of: it is fixed by the first step (by the initial state for monitors, which are chosen
there), and the variables of the other modules keep their initial values. The modules share no
state, so this checks each of them as if by itself, in one run. `MetaDebugConsole` and
`BrowserTabs`/`TabMonitor` are compositions in the usual sense, inside one part.

## 4. Runs

| run | question | bounds |
|---|---|---|
| `stage_gate` | safety of the gate; it implements `PipelineGate` | 2 pipelines, 2 ids, 4 stages as in the code, limit 2, collects that share a timestamp and collects that do not |
| `stage_gate_live` | every pipeline ends and frees its slot, those whose id is their own stay registered, the limit holds | 2 pipelines, limit 1 (so the second collect waits for the first), 3 stages |
| `stage_gate_lost_resume` | can a resume be lost? Yes | 1 pipeline |
| `agent_service` | who has an agent, and late status writes, with failing creations and starts | 2 ids, 2 objects, 1 version, 2 control messages |
| `agent_service_live` | a waiting message gets an agent, an end is noticed | 1 id, 2 objects, 2 control messages |
| `agent_two_consumers` | does a cleanup stop the thread? No | 1 id, 2 objects |
| `browser_tools` | launch, use and shutdown by an HTTP request and the Gateway; every request is answered | 1 + 1 callers, 1 shutdown, 1 failing launch or quit |
| `browser_tools_http` | what `_request_lock` gives: pages and the restored factory | 2 HTTP requests, all operations, 2 shutdowns, 1 failure |
| `task_start_url` | does `run_task` keep its start URL beside a Gateway query? No | 1 + 1 callers |
| `gateway_node` | one owner, results where they belong, disconnect, repair | 2 invocations, 2 connectors, 3 sockets, 2 attempts |
| `automation` | what an agent does on pages, and the evaluation of its runs | below |
| `consoles` | what people use the system with | below |

`automation` (2.8 million states). Tabs: 2 handles, 2 monitors, times up to 2; one configuration has
two monitors on the browser, one debounced and continuous, one not. Click: every kind of element,
mode and fallback, two orders of strategies. Input: seven texts that mix letters, line ends, blanks,
control characters and characters outside the BMP, with a threshold of 2 for the fast way; the field
holds two characters, one of them a letter of the texts, so that a text can be put before, into and
after a value that already ends the same. Memory: 2 windows, five kinds of actions. Cleaning,
changes, XPath, lookup: the pages are given in `MCAutomation`, a handful of nodes each, chosen for
look-alikes, nesting, attributes that differ in one word or only in the order of their words, ids
that are there twice, strings between elements, an element in another that can leave and come back
with it; 2 page changes for the lookup. Evaluation: 2 tasks, 2 workers, 2 attempts, 2 evaluations, 1
step. Scrolling: 4 elements, two shapes of tree, five kinds of boxes (nothing to scroll, visible
overflow, hidden, scrolling along one axis each), every strategy, way and engine, two directions,
distance 2 so that keys can break off half-way. Symmetry in the tab handles.

`consoles` (4.7 million states). 2 authentication sessions of one domain and 2 clients, times up to
1; 1 OAuth session, 3 clients and 2 codes; 2 consoles, 2 pieces and 3 requests for the knowledge
base; for turns a console, a run of each adapter and 3 responses, with a single-choice question that
takes other answers too (that the console asks again or puts a fitting answer for each of the other
kinds of question is the assumption `OtherKindsFit` of `MCConsoles`, which TLC evaluates); 2
consoles, a debug pipeline of 3 stages, a plain pipeline and 3 commands for /meta-debug; 2 callback
threads, 2 browsers, 3 tabs in those that run and 2 tests for the action tester; 2 page sessions, 2
writes and 1 message for the logs; 2 chats, 1 debugger, 2 starts and 3 puts for the first service.

Why the bounds are enough. The races found, and those excluded, are between two actors and one object:
two pipelines and one handler, a thread and the loop, two callers, a connector and a receive loop,
two consoles and one queue, a console and an adapter, a monitor and a write. Two ids and two objects
are needed for an id to be reused while its first thread lives and for another session to be
disturbed. Three sockets give a connection, its replacement and one that fails in the handshake.
Three commands of /meta-debug are a collect, an advance and a third of another console; three
responses let one be put back behind two others. Callers, requests and reconnections of the services
are not bounded otherwise, since a caller that has returned may call again. Every bound is a named
constant that appears in guards: `MaxInbox`, `MaxControl`, `MaxShutdowns`, `MaxFailures`,
`MaxPatches`, `MaxSockets`, `MaxTime`, `MaxPageChanges`, `MaxAttempts`, `MaxStep`, `MaxEvals`,
`Submissions`, `OAuthMaxTime`, `MaxRequests`, `MaxResponses`, `MaxInputs`, `MaxBrowsers`, `MaxTabs`,
`MaxTests`, `MaxWrites`, `MaxMessages`, `MaxStarts`, `MaxPuts`, `MaxCommands` (`MaxSessions`,
`MaxDebugs` and the reconnection attempts are limits of the code). Symmetry is used in safety runs
only.

Deadlock is checked for `BrowserTools`, where a caller can always call again. The other systems do
stop: when the finite supply of pipelines is used up, after a shutdown, once the node is stopped,
when a page is done.

### What the properties say, and what they exempt

- `StageNeedsResume`, `HandlerStaleByAtMostOneStage`, `ImplementsGate`, `PipelinesExit`: the gate, section 6.
  `LiveRunsRegistered` speaks of pipelines whose timestamp no other collect shares; the others are in
  the runs, and may be unreachable (section 5).
- `AgentsAreRegistered`: an object that holds an agent is registered under its id.
  `StatusWriteIsCurrent`: a status is written one step after it was read. It may be out of date by the
  end of the thread and nothing else, and is never written to a session that was cleaned up.
- `ReadyMeansUsable` holds except while a shutdown is on its way through quit; `LostOnlyByFailure` except
  for browsers whose launch or quit raised; `ReadsOnePage` is about HTTP requests, which share a lock.
- `MonitorHoldsItsTab`: the registry is a set, so the failure of a second monitor on the same tab
  does take the tab; the property says that nothing else does. Navigation over a watched tab is
  exempt where Selenium got no new tab.
- `OneTabPerClick` excuses answers that come after the last look at the tabs (`overdue`), and attempts
  that raised after they had touched the page: then the next strategy does open a second tab.
- `SilentMeansTyped` is about Selenium, and a field that could be read back: the text stands in it in one
  piece, and what was there before is gone when it was to be cleared. It excuses `javascript` without
  clearing, which overwrites.
- `ComparedWithOwnBase` excuses windows whose base was recorded by an action that then raised
  (`orphaned`), and those whose action had a target that was empty once cleaned (`unset`).
- `CleaningKeepsText` excuses the order, and a second copy, of texts that are on the page twice.
- `XPathSelectsTarget`: exactly the wanted elements on an indexed page, look-alikes on others; on a page
  where two elements have the same id only the number of elements.
- `ActsOnShownElement` excuses indices the page itself has put on two elements, by a copy or by bringing
  back what it had removed; by html, lookups on a page that has changed since, and elements whose own
  state has changed one of the attributes they were shown with. That a look-alike's state has
  changed is not excused.
- `LabelsOnceAndOnOwnRun` compares screenshots where they are kept with the session.
- `ScrollsWhatScrolls`: its first part is about the built-in search, its second about what a call that
  has returned does to its element: all the way only once the browser has come to rest.
- `InjectsItsSession`: no cookies of another session for the domain, if the browser could be brought
  there, and the call's own page when it could be reached. Which of its own cookies the browser took
  is not part of it: `add_cookies` swallows each failure.
- `PollsSeeSuccess` excuses an exchange that was answered without a token.
- `ResponsesReachTheirUser` excuses what a run adapter drops, and what a console has in hand at a Ctrl-C;
  `AnswersItsQuestion` a user who broke off a wait, by Ctrl-C or at a response of another session
  that names none.
- `CommandsMatchReports`: a command that is sent once, for the stage after the one some console has
  shown, is not refused as out of order, and no report is shown twice, or lost but by a wait for an
  acknowledgement, which passes over it, or by a Ctrl-C while a console has it in hand (`lost`). It does
  not say on which console a report appears.
- `TestsOfThisBrowser` exempts tests registered in a race (`raced`): after a reset or a launch that came
  since their tab was read, or while another callback was launching. All others are of the browser
  that is driven, also when two callbacks launch at once.
- `UpToDateIsTrue` is about graphs the monitor has loaded.
- `NamedTypeIsAgents` says that what the service told last is true, not that a choice is granted.

### Fairness

- `StageGate`: weak fairness of each pipeline thread. `WaitReturns` is always enabled at the gate
  because `Event.wait` has a timeout (`stage_gate_controller.py:141`). The service loop and users owe
  nothing: `PipelinesExit` says that a pipeline ends when nobody answers.
- `AgentService`: weak fairness of the main loop, whose gets are non-blocking, and of the bookkeeping of a
  thread. Clients, agents (`AgentReturns`) and idle cleanups owe nothing.
- `BrowserTools`: strong fairness of each caller's steps. Weak fairness is too little: a lock that is
  free again and again is not continuously free. `asyncio.Lock` wakes waiters in the order in which
  they came, so each gets it. Thread calls end, because page loads, actions and `adapter.run` have
  timeouts or deadlines; `Call` is not fair.
- `GatewayNode`: weak fairness of connectors (the dial and both handshake waits have a timeout) and
  receive loops. The Gateway sends and drops as it likes, and nobody has to disconnect.

## 5. Findings

Three runs show the code doing something else than the repository says. Each is described with its
lines in `PROJECT.json`.

- A `resume()` or `abort()` that comes after the stage was announced and before `event.clear()` is
  accepted and erased; the thread waits for the timeout (`stage_gate_lost_resume`).
- A cleanup does not stop the agent thread, so a re-created session has two agents on one input queue
  (`agent_two_consumers`).
- `run_task` swaps a method of the shared factory around an `await`, and the Gateway's loop does not take
  `_request_lock`: a task gets another's start URL (`task_start_url`).

Seen while modelling and kept in the models, but not runs of their own:

Debug pipelines and their consoles

- An advance command is compared with the expected one and then acted on without a lock over both: a
  second `evaluate` opens the next gate. One stage is the most a handler can be behind, which is
  proved (`HandlerStaleByAtMostOneStage`).
- `resume()` is accepted after the final response: `pipeline_done` is set later
  (`message_handlers.py:1343`, `1351`).
- Session ids of the gate are timestamps to the second (`message_handlers.py:1414-1415`). Two collects of
  one second get one id: the second takes the first's place in the registry, the first controller can no
  longer be reached, and its pipeline waits for the timeout. The runs include this, and
  `LiveRunsRegistered` speaks of the pipelines whose id is their own, which the others do not disturb.
- `client.py:1090-1092` says that the order of the last report and the final response is guaranteed.
  The queue is FIFO, but another console's poll may take the report and put it back behind the
  response. Polls do not look at session ids: one pipeline's report ends another's poll, an error is
  taken by any console, and the wait for "started" drops the reports it meets (`client.py:135-145`).
  Ctrl-C while a poll has a report in hand, to be put back, loses it (`client.py:1097-1107`, `1251`).

Agent service

- A session with the default template version gets the version the factory was last switched to
  (`agent_factory.py:203-206`): all sessions share one factory, which keeps the last version, also of a
  creation that then failed. Its docstring says "Template version to use (empty string for default)", and
  `svc/docs/guides/template-versioning.md:211` that different sessions "can use different template versions
  simultaneously without interference" (also line 203, and `TEMPLATE_VERSION_FEATURE.md:128` of the
  debugger). The model has the switch (`factoryVersion`, `agentVersion`); no property claims the opposite.
- The service puts its status acknowledgements on `server_control`, the queue it consumes
  (`agent_session_monitor.py:164`, `service.py:305`), and takes them as unknown messages.
- The runner's `running` is acknowledged again by the monitor (`agent_runner.py:129`,
  `agent_session_monitor.py:64`).
- An empty `sync_active_sessions` removes every session (`message_handlers.py:163-170`).
- A shutdown cleans sessions up and leaves the agent threads running (`service.py:384`, `419`).
- When the thread of a new agent cannot be started, the session stays initialized and is not tried again
  (`agent_session_monitor.py:219`).

Consoles and run adapters

- The regular adapter's documentation says that it avoids consuming others' responses
  (`regular_agent_adapter.py:234-238`); it takes and drops them (`250`). Both adapters end a run at a
  question of the agent and then send an empty input.
- A late answer of a timed-out command is taken for the answer of the next one of that type; messages of
  other types are dropped meanwhile. Number 0 or a negative number picks from the end of a list
  (`client.py:347`). A confirmed deletion is reported as done whatever the service answers.
- Responses need not name their session: the service's `QueueInteractive` is given no session id
  (`regular_agent_adapter.py:142-147`, `agent_session_monitor.py:205-210`), and a console takes a response
  without one for its own (`client.py:569`), also a question or the end of another's turn.
- Ctrl-C between the get of another session's response and its put-back loses it (`client.py:562-571`).
- After Ctrl-C while an agent asks, the next request is taken for the answer. At the end of the input a
  question for an exact string asks for ever.

Sidecar

- After a close frame `async for` ends without an exception: nothing reconnects, and `is_connected` stays
  true until something else resets it (`gateway_node.py:196-208`). A first connection that fails is
  logged as retried in the background and is not (`server.py:767`). A `disconnect()` during the sleep
  of a reconnection is undone by `connect()` (`gateway_node.py:88`, `484`). `LossIsRepaired` and
  `DisconnectIsFinal` are stated for the cases the code does handle.
- A shutdown during a Gateway task makes its `finally` clause restore `create_agent` on `None`, or, after a
  relaunch, an old factory's method on the new factory (`browser_tools.py:550`).
- An agent that outlives the five seconds its thread is joined for goes on acting on the shared browser,
  under whoever uses it then (`regular_agent_adapter.py:206`); `ReadsOnePage` exempts the pages it took away.
- A response that an agent sends after its deadline stays in the queue and can be read as the answer to
  the next query (`browser_tools.py`, `regular_agent_adapter.py:206`).
- A launch that raises once Chrome is up, in the settings after the start (`driver_factory.py:535-543`), never
  assigns `_webdriver` (`browser_tools.py:205`): that browser runs on, and the next launch starts another.
- `auth inject` does not look at the result of its navigation (`server.py:516`) and replaces the
  cookies of whatever page is open, so those of an earlier session may stay for the domain; each
  cookie that cannot be added is logged and forgotten (`selenium_backend.py:742-745`), and an
  exception in between answers 500 with the cookies half replaced. An empty list of cookies deletes
  all and reports success. A second submission is answered "received" and dropped. `get_session`
  marks a completed session as expired; a session that is cleaned up while its poll sleeps ends the
  poll with an error.
- A second exchange of a used code marks the session "error" after its token was acquired;
  `PollsSeeSuccess` says that polls still give the token. One that is answered without a token
  overwrites the token with `None` (`oauth_auth.py:267`), after success was reported.
  `get_session_by_state` does not look at the expiry, and sessions are never removed.

Pages

- Monitors: a change of content during the debounce does not restart the timer. Playwright opens a
  new tab for links within the page when the mode is "not the same page".
- Clicks: an attempt that clicked and then raised, as the restoring of the target can
  (`selenium/actions.py:398-416`, `playwright/actions.py:286-290`, `335-337`), is followed by the
  next strategy: a second tab. `target_blank` leaves its mark on the element when another exception
  than the handled ones comes.
- Input: `select_all` with an empty text does not clear; `javascript` without clearing overwrites. A text
  typed without clearing goes in where the click has put the caret, while the comment says that it was
  appended (`selenium/actions.py:915`); typed before a value that ends the same, it passes the check in silence.
- Snapshots: a base of FULL with a change of NONE raises (`web_driver.py:1089-1092`), although
  `schema/webagent_action.py:57-59` documents the combination; the snapshot after an action that
  moved to another window is stored in the old window's memory. In mode TARGET the base of the
  previous action stays when the element is empty once cleaned (`web_driver.py:1044-1051`), and the
  comparison uses it.
- Lookup: Selenium's `get_attribute` answers with an element's state (none for `checked` when it is not, the
  current text for `value`), so a target whose box was unticked since, or that was always shown with a state
  it does not have, is passed over for a look-alike (`selenium/element_selection.py:144-151`).
- Cleaning: look-alikes are merged; a "remove" rule with tags below it raises; the default marks replace
  `<p>` so that links in it are lost; `keep_elements_with_immediate_text=False` removes text. Changes:
  only the first root is compared. An XPath of mode `first_match` may select nothing; of two elements with
  the same `__id__`, an XPath may be validated for one and select the other. A copied element brings its
  old `__id__`, and one that was off the page during an indexing comes back with its own and those of
  everything in it.
- Scrolling: Playwright's search can never find a child: the element is the script's only argument
  and is taken apart as a list (`playwright/common.py:340`), the exception is caught and the element
  returned, while `test_scrollable_child_strategy_property.py:5-9` says both backends return
  equivalent elements. Selenium's search in JavaScript takes visibly overflowing content for
  scrollable and compares inner sizes, the built-in one does neither. A keystroke scroll that raises
  midway is sent again over the whole distance; an exception of the javascript way is swallowed
  (`selenium/actions.py:1560-1568`). `action_chains_focus_first` turns the wheel over the viewport's
  corner. A smooth scroll is judged and reported after half a second (`selenium/actions.py:1558`,
  `1568`), when it may not have begun.
- Evaluation: a run that raises or is interrupted leaves its browser running; labels of an earlier attempt
  stay when a task is run again; a retry opens the answers for writing and loses the earlier ones;
  a shared trajectory directory mixes the screenshots of attempts; a truncated last line stops later
  evaluations; "Status: unsuccessful" counts as success.

Debuggers and first service

- Every console and debugger that polls the control queue drains what is meant for the others. The log
  path is recorded under the directory's name. A direct load reads the files before their time
  (`app.py:1411-1427`), so "Up to date" can be false then.
- Action tester: a failed status check resets without quitting the browser, and what it resets may by then be
  the browser of another callback's launch (`manager.py:403`); two launches at once orphan one; a test
  registered after another callback's reset or during its launch stays listed with a handle of a browser that
  is gone (`manager.py:445-452`); the active test may differ from the driver's tab after a close.
- First service: the loop may create a session's agent for a waiting message before it reads the
  message that names the type, which is then refused (`web_agent_service.py:744`, against `142`); a
  failed creation is not retried though "created" is told; a session that works for 30 minutes is
  removed as idle; one page's synchronisation removes the sessions of another.

## 6. Proofs

All theorems hold for every value of the constants that satisfies the module's named assumption.
Those of modules that are part of a composite are about the module's own specification
(`MonitorSpec`, `ClickSpec`, `InputSpec`, `MemorySpec`, `EvalSpec`, `ScrollSpec`, `AuthSpec`,
`OAuthSpec`, `TurnSpec`, `KbSpec`, `MetaSpec`, `DebugSpec`, `TesterSpec`, `FirstSpec`, `LookupSpec`,
`ChangesSpec`, `XPathSpec`), whose initial predicate and next-state relation the composite uses.
Types are proved rather than checked by runs. Every invariant a run checks is the property of a
theorem, but for `CleaningKeepsText` (below), and so is every action property and the refinement.

`StageGateProofs` (assumption `StageGateAssumption`: finite ids, at least two stages, `None` is neither
a run nor an id):

- `TypeOKHolds`. `TypeOK` is not inductive: that a thread stays within the stages depends on where it is,
  and that a handler has a controller on where the handler is. `TypeInv` adds `ThreadInv` and `ServiceInv`.
- `StageNeedsResumeHolds`. `GateInv` follows a grant through the thread: whenever the gate of a waiting or
  woken thread could open, its stage is in `released`, unless an abort is pending.
- `HandlerStaleByAtMostOneStageHolds`. A handler's value is current, or one stage old; in the second case
  the thread is `Quiet`: it cannot complete a further stage, because its gate needs a signal only the
  busy handler could send. Without `Quiet` the invariant is not inductive.
- `LiveRunsRegisteredHolds`, whether or not collects may share a tick: whose id is in the registry, and that a
  pipeline which shares it with none is what it leads to (`RegistryInv`); only a collect adds an entry, also
  when it takes another's place (`LimitInv`, with facts about the cardinality of finite sets).
- `GateRefinement`: `Spec => ImplementsGate`. The initial states map to initial states; each step of the
  service is a grant, a start or a stutter; each step of a thread a reach, a pass, an end or a stutter.
  `Pass` needs `GateInv`, and the numbering needs `ThreadInv`.

`SidecarProofs`, about the connection (assumption `NodeAssumption`: the bounds are naturals, `None`
is neither an invocation nor a connector):

- `OneTaskHolds`. `OwnerInv` adds that the loop that runs belongs to the receive task and that `_ws` is its
  socket: only then can a connector not start beside it.
- `DisconnectIsFinalHolds`. `StopInv`: after the first half of `disconnect()` no task is left, so none can
  undo it before the second half.
- `ResultOnItsConnectionHolds`. `DeliveryInv` says where an invocation is: waiting once on the socket it came
  on (`WaitingInv`, `DistinctInv`), in the hands of that socket's loop (`HandlingInv`), or not yet sent
  (`UnsentInv`), and unanswered in each case. With `OwnerInv`, the socket a result goes to is the loop's own.
- `NodeTypeOKHolds`, whose last conjunct needs `HandlingInv`.

`AgentServiceProofs` (`ServiceAssumption`): `TypeCorrect`, `AgentsRegistered`,
`StatusWritesCurrent`. That only registered objects hold an agent is not inductive: an object
registered twice would keep its agent when one id is cleaned up. `RegistryInv` says that an object
carries the id it is registered under, `ThreadInv` that a thread was started for an initialized
object, `VisitInv` that the sessions the loop still has to visit are registered.

`BrowserToolsProofs` (`BrowserAssumption`): `BrowserTypeOK`, `ReadyIsUsable`, `NoLostBrowser`. The
invariant follows `_lock`: its holder either quits, and then the browser is the tools' own
(`QuitInv`), or launches, and then the tools are not initialized and the browser is of the newest
generation (`LaunchInv`); outside of both, tools that are not initialized have no browser but one
whose quit raised (`IdleInv`). `NoLostBrowser` says `LostOnlyByFailure`: without its exemption of
launches and quits that raise it would be false, and with it a loss has no other cause. `CalledInv`
is what a caller that waits for `_request_lock` was called for.

`RestoredOverHttp` and `OnePageOverHttp` have the hypothesis `Gateway = {}`: they are what
`_request_lock` gives those who take it, and `task_start_url` shows that they fail beside the
Gateway. `SerialInv`: whoever is past its wait holds the lock. `TaskInv`: only the newest factory
is ever patched, by the one caller whose task runs, and that caller has saved the original.
`PageInv` follows an answer from the page that was loaded through the two reads of it. `BudgetInv` counts
launches: each is paid for by a failure, a shutdown, or is the present one, so the numbers of the
generations stay within the model's bound.

`SidecarProofs`, about signing in:

- `InjectionsDoNotMix` (`AuthAssumption`). `CallInv`: the handler that injects holds `_request_lock`, and
  its session is completed, or it expired when it was, and nobody changes its cookies any more (`Settled`).
  `PageInv`: from the replacing of the cookies on, if the browser was brought to the domain to delete them
  (`cleared`), it has none of another session for it, and at the answer it is on the target if that was
  reached; only who holds the lock changes either. `InTime`: cookies came before the expiry.
- `SuccessIsSeen` (`LifetimesAreTimes`), an action property. `KindInv` tells polls from exchanges and gives
  a waiting poll its session. `TokenInv`: whoever was told of success, or is about to be, has a session with a
  token, unless an exchange of it was answered without one (`tokenless`). The rest is that a failing
  exchange, an expiry and a second code leave a token alone (`TokensStay`).

`ConsoleProofs`:

- `ResponsesArriveOnce` (`TurnAssumption`), for any number of consoles, adapters and responses. `PlaceInv`
  replaces the sum of cardinalities by places (the shared queue, an adapter's own queue, a console's
  hands, what a session has seen, what was dropped or lost): a response that was produced is in exactly one, and
  `RepeatInv` says that a queue does not hold it twice. The count follows from both.
- `AnswersAreFitting`. `TurnsInv` says of a console that nobody has broken off what stands where: a
  request, an agent at work, a last response or a question on its way, an answer. There is never more
  than one of these, which is why nothing numbers them and it works; the moment a user breaks off a
  wait, or is handed another's response that names no session, it is lost.
- `DeletesAreShown` (`KbAssumption`). `KbInv` carries the property through the queue: every deletion
  on its way is of pieces that were listed or named. The candidates of a search are the pieces that
  match, in the order of their list, so the proof needs what `SelectSeq` returns; the model states
  the list by rank instead, and the lemmas `LeastNumber` and `NthNumber` give each rank its piece.
- `CommandsAndReports` (`MetaAssumption`), for any number of consoles, pipelines, stages and
  commands. Its two halves need different facts. That nothing is lost or doubled is `ReportInv`:
  exactly what was sent is on the queue, held back by one poll, shown (`displayed`) or `lost`, in
  one of these, and a console at its command line holds nothing back (a command would make it forget
  what it held). That a careful command is not refused is `InTurnInv`, which follows an advance from
  the console (`TypedInv`: no stage typed beyond the one after the stage reached) through
  `server_control` (`QueueInv`: not yet granted, at most once) to the handler (`HandlerInv`);
  `GateInv` closes it: the stages before the one reached were all granted, so an advance whose stage
  was not granted is for the stage reached, and the pipeline cannot move before its grant.

`AutomationProofs`:

- `ReportsAreConfirmed` (`ConfigsAssumption`, `ExpectedAssumption`). `TimerInv`: a running timer was started in
  the present streak of true checks. `PastInv`: streaks and timers are not in the future.
- `MonitorsHoldTheirTabs`. `TabInv`: every open tab is among those that were ever opened, and
  handles are not used again.
- `OneTabForAClick`, for every element, mode, fallback and order of strategies. `ClickInv` says what
  a tab that is there means at each place: before a further attempt it came too late for a check or
  to an attempt that raised (`Excused`), at the check it is alone.
- `FollowUpsKeepTheirBase` (`MemoryAssumption`). `BaseInv`: a window holds the base of the action
  last done there, but for a call that has just replaced it, and but for `orphaned` and `unset`
  windows. It needs that a base of NONE goes with a change of NONE, the constraint stated at
  `automation/schema/webagent_action.py:57`.
- `TasksLabelledOnceOnTheirRun` (`EvalAssumption`), for any number of tasks, attempts and workers.
  `RunnerInv`, `ResultInv`, `CopyInv` and `LabelInv` follow screenshots and outcome from the run
  through the result file and the sanitized copy to the label; `JudgeInv` says that no two workers
  have the same task and none has a task that is labelled.
- `SilentInputIsTyped` (`InputAssumption`), for every text, old value and caret. `TypingInv`: while keys go in
  beside an old value, what has been typed stands in it in one piece, with the caret behind it.
- `ScrollsAreRight` (`ScrollAssumption`), for every page, strategy, way and distance. The strategies
  recur down the page (depths, the largest child of the largest child), which induction would solve;
  the proofs take the smallest element that goes wrong instead (`DownThePage`: such a function
  exists; `OneWayDown`: there is one only). `PickFits` says what each strategy picks. `ScrollInv`
  keeps elements within their frames whatever was sent, and the scrolled one on its course;
  `GoesAllTheWay` counts what is still to glide with what has gone, which every step of the browser
  keeps.

`PageProofs`, for pages of any size. A parsed page is finite, and an element comes before what is
below it (`IsParsed`, which `HtmlChanges` and `ElementXPath` assume of their pages; the lookup needs
only that attributes are finitely many sequences of words). That replaces induction: of the elements
that go wrong the last one is taken, so that everything below it is right (`GreatestNumber`), and
what is computed down a page exists as a function by `StepByStepBack`, what is computed along a list
by `StepByStep`.

- `ActionsLandOnShownElement` (`LookupAssumption`). `LookupInv`: on the page as it was shown every
  element has an index of its own (`IndicesTellApart`); on the live page an element with the index
  of another means that the page has put that index on two (`IndicesMeanTheSame`), which every
  change of the page keeps since an element comes with the attributes it had. By html: every
  attribute narrows the elements and keeps the target (`NarrowKeepsTarget`), and the index, which is
  among the attributes wherever their order puts it, leaves nothing else (`HtmlFindsItself`). The
  index is no attribute that answers with a state, so look-alikes may be in any; the element itself
  answers as it was shown (`AsShown`).
- `NothingNewIsWithheld` (`ChangesAssumption`). `NothingUnseenIsLost`: the incremental tree of an
  element has every unseen element below it, all that is below that one, and the way to it. Take the
  last element of which this is false. It was seen before, or all of it would be kept; so what is
  lost is below one of its children, which keeps it, being later, and then the element is kept as
  well. That what lies between is below the same child is `OneBelowTheOther`: of two elements with a
  common descendant one is below the other. The thresholds give all or the same (`ChangesInv`).
- `XPathsSelectTheirTarget` (`XPathAssumption`). Every way to an answer validates it but one
  (`SingleIsValidatedOrLooksSame`): by html or signature the place of a look-alike among the matches
  is taken, and places tell matches apart (`RankTellsApart`). Validated is: as many elements, with
  the same identifiers; `SameIdentifier` says what that means with and without ids.

`DebuggerProofs`:

- `NamedTypeAnswers` (`TypesAreTypes`, `StartsAreCounted`). The invariant is the property itself
  with the types of sessions, notices, queues and debuggers (`ChatTypes`, `QueueTypes`,
  `DebuggerTypes`); the `Fits` lemmas say for one session what each handler does to it.
- `UpToDateMeansIt` (`DebuggerAssumption`), for any number of sessions. `HeldIsDated`: content is
  never older than the time put on it, in a record, in the monitor's hands and in the files it is
  about to read. `ShownIsDisplayed`: a graph that shows what the monitor loaded is as new as what
  its session counts as displayed.
- `TestsKeepTheirBrowser`, for any number of callbacks, browsers, tabs and tests, with no assumption on how the
  callbacks overlap. `NothingDuringLaunch`: while any launch constructs its browser, whatever is listed was
  registered in a race; so the new browser takes over no other test. Each reset empties the list, and what a
  callback registers later with a tab it read before is `raced` by definition.

What the attempts showed, and what was changed in the models because of it: `overdue` in
`NewTabClick` (a check after an attempt that clicked nothing may take the answer to an earlier
click, which the history of late answers did not count for every order of strategies); the caret in
`TextInput` (section 5); a removed element that comes back with everything in it, of which
`ElementLookup` had counted the element alone; pages where an id is there twice, which
`XPathSelectsTarget` had not exempted; the words of a class, which a signature sorts; overlapping
guards of `CASE` expressions, whose value is then left open, in four modules; polls of the debugger
handle one message a step, as the code's loop does; a test is forgotten at its index, and the active
test changes only if a tab was closed.

Only model-checked:

- liveness (`PipelinesExit`, `WaitingMessageGetsAgent`, `EndIsNoticed`, `EveryRequestAnswered`,
  `LossIsRepaired`), out of the prover's reach;
- `CleaningKeepsText`: the cleaning is a sequence of folds over lists taken before, each step of which
  changes the tree (and, when collapsing, a dictionary whose keys hash by what they were); that a fold
  keeps the order of the words is induction over data;
- the three properties that fail, each in its run.

## 7. Not modelled

- Prompting, planning and the assembly of agents, the judges' prompts, the datasets' formats: what they
  make is decided by a model, and the code around them is data conversion.
- URL and browser-profile helpers, the queue manager and the settings: string and file helpers.
- The Dash pages: layout, chat history, settings panels, the editors of the action tester.
- Screenshots, zoom, viewport, the dispatch of action names, the construction of drivers: thin calls into
  a browser that keep no state of the program.
- Scoring weights and formatting in `html_utils`; the model leaves the ranking of attributes open
  instead, so that its property holds for every scoring.
- In the services: the synchronous debug mode of a pipeline (one pipeline, no second thread),
  `set_browser_profile`, start-up wiring, logging, directories, serialization.
- Message contents, wherever no property tells them apart.

The `components` of `PROJECT.json` say for each part what is left out.
