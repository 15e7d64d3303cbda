---------------------------- MODULE BrowserTools -----------------------------
(***************************************************************************)
(* The sidecar's BrowserTools: one lazily launched browser, used by the    *)
(* HTTP handlers, which serialise on _request_lock, and by the Gateway's   *)
(* receive loop, which does not take that lock.                            *)
(*                                                                         *)
(* The code runs on one event loop, so an action is the code between two   *)
(* awaits; what asyncio.to_thread runs is an action of its own, between    *)
(* the await and its continuation.  Each launch is a generation: the       *)
(* AgentFactory (with its adapter) and the WebDriver it creates carry its  *)
(* number, and 0 is Python's None.  A page is known by who loaded it.      *)
(***************************************************************************)
EXTENDS Naturals, Sequences, FiniteSets

LOCAL INSTANCE SequencesExt

CONSTANTS Http,          \* requests that arrive by HTTP
          Gateway,       \* the receive loop of the Gateway connection, if any
          None, Blank, Agent,
          Ops,           \* the operations that are called
          MaxShutdowns,  \* bound on the shutdowns requested
          MaxFailures,   \* bound on the launches and quits that raise
          MaxPatches     \* bound on the patches left on a create_agent

Callers == Http \cup Gateway
Gens == 1..(1 + MaxShutdowns + MaxFailures)
HttpOps == {"navigate", "snapshot", "act", "query", "query_at", "inject", "shutdown"}

ASSUME BrowserAssumption ==
    /\ Http \cap Gateway = {}
    /\ {None, Blank, Agent} \cap Callers = {} /\ None \notin HttpOps
    /\ Ops \subseteq HttpOps
    /\ MaxShutdowns \in Nat /\ MaxFailures \in Nat /\ MaxPatches \in Nat

VARIABLES
    initialized,  \* _initialized
    driver,       \* _webdriver
    factory,      \* _agent_factory, _adapter and _session_manager
    gen,          \* launches so far
    browsers,     \* the generations whose browser process is running
    failed,       \* history: generations whose launch or quit raised
    page,         \* what each browser shows
    create,       \* create_agent of each factory: its home and its patches
    toolsLock,    \* BrowserTools._lock
    reqLock,      \* server._request_lock
    pc, op,       \* where a caller is, and the operation it was called for
    bound,        \* the object a caller's thread call is bound to
    saved,        \* run_task's original_create
    reply,        \* the state a caller read: url, then html
    built,        \* the agent of a caller's run_task: its home and start_url
    overruns,     \* homes of agents that outlived their adapter.run
    failures, shutdowns

tools == <<initialized, driver, factory, gen>>
shared == <<browsers, failed, page, create, overruns>>
locks == <<toolsLock, reqLock>>
own == <<op, bound, saved, reply, built>>
budgets == <<failures, shutdowns>>
vars == <<tools, shared, locks, pc, own, budgets>>

NoReply == [url |-> None, html |-> None]
NoAgent == [home |-> 0, start |-> None]
Original(g) == [home |-> g, patches |-> <<>>]

Init ==
    /\ initialized = FALSE /\ driver = 0 /\ factory = 0 /\ gen = 0
    /\ browsers = {} /\ failed = {} /\ overruns = {}
    /\ page = [g \in Gens |-> Blank]
    /\ create = [g \in Gens |-> Original(g)]
    /\ toolsLock = None /\ reqLock = None
    /\ pc = [c \in Callers |-> "idle"]
    /\ op = [c \in Callers |-> None]
    /\ bound = [c \in Callers |-> 0]
    /\ saved = [c \in Callers |-> Original(0)]
    /\ reply = [c \in Callers |-> NoReply]
    /\ built = [c \in Callers |-> NoAgent]
    /\ failures = 0 /\ shutdowns = 0

Goto(c, label) == pc' = [pc EXCEPT ![c] = label]

-----------------------------------------------------------------------------
(* A call arrives.  _request_lock is taken by the HTTP handlers only. *)

FirstStep(o) == CASE o = "shutdown" -> "shutdown"
                  [] o = "snapshot" -> "get_state"
                  [] o \in {"navigate", "inject"} -> "navigate"
                  [] o = "act" -> "act"
                  [] o \in {"query", "query_at"} -> "run_task"

Call(c, o) ==
    /\ pc[c] = "idle"
    /\ c \in Gateway => o # "inject"
    /\ o = "shutdown" => shutdowns < MaxShutdowns
    /\ o \in {"query", "query_at"} =>
         \A g \in Gens : Len(create[g].patches) < MaxPatches
    /\ op' = [op EXCEPT ![c] = o]
    /\ shutdowns' = IF o = "shutdown" THEN shutdowns + 1 ELSE shutdowns
    /\ Goto(c, IF c \in Http THEN "request" ELSE FirstStep(o))
    /\ UNCHANGED <<tools, shared, locks, bound, saved, reply, built, failures>>

TakeRequestLock(c) ==
    /\ pc[c] = "request"
    /\ reqLock = None
    /\ reqLock' = c
    /\ Goto(c, FirstStep(op[c]))
    /\ UNCHANGED <<tools, shared, toolsLock, own, budgets>>

\* The operation returns; an HTTP handler leaves _request_lock with it.
Return(c) ==
    /\ Goto(c, "idle")
    /\ reqLock' = IF reqLock = c THEN None ELSE reqLock
    /\ op' = [op EXCEPT ![c] = None]
    /\ bound' = [bound EXCEPT ![c] = 0]
    /\ saved' = [saved EXCEPT ![c] = Original(0)]
    /\ reply' = [reply EXCEPT ![c] = NoReply]
    /\ built' = [built EXCEPT ![c] = NoAgent]

\* What auth inject does once the browser is on the target's domain: replace
\* the cookies of the page that is shown and, with navigate_after, navigate
\* again, to the target.
ReplaceCookies(c) ==
    IF driver \in browsers
    THEN \/ /\ op' = [op EXCEPT ![c] = "navigate"]
            /\ Goto(c, "navigate")
            /\ UNCHANGED <<reqLock, bound, saved, reply, built>>
         \/ Return(c)
    ELSE Return(c)

\* get_state and navigate are over, whatever came of them.
StateRead(c) ==
    IF op[c] = "inject" THEN ReplaceCookies(c) ELSE Return(c)

-----------------------------------------------------------------------------
(* What runs after "await self.initialize()" and up to the next await. *)

\* A thread call is bound to the WebDriver the tools have now.
DispatchCall(c) ==
    /\ pc[c] \in {"navigate", "act"}
    /\ bound' = [bound EXCEPT ![c] = driver]
    /\ Goto(c, IF pc[c] = "navigate" THEN "getting" ELSE "acting")
    /\ UNCHANGED <<create, reqLock, op, saved, reply, built>>

\* get_state reads the url on the loop; with a dead browser that raises.
ReadUrl(c) ==
    /\ pc[c] = "get_state"
    /\ IF driver \in browsers
       THEN /\ reply' = [reply EXCEPT ![c].url = page[driver]]
            /\ Goto(c, "reading")
            /\ UNCHANGED <<reqLock, op, bound, saved, built>>
       ELSE StateRead(c)
    /\ UNCHANGED create

\* run_task saves create_agent and puts its patch in place.
PatchCreateAgent(c) ==
    /\ pc[c] = "run_task"
    /\ saved' = [saved EXCEPT ![c] = create[factory]]
    /\ LET start == IF op[c] = "query_at" THEN c ELSE None
       IN  create' = [create EXCEPT ![factory].patches = Append(@, start)]
    /\ bound' = [bound EXCEPT ![c] = factory]
    /\ Goto(c, "creating")
    /\ UNCHANGED <<reqLock, op, reply, built>>

Continue(c) == DispatchCall(c) \/ ReadUrl(c) \/ PatchCreateAgent(c)

BeforeInitialize == {"navigate", "get_state", "act", "run_task"}

\* initialize() returns at once; a caller that waited for _lock and finds the
\* tools initialized by another one does the same.
IsInitialized(c) ==
    /\ pc[c] \in BeforeInitialize
    /\ initialized
    /\ Continue(c)
    /\ UNCHANGED <<tools, browsers, failed, page, overruns, toolsLock, budgets>>

\* Mutant of StartLaunch: initialize() does not wait for _lock.
LaunchesUnlocked(c) ==
    /\ pc[c] \in BeforeInitialize
    /\ ~initialized
    /\ toolsLock' = c
    /\ gen' = gen + 1 /\ gen < Cardinality(Gens)
    /\ factory' = gen + 1
    /\ UNCHANGED <<initialized, driver, shared, reqLock, pc, own, budgets>>

\* _initialize_sync, in a thread and under _lock: the factory first,
StartLaunch(c) ==
    /\ pc[c] \in BeforeInitialize
    /\ ~initialized
    /\ toolsLock = None
    /\ toolsLock' = c
    /\ gen' = gen + 1
    /\ factory' = gen + 1
    /\ UNCHANGED <<initialized, driver, shared, reqLock, pc, own, budgets>>

Launching(c) == toolsLock = c /\ pc[c] \in BeforeInitialize

\* then the browser,
LaunchBrowser(c) ==
    /\ Launching(c) /\ driver # gen
    /\ driver' = gen
    /\ browsers' = browsers \cup {gen}
    /\ UNCHANGED <<initialized, factory, gen, failed, page, create, overruns,
                   locks, pc, own, budgets>>

\* and back on the loop.
FinishLaunch(c) ==
    /\ Launching(c) /\ driver = gen
    /\ initialized' = TRUE
    /\ toolsLock' = None
    /\ Continue(c)
    /\ UNCHANGED <<driver, factory, gen, browsers, failed, page, overruns, budgets>>

\* Mutant of LaunchFails: a launch that raises keeps _lock.
FailureKeepsLock(c) ==
    /\ Launching(c) /\ driver # gen
    /\ failures < MaxFailures
    /\ failures' = failures + 1
    /\ IF pc[c] = "get_state" THEN StateRead(c) ELSE Return(c)
    /\ UNCHANGED <<tools, shared, toolsLock, shutdowns>>

\* The launch raises, before the browser process starts or while the new driver
\* is prepared: then the process runs on and _webdriver never names it.
\* get_state is called where navigate catches it, the others let it reach the
\* handler.
LaunchFails(c) ==
    /\ Launching(c) /\ driver # gen
    /\ failures < MaxFailures
    /\ failures' = failures + 1
    /\ \/ UNCHANGED <<browsers, failed>>
       \/ browsers' = browsers \cup {gen} /\ failed' = failed \cup {gen}
    /\ toolsLock' = None
    /\ IF pc[c] = "get_state" THEN StateRead(c) ELSE Return(c)
    /\ UNCHANGED <<tools, page, create, overruns, shutdowns>>

-----------------------------------------------------------------------------
(* Calls of the WebDriver, in threads. *)

Get(c) ==
    /\ pc[c] = "getting"
    /\ bound[c] \in browsers
    /\ page' = [page EXCEPT ![bound[c]] = c]
    /\ Goto(c, "get_state")
    /\ UNCHANGED <<tools, browsers, failed, create, overruns, locks, own, budgets>>

\* Mutant of GetFails: a navigation that raised is reported like any other.
ReportsFailedGet(c) ==
    /\ pc[c] = "getting"
    /\ Goto(c, "get_state")
    /\ UNCHANGED <<tools, shared, locks, own, budgets>>

\* webdriver.get raises: a timeout, or the browser is gone.
GetFails(c) ==
    /\ pc[c] = "getting"
    /\ Goto(c, "answering")
    /\ UNCHANGED <<tools, shared, locks, own, budgets>>

\* An action or a screenshot; an action may leave the page.
Act(c) ==
    /\ pc[c] = "acting"
    /\ \/ bound[c] \in browsers /\ page' = [page EXCEPT ![bound[c]] = c]
       \/ UNCHANGED page
    /\ Goto(c, "answering")
    /\ UNCHANGED <<tools, browsers, failed, create, overruns, locks, own, budgets>>

\* _get_clean_html reads self._webdriver in the thread; if it raises, the
\* whole state is BrowserState().
ReadPage(c) ==
    /\ pc[c] = "reading"
    /\ reply' = [reply EXCEPT ![c] =
                   IF driver \in browsers THEN [@ EXCEPT !.html = page[driver]] ELSE NoReply]
    /\ Goto(c, "answering")
    /\ UNCHANGED <<tools, shared, locks, op, bound, saved, built, budgets>>

Answer(c) ==
    /\ pc[c] = "answering"
    /\ StateRead(c)
    /\ UNCHANGED <<tools, shared, toolsLock, budgets>>

-----------------------------------------------------------------------------
(* run_task: the patched create_agent, the adapter's run, the restore. *)

\* create_agent as the adapter's thread finds it: the last patch with a
\* start_url sets the base action.
CreateAgent(c) ==
    /\ pc[c] = "creating"
    /\ LET made == create[bound[c]]
           starts == SelectSeq(made.patches, LAMBDA start : start # None)
       IN  built' = [built EXCEPT ![c] =
                       [home |-> made.home,
                        start |-> IF starts = <<>> THEN None ELSE Last(starts)]]
    /\ Goto(c, "running")
    /\ UNCHANGED <<tools, shared, locks, op, bound, saved, reply, budgets>>

CreateFails(c) ==
    /\ pc[c] = "creating"
    /\ Goto(c, "restoring")
    /\ UNCHANGED <<tools, shared, locks, own, budgets>>

\* The agent works on its factory's injected WebDriver.
AgentActs(c) ==
    /\ pc[c] = "running"
    /\ built[c].home \in browsers
    /\ page' = [page EXCEPT ![built[c].home] = Agent]
    /\ UNCHANGED <<tools, browsers, failed, create, overruns, locks, pc, own, budgets>>

\* adapter.run returns: the agent ended, or it is left behind at the deadline.
AdapterReturns(c) ==
    /\ pc[c] = "running"
    /\ \/ UNCHANGED overruns
       \/ overruns' = overruns \cup {built[c].home}
    /\ Goto(c, "restoring")
    /\ UNCHANGED <<tools, browsers, failed, page, create, locks, own, budgets>>

\* Mutant of Restore: create_agent is put back only when the run did not
\* raise.
RestoresOnSuccess(c) ==
    /\ pc[c] = "restoring"
    /\ create' = IF factory = 0 \/ built[c] = NoAgent THEN create
                 ELSE [create EXCEPT ![factory] = saved[c]]
    /\ Return(c)
    /\ UNCHANGED <<tools, browsers, failed, page, overruns, toolsLock, budgets>>

\* The finally clause, on whatever factory there is now: with none it raises.
Restore(c) ==
    /\ pc[c] = "restoring"
    /\ create' = IF factory = 0 THEN create
                 ELSE [create EXCEPT ![factory] = saved[c]]
    /\ Return(c)
    /\ UNCHANGED <<tools, browsers, failed, page, overruns, toolsLock, budgets>>

OverrunActs(g) ==
    /\ g \in overruns /\ g \in browsers
    /\ page' = [page EXCEPT ![g] = Agent]
    /\ UNCHANGED <<tools, browsers, failed, create, overruns, locks, pc, own, budgets>>

OverrunEnds(g) ==
    /\ g \in overruns
    /\ overruns' = overruns \ {g}
    /\ UNCHANGED <<tools, browsers, failed, page, create, locks, pc, own, budgets>>

-----------------------------------------------------------------------------
(* shutdown. *)

StartShutdown(c) ==
    /\ pc[c] = "shutdown"
    /\ toolsLock = None
    /\ toolsLock' = c
    /\ bound' = [bound EXCEPT ![c] = driver]
    /\ Goto(c, IF driver = 0 THEN "quit" ELSE "quitting")
    /\ UNCHANGED <<tools, shared, reqLock, op, saved, reply, built, budgets>>

Quit(c) ==
    /\ pc[c] = "quitting"
    /\ browsers' = browsers \ {bound[c]}
    /\ Goto(c, "quit")
    /\ UNCHANGED <<tools, failed, page, create, overruns, locks, own, budgets>>

\* quit raises, with the browser gone or not.
QuitFails(c) ==
    /\ pc[c] = "quitting"
    /\ failures < MaxFailures
    /\ failures' = failures + 1
    /\ failed' = failed \cup {bound[c]}
    /\ browsers' \in {browsers, browsers \ {bound[c]}}
    /\ Goto(c, "quit_raised")
    /\ UNCHANGED <<tools, page, create, overruns, locks, own, shutdowns>>

\* Mutant of FinishShutdown: shutdown leaves _initialized.
StaysInitialized(c) ==
    /\ pc[c] \in {"quit", "quit_raised"}
    /\ driver' = IF pc[c] = "quit" THEN 0 ELSE driver
    /\ factory' = 0
    /\ toolsLock' = None
    /\ Return(c)
    /\ UNCHANGED <<initialized, gen, shared, budgets>>

FinishShutdown(c) ==
    /\ pc[c] \in {"quit", "quit_raised"}
    /\ driver' = IF pc[c] = "quit" THEN 0 ELSE driver
    /\ factory' = 0
    /\ initialized' = FALSE
    /\ toolsLock' = None
    /\ Return(c)
    /\ UNCHANGED <<gen, shared, budgets>>

-----------------------------------------------------------------------------
Step(c) ==
    \/ TakeRequestLock(c) \/ IsInitialized(c)
    \/ StartLaunch(c) \/ LaunchBrowser(c) \/ FinishLaunch(c) \/ LaunchFails(c)
    \/ Get(c) \/ GetFails(c) \/ Act(c) \/ ReadPage(c) \/ Answer(c)
    \/ CreateAgent(c) \/ CreateFails(c) \/ AdapterReturns(c) \/ Restore(c)
    \/ StartShutdown(c) \/ Quit(c) \/ QuitFails(c) \/ FinishShutdown(c)

Next ==
    \/ \E c \in Callers : Step(c) \/ AgentActs(c) \/ \E o \in Ops : Call(c, o)
    \/ \E g \in Gens : OverrunActs(g) \/ OverrunEnds(g)

Spec == Init /\ [][Next]_vars

\* Threads and the loop run, the adapter has a deadline, and asyncio.Lock wakes
\* its waiters in the order they came, so none waits forever; nobody has to call.
Fairness == \A c \in Callers : SF_vars(Step(c))

FairSpec == Spec /\ Fairness

-----------------------------------------------------------------------------
Labels == BeforeInitialize \cup
    {"idle", "request", "getting", "acting", "reading", "answering", "creating",
     "running", "restoring", "shutdown", "quitting", "quit", "quit_raised"}

\* The type of what the tools keep and of where their callers are.
TypeOK ==
    /\ initialized \in BOOLEAN
    /\ gen \in Nat /\ driver \in 0..gen /\ factory \in 0..gen
    /\ browsers \subseteq 1..gen /\ failed \subseteq 1..gen
    /\ toolsLock \in Callers \cup {None}
    /\ pc \in [Callers -> Labels]
    /\ op \in [Callers -> HttpOps \cup {None}]
    /\ bound \in [Callers -> Nat]

Quitting == \E c \in Callers : pc[c] \in {"quitting", "quit", "quit_raised"}

\* browser_tools.py:66-87, 212-227: initialize() lets its callers through only
\* when there is a factory and a running browser, except while a shutdown is
\* on its way through quit.
ReadyMeansUsable ==
    initialized /\ ~Quitting => factory # 0 /\ driver \in browsers

\* browser_tools.py:71-72, 205, 217: only a launch or a quit that raises loses a
\* browser: any other running browser is the one the tools hold, however the
\* launches, uses and shutdowns of the callers fall between each other.
LostOnlyByFailure == browsers \ failed \subseteq {driver}

\* server.py:102-353, browser_tools.py:71, 214: each request is answered: no
\* operation ends with a lock held, and the two locks are never waited for in
\* opposite orders.
EveryRequestAnswered == \A c \in Callers : pc[c] # "idle" ~> pc[c] = "idle"

\* browser_tools.py:493-550: when no run_task is in progress, create_agent of
\* the current factory is the factory's own method again.
CreateAgentRestored ==
    /\ factory # 0
    /\ \A c \in Callers : pc[c] \notin {"creating", "running", "restoring"}
    => create[factory] = Original(factory)

\* browser_tools.py:493-550: the agent of a task is made by the current
\* factory and starts at the task's own start_url, or at none.
TaskStartsAtOwnUrl ==
    \A c \in Callers :
        pc[c] = "running" =>
            built[c] = [home |-> bound[c], start |-> IF op[c] = "query_at" THEN c ELSE None]

\* browser_tools.py:242-288: what a caller is told of the page is one page, and
\* after a navigation its own; only an agent left behind by an earlier run_task
\* can have taken the page away.
ReadsOnePage ==
    \A c \in Callers : pc[c] = "answering" /\ reply[c] # NoReply =>
        \/ Agent \in {reply[c].url, reply[c].html}
        \/ /\ reply[c].url = reply[c].html
           /\ op[c] = "navigate" => reply[c].url = c
=============================================================================
