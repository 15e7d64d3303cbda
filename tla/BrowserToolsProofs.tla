-------------------------- MODULE BrowserToolsProofs --------------------------
(* Proofs about BrowserTools, for every set of callers and operations and   *)
(* every number of shutdowns, failures and patches: first of the tools and  *)
(* their browser, then, when all callers come by HTTP, of run_task and of   *)
(* what callers are told of a page.                                         *)
EXTENDS BrowserTools, FiniteSetTheorems, SequenceTheorems, TLAPS

QuitLabels == {"quitting", "quit", "quit_raised"}

\* A caller that waits for the request lock has been called for something.
CalledInv == \A c \in Callers : pc[c] = "request" => op[c] \in HttpOps

\* Whoever quits a browser holds the lock, and it is the tools' own browser.
QuitInv ==
    \A c \in Callers : pc[c] \in QuitLabels =>
      /\ toolsLock = c /\ bound[c] = driver
      /\ pc[c] = "quitting" => driver # 0
      /\ pc[c] = "quit" => driver \notin browsers
      /\ pc[c] = "quit_raised" => driver \in failed

\* Every other holder launches: the tools are not initialized, and the browser
\* of the new generation runs as soon as it is the tools' browser.
LaunchInv ==
    toolsLock # None /\ pc[toolsLock] \notin QuitLabels =>
      /\ pc[toolsLock] \in BeforeInitialize
      /\ ~initialized /\ factory = gen /\ gen # 0
      /\ driver = gen => gen \in browsers

\* Outside of a launch, tools that are not initialized have no browser but one
\* whose quit raised.
IdleInv ==
    ~initialized /\ driver # 0 =>
      \/ driver \in failed
      \/ toolsLock # None /\ pc[toolsLock] \in BeforeInitialize /\ driver = gen

Inv ==
    /\ TypeOK /\ CalledInv /\ QuitInv /\ LaunchInv /\ IdleInv
    /\ LostOnlyByFailure /\ ReadyMeansUsable

USE DEF tools, shared, locks, own, budgets

\* What a caller's step does to its own variables, other than pc.
OwnChange(c) ==
    /\ op' \in [Callers -> HttpOps \cup {None}]
    /\ bound' \in [Callers -> Nat]
    /\ \A d \in Callers \ {c} : op'[d] = op[d] /\ bound'[d] = bound[d]

\* Where a step of a caller that does not begin or end a quit goes to.
Elsewhere == Labels \ (QuitLabels \cup {"request", "shutdown"})
Moves(c) ==
    \E l \in Elsewhere : Goto(c, l)

-----------------------------------------------------------------------------
\* No caller is None.
LEMMA CallersAreNotNone == None \notin Callers
BY BrowserAssumption

LEMMA ReturnMoves ==
    ASSUME Inv, NEW c \in Callers, Return(c)
    PROVE  Moves(c) /\ OwnChange(c)
<1>1. Goto(c, "idle") /\ "idle" \in Elsewhere
  BY DEF Return, Elsewhere, Labels, QuitLabels
<1>2. OwnChange(c)
  BY DEF Return, OwnChange, Inv, TypeOK
<1> QED
  BY <1>1, <1>2 DEF Moves

LEMMA StateReadMoves ==
    ASSUME Inv, NEW c \in Callers, StateRead(c)
    PROVE  Moves(c) /\ OwnChange(c)
<1>1. CASE Return(c)
  BY <1>1, ReturnMoves
<1>2. CASE /\ op' = [op EXCEPT ![c] = "navigate"]
           /\ Goto(c, "navigate")
           /\ UNCHANGED <<reqLock, bound, saved, reply, built>>
  <2>1. "navigate" \in Elsewhere /\ "navigate" \in HttpOps
    BY DEF Elsewhere, Labels, QuitLabels, BeforeInitialize, HttpOps
  <2>2. OwnChange(c)
    BY <1>2, <2>1 DEF OwnChange, Inv, TypeOK
  <2> QED
    BY <1>2, <2>1, <2>2 DEF Moves
<1> QED
  BY <1>1, <1>2 DEF StateRead, ReplaceCookies

\* initialize() lets a caller go on.
LEMMA ContinueMoves ==
    ASSUME Inv, NEW c \in Callers, Continue(c)
    PROVE  Moves(c) /\ OwnChange(c)
<1> USE DEF Inv, TypeOK
<1>1. CASE DispatchCall(c)
  <2>1. {"getting", "acting"} \subseteq Elsewhere
    BY DEF Elsewhere, Labels, QuitLabels
  <2>2. OwnChange(c)
    BY <1>1 DEF DispatchCall, OwnChange
  <2> QED
    BY <1>1, <2>1, <2>2 DEF DispatchCall, Moves
<1>2. CASE ReadUrl(c)
  <2>1. CASE Goto(c, "reading") /\ UNCHANGED <<op, bound>>
    <3>1. "reading" \in Elsewhere
      BY DEF Elsewhere, Labels, QuitLabels
    <3> QED
      BY <2>1, <3>1 DEF Moves, OwnChange
  <2>2. CASE StateRead(c)
    BY <2>2, StateReadMoves
  <2> QED
    BY <1>2, <2>1, <2>2 DEF ReadUrl
<1>3. CASE PatchCreateAgent(c)
  <2>1. "creating" \in Elsewhere
    BY DEF Elsewhere, Labels, QuitLabels
  <2>2. OwnChange(c)
    BY <1>3 DEF PatchCreateAgent, OwnChange
  <2> QED
    BY <1>3, <2>1, <2>2 DEF PatchCreateAgent, Moves
<1> QED
  BY <1>1, <1>2, <1>3 DEF Continue

\* A caller without the lock keeps the invariant wherever it goes.
LEMMA OthersKeepInv ==
    ASSUME Inv, NEW c \in Callers, c # toolsLock,
           NEW l \in Labels \ QuitLabels, Goto(c, l), OwnChange(c),
           l = "request" => op'[c] \in HttpOps,
           UNCHANGED <<initialized, driver, factory, gen, browsers, failed, toolsLock>>
    PROVE  Inv'
<1> USE CallersAreNotNone DEF Inv, TypeOK
<1>1. pc' \in [Callers -> Labels] /\ pc'[c] = l /\ \A d \in Callers \ {c} : pc'[d] = pc[d]
  BY DEF Goto
<1>2. TypeOK' /\ CalledInv'
  BY <1>1 DEF OwnChange, CalledInv
<1>3. QuitInv'
  BY <1>1 DEF OwnChange, QuitInv
<1>4. toolsLock # None => pc'[toolsLock] = pc[toolsLock]
  BY <1>1
<1>5. LaunchInv' /\ IdleInv'
  BY <1>4 DEF LaunchInv, IdleInv
<1>6. LostOnlyByFailure' /\ ReadyMeansUsable'
  <2>1. (\E d \in Callers : pc[d] \in QuitLabels) => \E d \in Callers : pc'[d] \in QuitLabels
    BY <1>1 DEF QuitInv
  <2> QED
    BY <2>1 DEF LostOnlyByFailure, ReadyMeansUsable, Quitting, QuitLabels
<1> QED
  BY <1>2, <1>3, <1>5, <1>6

\* A caller that holds the lock quits or launches; nobody else does then.
LEMMA HolderAlone ==
    ASSUME Inv, NEW c \in Callers, toolsLock = c
    PROVE  \A d \in Callers \ {c} : pc[d] \notin QuitLabels
BY DEF Inv, QuitInv

\* Steps that leave alone everything the invariant speaks of.
LEMMA QuietKeepsInv ==
    ASSUME Inv, UNCHANGED <<initialized, driver, factory, gen, browsers, failed, toolsLock,
                            pc, op, bound>>
    PROVE  Inv'
BY DEF Inv, TypeOK, CalledInv, QuitInv, LaunchInv, IdleInv, LostOnlyByFailure, ReadyMeansUsable,
       Quitting

-----------------------------------------------------------------------------
(* The launch. *)

LEMMA StartLaunchKeepsInv ==
    ASSUME Inv, NEW c \in Callers, StartLaunch(c)
    PROVE  Inv'
<1> USE CallersAreNotNone DEF Inv, TypeOK, StartLaunch
<1>1. TypeOK' /\ CalledInv'
  BY DEF CalledInv
<1>2. \A d \in Callers : pc[d] \notin QuitLabels
  BY DEF QuitInv
<1>3. QuitInv'
  BY <1>2 DEF QuitInv
<1>4. LaunchInv' /\ IdleInv'
  BY <1>2 DEF LaunchInv, IdleInv
<1>5. LostOnlyByFailure' /\ ReadyMeansUsable'
  BY DEF LostOnlyByFailure, ReadyMeansUsable
<1> QED
  BY <1>1, <1>3, <1>4, <1>5

LEMMA LaunchBrowserKeepsInv ==
    ASSUME Inv, NEW c \in Callers, LaunchBrowser(c)
    PROVE  Inv'
<1> USE CallersAreNotNone DEF Inv, TypeOK, LaunchBrowser, Launching
<1>1. c = toolsLock /\ c # None /\ pc[c] \in BeforeInitialize /\ pc[c] \notin QuitLabels
  BY DEF BeforeInitialize, QuitLabels
<1>2. ~initialized /\ factory = gen /\ gen # 0 /\ (driver = 0 \/ driver \in failed)
  BY <1>1 DEF LaunchInv, IdleInv
<1>3. \A d \in Callers : pc[d] \notin QuitLabels
  BY <1>1, HolderAlone
<1>4. TypeOK' /\ CalledInv'
  BY <1>2 DEF CalledInv
<1>5. QuitInv' /\ LaunchInv' /\ IdleInv'
  BY <1>1, <1>2, <1>3 DEF QuitInv, LaunchInv, IdleInv
<1>6. LostOnlyByFailure' /\ ReadyMeansUsable'
  BY <1>2 DEF LostOnlyByFailure, ReadyMeansUsable
<1> QED
  BY <1>4, <1>5, <1>6

\* The holder of the lock leaves it after a launch, successful or not.
LEMMA LaunchEndsKeepsInv ==
    ASSUME Inv, NEW c \in Callers, FinishLaunch(c) \/ LaunchFails(c)
    PROVE  Inv'
<1> USE CallersAreNotNone DEF Inv, TypeOK
<1>1. Launching(c) /\ toolsLock' = None
      /\ UNCHANGED <<driver, factory, gen>>
      /\ \/ UNCHANGED <<browsers, failed>>
         \/ browsers' = browsers \cup {gen} /\ failed' = failed \cup {gen}
  BY DEF FinishLaunch, LaunchFails
<1>2. c = toolsLock /\ c # None /\ pc[c] \in BeforeInitialize /\ pc[c] \notin QuitLabels
  BY <1>1 DEF BeforeInitialize, QuitLabels, Launching
<1>3. Moves(c) /\ OwnChange(c)
  BY ContinueMoves, StateReadMoves, ReturnMoves DEF FinishLaunch, LaunchFails
<1>4. PICK l \in Labels \ (QuitLabels \cup {"request"}) : Goto(c, l)
  BY <1>3 DEF Moves, Elsewhere
<1>5. pc' \in [Callers -> Labels] /\ pc'[c] = l /\ \A d \in Callers \ {c} : pc'[d] = pc[d]
  BY <1>4 DEF Goto
<1>6. \A d \in Callers : pc'[d] \notin QuitLabels
  BY <1>2, <1>5, HolderAlone
<1>7. initialized' \in BOOLEAN
  BY DEF FinishLaunch, LaunchFails
<1>8. TypeOK' /\ CalledInv'
  <2>1. gen \in 1..gen
    BY <1>1, <1>2 DEF LaunchInv
  <2>2. browsers' \subseteq 1..gen /\ failed' \subseteq 1..gen
    BY <1>1, <2>1
  <2> QED
    BY <1>1, <1>3, <1>5, <1>7, <2>2 DEF OwnChange, CalledInv
<1>9. QuitInv' /\ LaunchInv' /\ LostOnlyByFailure'
  BY <1>1, <1>6 DEF QuitInv, LaunchInv, LostOnlyByFailure
<1>10. IdleInv' /\ ReadyMeansUsable'
  <2>1. CASE FinishLaunch(c)
    <3>1. initialized' /\ factory # 0 /\ driver \in browsers
      BY <1>2, <2>1 DEF FinishLaunch, LaunchInv
    <3> QED
      BY <1>1, <3>1 DEF IdleInv, ReadyMeansUsable
  <2>2. CASE LaunchFails(c)
    <3>1. ~initialized' /\ (driver = 0 \/ driver \in failed)
      BY <1>2, <2>2 DEF LaunchFails, LaunchInv, IdleInv
    <3> QED
      BY <1>1, <3>1 DEF IdleInv, ReadyMeansUsable
  <2> QED
    BY <2>1, <2>2
<1> QED
  BY <1>8, <1>9, <1>10

-----------------------------------------------------------------------------
(* The shutdown. *)

LEMMA StartShutdownKeepsInv ==
    ASSUME Inv, NEW c \in Callers, StartShutdown(c)
    PROVE  Inv'
<1> USE CallersAreNotNone DEF Inv, TypeOK, StartShutdown
<1> DEFINE l == IF driver = 0 THEN "quit" ELSE "quitting"
<1>1. l \in Labels /\ l \in QuitLabels /\ l # "request"
  BY DEF Labels, QuitLabels
<1>2. pc' \in [Callers -> Labels] /\ pc'[c] = l /\ \A d \in Callers \ {c} : pc'[d] = pc[d]
  BY <1>1 DEF Goto
<1>3. \A d \in Callers : pc[d] \notin QuitLabels
  BY DEF QuitInv
<1>4. TypeOK' /\ CalledInv'
  <2>1. bound' \in [Callers -> Nat]
    OBVIOUS
  <2> QED
    BY <1>1, <1>2, <2>1 DEF CalledInv
<1>5. QuitInv'
  BY <1>1, <1>2, <1>3 DEF QuitInv
<1>6. LaunchInv' /\ IdleInv'
  BY <1>1, <1>2 DEF LaunchInv, IdleInv
<1>7. LostOnlyByFailure' /\ ReadyMeansUsable'
  BY <1>1, <1>2 DEF LostOnlyByFailure, ReadyMeansUsable, Quitting, QuitLabels
<1> QED
  BY <1>4, <1>5, <1>6, <1>7

LEMMA QuitKeepsInv ==
    ASSUME Inv, NEW c \in Callers, Quit(c) \/ QuitFails(c)
    PROVE  Inv'
<1> USE CallersAreNotNone DEF Inv, TypeOK
<1>1. pc[c] = "quitting" /\ UNCHANGED <<initialized, driver, factory, gen, toolsLock, op, bound>>
  BY DEF Quit, QuitFails
<1>2. toolsLock = c /\ bound[c] = driver /\ driver # 0
  BY <1>1 DEF QuitInv, QuitLabels
<1>3. PICK l \in {"quit", "quit_raised"} :
        /\ Goto(c, l)
        /\ browsers' \in {browsers, browsers \ {driver}}
        /\ failed' \in {failed, failed \cup {driver}}
        /\ l = "quit" => browsers' = browsers \ {driver} /\ failed' = failed
        /\ l = "quit_raised" => failed' = failed \cup {driver}
  <2>1. CASE Quit(c)
    BY <1>2, <2>1 DEF Quit
  <2>2. CASE QuitFails(c)
    BY <1>2, <2>2 DEF QuitFails
  <2> QED
    BY <2>1, <2>2
<1>4. l \in Labels /\ l \in QuitLabels /\ l # "request"
  BY DEF Labels, QuitLabels
<1>5. pc' \in [Callers -> Labels] /\ pc'[c] = l /\ \A d \in Callers \ {c} : pc'[d] = pc[d]
  BY <1>3, <1>4 DEF Goto
<1>6. \A d \in Callers \ {c} : pc'[d] \notin QuitLabels
  BY <1>2, <1>5, HolderAlone
<1>7. TypeOK' /\ CalledInv'
  BY <1>1, <1>2, <1>3, <1>4, <1>5 DEF CalledInv
<1>8. QuitInv'
  BY <1>1, <1>2, <1>3, <1>5, <1>6 DEF QuitInv
<1>9. LaunchInv' /\ IdleInv'
  <2>1. pc[c] \notin BeforeInitialize
    BY <1>1 DEF BeforeInitialize
  <2> QED
    BY <1>1, <1>2, <1>3, <1>4, <1>5, <2>1 DEF LaunchInv, IdleInv
<1>10. LostOnlyByFailure' /\ ReadyMeansUsable'
  BY <1>1, <1>3, <1>4, <1>5 DEF LostOnlyByFailure, ReadyMeansUsable, Quitting, QuitLabels
<1> QED
  BY <1>7, <1>8, <1>9, <1>10

LEMMA FinishShutdownKeepsInv ==
    ASSUME Inv, NEW c \in Callers, FinishShutdown(c)
    PROVE  Inv'
<1> USE CallersAreNotNone DEF Inv, TypeOK
<1>1. /\ pc[c] \in {"quit", "quit_raised"} /\ factory' = 0 /\ ~initialized'
      /\ toolsLock' = None /\ UNCHANGED <<gen, browsers, failed>>
      /\ driver' = IF pc[c] = "quit" THEN 0 ELSE driver
      /\ initialized' \in BOOLEAN
  BY DEF FinishShutdown
<1>2. toolsLock = c /\ (pc[c] = "quit" => driver \notin browsers)
      /\ (pc[c] = "quit_raised" => driver \in failed)
  BY <1>1 DEF QuitInv, QuitLabels
<1>3. Moves(c) /\ OwnChange(c)
  BY ReturnMoves DEF FinishShutdown
<1>4. PICK l \in Labels \ (QuitLabels \cup {"request"}) : Goto(c, l)
  BY <1>3 DEF Moves, Elsewhere
<1>5. pc' \in [Callers -> Labels] /\ pc'[c] = l /\ \A d \in Callers \ {c} : pc'[d] = pc[d]
  BY <1>4 DEF Goto
<1>6. \A d \in Callers : pc'[d] \notin QuitLabels
  BY <1>2, <1>5, HolderAlone
<1>7. TypeOK' /\ CalledInv'
  BY <1>1, <1>3, <1>5 DEF OwnChange, CalledInv
<1>8. QuitInv' /\ LaunchInv' /\ IdleInv'
  BY <1>1, <1>2, <1>6 DEF QuitInv, LaunchInv, IdleInv
<1>9. LostOnlyByFailure' /\ ReadyMeansUsable'
  BY <1>1, <1>2 DEF LostOnlyByFailure, ReadyMeansUsable
<1> QED
  BY <1>7, <1>8, <1>9

-----------------------------------------------------------------------------
\* A caller's calls and the steps that neither launch nor quit.
LEMMA CallerKeepsInv ==
    ASSUME Inv, NEW c \in Callers,
           \/ TakeRequestLock(c) \/ IsInitialized(c) \/ Get(c) \/ GetFails(c) \/ Act(c)
           \/ ReadPage(c) \/ Answer(c) \/ CreateAgent(c) \/ CreateFails(c)
           \/ AdapterReturns(c) \/ Restore(c) \/ \E o \in Ops : Call(c, o)
    PROVE  Inv'
<1> USE CallersAreNotNone DEF Inv, TypeOK
<1>1. ASSUME NEW o \in HttpOps PROVE FirstStep(o) \in Labels \ (QuitLabels \cup {"request"})
  BY <1>1 DEF FirstStep, HttpOps, Labels, BeforeInitialize, QuitLabels
<1>2. UNCHANGED <<initialized, driver, factory, gen, browsers, failed, toolsLock>>
  BY DEF TakeRequestLock, IsInitialized, Get, GetFails, Act, ReadPage, Answer, CreateAgent,
         CreateFails, AdapterReturns, Restore, Call
<1>3. c # toolsLock
  <2>1. pc[c] \notin QuitLabels /\ (pc[c] \in BeforeInitialize => initialized)
    BY DEF TakeRequestLock, IsInitialized, Get, GetFails, Act, ReadPage, Answer, CreateAgent,
           CreateFails, AdapterReturns, Restore, Call, QuitLabels, BeforeInitialize
  <2> QED
    BY <2>1 DEF LaunchInv
<1>4. CASE \E o \in Ops : Call(c, o)
  <2>1. PICK o \in HttpOps : Call(c, o)
    BY <1>4, BrowserAssumption
  <2>2. OwnChange(c) /\ op'[c] \in HttpOps
    BY <2>1 DEF Call, OwnChange
  <2>3. PICK l \in Labels \ QuitLabels : Goto(c, l)
    <3>1. "request" \in Labels \ QuitLabels
      BY DEF Labels, QuitLabels
    <3> QED
      BY <1>1, <2>1, <3>1 DEF Call
  <2> QED
    BY <1>2, <1>3, <2>2, <2>3, OthersKeepInv
<1>5. CASE TakeRequestLock(c)
  <2>1. Goto(c, FirstStep(op[c])) /\ op[c] \in HttpOps
    BY <1>5 DEF TakeRequestLock, CalledInv
  <2>2. FirstStep(op[c]) \in Labels \ (QuitLabels \cup {"request"})
    BY <1>1, <2>1
  <2>3. OwnChange(c)
    BY <1>5 DEF TakeRequestLock, OwnChange
  <2> QED
    BY <1>2, <1>3, <2>1, <2>2, <2>3, OthersKeepInv
<1>6. ASSUME Moves(c), OwnChange(c) PROVE Inv'
  <2>1. PICK l \in Labels \ (QuitLabels \cup {"request"}) : Goto(c, l)
    BY <1>6 DEF Moves, Elsewhere
  <2> QED
    BY <1>2, <1>3, <1>6, <2>1, OthersKeepInv
<1>7. CASE IsInitialized(c)
  BY <1>6, <1>7, ContinueMoves DEF IsInitialized
<1>8. CASE Answer(c) \/ Restore(c)
  BY <1>6, <1>8, StateReadMoves, ReturnMoves DEF Answer, Restore
<1>9. CASE \/ Get(c) \/ GetFails(c) \/ Act(c) \/ ReadPage(c) \/ CreateAgent(c)
           \/ CreateFails(c) \/ AdapterReturns(c)
  <2>1. PICK l \in {"get_state", "answering", "running", "restoring"} : Goto(c, l)
    BY <1>9 DEF Get, GetFails, Act, ReadPage, CreateAgent, CreateFails, AdapterReturns
  <2>2. l \in Elsewhere
    BY DEF Elsewhere, Labels, BeforeInitialize, QuitLabels
  <2>3. UNCHANGED <<op, bound>>
    BY <1>9 DEF Get, GetFails, Act, ReadPage, CreateAgent, CreateFails, AdapterReturns
  <2>4. OwnChange(c)
    BY <2>3 DEF OwnChange
  <2> QED
    BY <1>6, <2>1, <2>2, <2>4 DEF Moves
<1> QED
  BY <1>4, <1>5, <1>7, <1>8, <1>9

LEMMA InvHolds == Spec => []Inv
<1>1. Init => Inv
  <2> SUFFICES ASSUME Init PROVE Inv
    OBVIOUS
  <2> USE DEF Init
  <2>1. TypeOK
    <3>1. pc \in [Callers -> Labels]
      BY DEF Labels
    <3>2. op \in [Callers -> HttpOps \cup {None}] /\ bound \in [Callers -> Nat]
      OBVIOUS
    <3>3. gen = 0 /\ driver = 0 /\ factory = 0 /\ browsers = {} /\ failed = {} /\ toolsLock = None
      OBVIOUS
    <3>4. initialized \in BOOLEAN
      OBVIOUS
    <3> QED
      BY <3>1, <3>2, <3>3, <3>4 DEF TypeOK
  <2>2. CalledInv /\ QuitInv /\ LaunchInv /\ IdleInv
    BY DEF CalledInv, QuitInv, LaunchInv, IdleInv, QuitLabels
  <2>3. LostOnlyByFailure /\ ReadyMeansUsable
    BY DEF LostOnlyByFailure, ReadyMeansUsable
  <2> QED
    BY <2>1, <2>2, <2>3 DEF Inv
<1>2. Inv /\ [Next]_vars => Inv'
  <2> SUFFICES ASSUME Inv, [Next]_vars PROVE Inv'
    OBVIOUS
  <2>1. ASSUME NEW c \in Callers, Step(c) PROVE Inv'
    BY <2>1, CallerKeepsInv, StartLaunchKeepsInv, LaunchBrowserKeepsInv, LaunchEndsKeepsInv,
       StartShutdownKeepsInv, QuitKeepsInv, FinishShutdownKeepsInv DEF Step
  <2>2. ASSUME NEW c \in Callers, NEW o \in Ops, Call(c, o) PROVE Inv'
    BY <2>2, CallerKeepsInv
  <2>3. ASSUME NEW c \in Callers, AgentActs(c) PROVE Inv'
    BY <2>3, QuietKeepsInv DEF AgentActs
  <2>4. ASSUME NEW g \in Gens, OverrunActs(g) \/ OverrunEnds(g) PROVE Inv'
    BY <2>4, QuietKeepsInv DEF OverrunActs, OverrunEnds
  <2>5. CASE UNCHANGED vars
    BY <2>5, QuietKeepsInv DEF vars
  <2> QED
    BY <2>1, <2>2, <2>3, <2>4, <2>5 DEF Next
<1> QED
  BY <1>1, <1>2, PTL DEF Spec

\* Type correctness: browser, factory and generation belong together, and the
\* lock is nobody's or a caller's.
THEOREM BrowserTypeOK == Spec => []TypeOK
BY InvHolds, PTL DEF Inv

\* Whoever gets past initialize() finds a factory and a running browser,
\* unless a shutdown is on its way through quit.
THEOREM ReadyIsUsable == Spec => []ReadyMeansUsable
BY InvHolds, PTL DEF Inv

\* No launch, however it races with shutdowns and other launches, leaves a
\* browser behind: only one whose own launch or quit raised can run beside the
\* tools' own.
THEOREM NoLostBrowser == Spec => []LostOnlyByFailure
BY InvHolds, PTL DEF Inv

-----------------------------------------------------------------------------
(* How many launches there can be: one for each that failed and for each    *)
(* shutdown, and one more, that has been made or is being made.             *)

Pending == {c \in Callers : op[c] = "shutdown"}
Opened == initialized \/ (toolsLock # None /\ pc[toolsLock] \in BeforeInitialize)
CountInv == gen + Cardinality(Pending) <= failures + shutdowns + (IF Opened THEN 1 ELSE 0)
BudgetInv ==
    /\ shutdowns \in 0 .. MaxShutdowns /\ failures \in 0 .. MaxFailures
    /\ IsFiniteSet(Pending)
    /\ \A c \in Callers : pc[c] \in QuitLabels \cup {"shutdown"} => op[c] = "shutdown"
    /\ CountInv

\* Steps that begin no launch and no shutdown, and undo none without paying.
LEMMA NothingOpens ==
    ASSUME Inv, BudgetInv, Pending' \subseteq Pending, gen' = gen,
           shutdowns' = shutdowns, failures' \in failures .. MaxFailures,
           \/ Opened => Opened'
           \/ failures' = failures + 1
           \/ \E c \in Pending : Pending' = Pending \ {c}
    PROVE  shutdowns' \in 0 .. MaxShutdowns /\ failures' \in 0 .. MaxFailures /\ IsFiniteSet(Pending') /\ CountInv'
<1>1. gen \in Nat /\ shutdowns \in Nat /\ failures \in Nat /\ failures' \in Nat
  BY BrowserAssumption DEF Inv, TypeOK, BudgetInv
<1>2. /\ IsFiniteSet(Pending') /\ Cardinality(Pending') \in Nat /\ Cardinality(Pending) \in Nat
      /\ Cardinality(Pending') <= Cardinality(Pending)
  BY FS_Subset, FS_CardinalityType DEF BudgetInv
<1>3. CASE \E c \in Pending : Pending' = Pending \ {c}
  <2>1. Cardinality(Pending') = Cardinality(Pending) - 1
    BY <1>3, FS_RemoveElement DEF BudgetInv
  <2> HIDE DEF Pending, Opened
  <2> QED
    BY <1>1, <1>2, <2>1 DEF BudgetInv, CountInv
<1>4. CASE (Opened => Opened') \/ failures' = failures + 1
  <2> HIDE DEF Pending, Opened
  <2> QED
    BY <1>1, <1>2, <1>4 DEF BudgetInv, CountInv
<1> QED
  BY <1>3, <1>4

LEMMA CallKeepsBudget ==
    ASSUME Inv, BudgetInv, NEW c \in Callers, NEW o \in HttpOps, Call(c, o)
    PROVE  BudgetInv'
<1> USE CallersAreNotNone DEF Inv, TypeOK
<1>1. Opened <=> Opened'
  <2>1. c = toolsLock => pc[c] \in BeforeInitialize
    BY DEF Call, QuitInv, LaunchInv, QuitLabels
  <2>2. c # toolsLock
    BY <2>1 DEF Call, BeforeInitialize
  <2> QED
    BY <2>2 DEF Call, Opened, Goto
<1>2. \A d \in Callers : pc'[d] \in QuitLabels \cup {"shutdown"} => op'[d] = "shutdown"
  BY DEF Call, Goto, FirstStep, HttpOps, QuitLabels, BudgetInv
<1>3. CASE o = "shutdown"
  <2>1. Pending' = Pending \cup {c} /\ shutdowns' = shutdowns + 1 /\ shutdowns < MaxShutdowns /\ UNCHANGED <<gen, failures>>
    BY <1>3 DEF Call, Pending
  <2>2. /\ IsFiniteSet(Pending') /\ Cardinality(Pending') \in Nat /\ Cardinality(Pending) \in Nat
        /\ Cardinality(Pending') <= Cardinality(Pending) + 1
    <3> HIDE DEF Pending
    <3>1. IsFiniteSet(Pending)
      BY DEF BudgetInv
    <3>2. IsFiniteSet(Pending') /\ Cardinality(Pending') \in {Cardinality(Pending), Cardinality(Pending) + 1}
      BY <2>1, <3>1, FS_AddElement
    <3>3. Cardinality(Pending) \in Nat
      BY <3>1, FS_CardinalityType
    <3> QED
      BY <3>2, <3>3
  <2>3. CountInv'
    <3> HIDE DEF Pending, Opened
    <3> QED
      BY <1>1, <2>1, <2>2, BrowserAssumption DEF BudgetInv, CountInv
  <2> QED
    BY <1>2, <2>1, <2>2, <2>3, BrowserAssumption DEF BudgetInv
<1>4. CASE o # "shutdown"
  <2>1. Pending' \subseteq Pending /\ UNCHANGED <<gen, shutdowns, failures>>
    BY <1>4 DEF Call, Pending
  <2>2. failures' \in failures .. MaxFailures
    BY <2>1, BrowserAssumption DEF BudgetInv
  <2> QED
    BY <1>1, <1>2, <2>1, <2>2, NothingOpens DEF BudgetInv
<1> QED
  BY <1>3, <1>4

\* Where a step that ends no quit leaves a caller, it may be called for
\* anything but is not shutting down.
LEMMA MovesKeepBudget ==
    ASSUME Inv, BudgetInv, NEW c \in Callers, Moves(c), OwnChange(c), op'[c] \in {op[c], None, "navigate"},
           gen' = gen, shutdowns' = shutdowns, failures' \in failures .. MaxFailures,
           \/ Opened => Opened'
           \/ failures' = failures + 1
           \/ op[c] = "shutdown" /\ op'[c] = None
    PROVE  BudgetInv'
<1>0. None # "shutdown"
  BY BrowserAssumption DEF HttpOps
<1>1. PICK l \in Elsewhere : Goto(c, l)
  BY DEF Moves
<1>2. pc'[c] = l /\ l \notin QuitLabels \cup {"shutdown"} /\ \A d \in Callers \ {c} : pc'[d] = pc[d]
  BY <1>1 DEF Goto, Inv, TypeOK, Elsewhere
<1>3. \A d \in Callers : pc'[d] \in QuitLabels \cup {"shutdown"} => op'[d] = "shutdown"
  BY <1>1, <1>2 DEF BudgetInv, OwnChange
<1>4. Pending' \subseteq Pending
  BY <1>0 DEF Pending, OwnChange
<1>5. op[c] = "shutdown" /\ op'[c] = None => c \in Pending /\ Pending' = Pending \ {c}
  BY <1>0 DEF Pending, OwnChange
<1> QED
  BY <1>3, <1>4, <1>5, NothingOpens DEF BudgetInv

\* What returning, reading the state and going on after initialize() do to op.
LEMMA OpsOf ==
    ASSUME Inv, NEW c \in Callers, Return(c) \/ StateRead(c) \/ Continue(c)
    PROVE  op'[c] \in {op[c], None, "navigate"}
BY DEF Return, StateRead, ReplaceCookies, Continue, DispatchCall, ReadUrl, PatchCreateAgent, Inv, TypeOK

LEMMA LaunchKeepsBudget ==
    ASSUME Inv, BudgetInv, NEW c \in Callers, StartLaunch(c) \/ LaunchBrowser(c) \/ FinishLaunch(c) \/ LaunchFails(c)
    PROVE  BudgetInv'
<1> USE CallersAreNotNone DEF Inv, TypeOK
<1>1. CASE StartLaunch(c)
  <2>1. /\ ~Opened /\ Opened' /\ gen' = gen + 1
        /\ UNCHANGED <<Pending, pc, op, shutdowns, failures>>
    BY <1>1 DEF StartLaunch, Opened, Pending
  <2>2. Cardinality(Pending) \in Nat /\ IsFiniteSet(Pending')
    BY <2>1, FS_CardinalityType DEF BudgetInv
  <2>3. CountInv'
    <3> HIDE DEF Pending, Opened
    <3> QED
      BY <2>1, <2>2, BrowserAssumption DEF BudgetInv, CountInv
  <2> QED
    BY <2>1, <2>2, <2>3 DEF BudgetInv
<1>2. CASE LaunchBrowser(c)
  <2>1. (Opened => Opened') /\ UNCHANGED <<Pending, pc, op, gen, shutdowns, failures>>
    BY <1>2 DEF LaunchBrowser, Opened, Pending
  <2>2. failures' \in failures .. MaxFailures
    BY <2>1, BrowserAssumption DEF BudgetInv
  <2> QED
    BY <2>1, <2>2, NothingOpens DEF BudgetInv
<1>3. CASE FinishLaunch(c) \/ LaunchFails(c)
  <2>1. Moves(c) /\ OwnChange(c) /\ op'[c] \in {op[c], None, "navigate"}
    BY <1>3, ContinueMoves, StateReadMoves, ReturnMoves, OpsOf DEF FinishLaunch, LaunchFails
  <2>2. UNCHANGED <<gen, shutdowns>> /\ (Opened' \/ failures' = failures + 1)
    BY <1>3 DEF FinishLaunch, LaunchFails, Opened
  <2>3. failures' \in failures .. MaxFailures
    BY <1>3, BrowserAssumption DEF FinishLaunch, LaunchFails, BudgetInv
  <2> QED
    BY <2>1, <2>2, <2>3, MovesKeepBudget
<1> QED
  BY <1>1, <1>2, <1>3

LEMMA ShutdownKeepsBudget ==
    ASSUME Inv, BudgetInv, NEW c \in Callers, StartShutdown(c) \/ Quit(c) \/ QuitFails(c) \/ FinishShutdown(c)
    PROVE  BudgetInv'
<1> USE CallersAreNotNone DEF Inv, TypeOK
<1>1. op[c] = "shutdown"
  BY DEF StartShutdown, Quit, QuitFails, FinishShutdown, BudgetInv, QuitLabels
<1>2. CASE StartShutdown(c) \/ Quit(c) \/ QuitFails(c)
  <2>1. Opened => Opened'
    BY <1>2 DEF StartShutdown, Quit, QuitFails, Opened, BeforeInitialize, Goto, QuitInv, QuitLabels
  <2>2. UNCHANGED <<op, gen, shutdowns>> /\ Pending' = Pending
    BY <1>2 DEF StartShutdown, Quit, QuitFails, Pending
  <2>3. failures' \in failures .. MaxFailures
    BY <1>2, BrowserAssumption DEF StartShutdown, Quit, QuitFails, BudgetInv
  <2>4. \A d \in Callers \ {c} : pc'[d] = pc[d]
    BY <1>2 DEF StartShutdown, Quit, QuitFails, Goto
  <2> QED
    BY <1>1, <2>1, <2>2, <2>3, <2>4, NothingOpens DEF BudgetInv
<1>3. CASE FinishShutdown(c)
  <2>1. Moves(c) /\ OwnChange(c) /\ op'[c] = None
    BY <1>3, ReturnMoves DEF FinishShutdown, Return
  <2>2. UNCHANGED <<gen, shutdowns, failures>>
    BY <1>3 DEF FinishShutdown
  <2>3. failures' \in failures .. MaxFailures
    BY <2>2, BrowserAssumption DEF BudgetInv
  <2> QED
    BY <1>1, <2>1, <2>2, <2>3, MovesKeepBudget
<1> QED
  BY <1>2, <1>3

\* The steps that neither launch nor quit.
LEMMA CallerKeepsBudget ==
    ASSUME Inv, BudgetInv, NEW c \in Callers,
           \/ TakeRequestLock(c) \/ IsInitialized(c) \/ Get(c) \/ GetFails(c) \/ Act(c)
           \/ ReadPage(c) \/ Answer(c) \/ CreateAgent(c) \/ CreateFails(c)
           \/ AdapterReturns(c) \/ Restore(c)
    PROVE  BudgetInv'
<1> USE CallersAreNotNone DEF Inv, TypeOK
<1>1. UNCHANGED <<initialized, gen, shutdowns, failures, toolsLock>>
  BY DEF TakeRequestLock, IsInitialized, Get, GetFails, Act, ReadPage, Answer, CreateAgent,
         CreateFails, AdapterReturns, Restore
<1>2. c # toolsLock
  <2>1. pc[c] \notin QuitLabels /\ (pc[c] \in BeforeInitialize => initialized)
    BY DEF TakeRequestLock, IsInitialized, Get, GetFails, Act, ReadPage, Answer, CreateAgent,
           CreateFails, AdapterReturns, Restore, QuitLabels, BeforeInitialize
  <2> QED
    BY <2>1 DEF LaunchInv
<1>3. \A d \in Callers \ {c} : pc'[d] = pc[d]
  <2>1. ASSUME Return(c) \/ StateRead(c) \/ Continue(c) PROVE \A d \in Callers \ {c} : pc'[d] = pc[d]
    BY <2>1, ReturnMoves, StateReadMoves, ContinueMoves DEF Moves, Goto
  <2> QED
    BY <2>1 DEF TakeRequestLock, IsInitialized, Get, GetFails, Act, ReadPage, Answer, CreateAgent,
         CreateFails, AdapterReturns, Restore, Goto
<1>4. Opened => Opened'
  BY <1>1, <1>2, <1>3 DEF Opened
<1>5. failures' \in failures .. MaxFailures
  BY <1>1, BrowserAssumption DEF BudgetInv
<1>6. ASSUME Moves(c), OwnChange(c), op'[c] \in {op[c], None, "navigate"} PROVE BudgetInv'
  BY <1>1, <1>4, <1>5, <1>6, MovesKeepBudget
<1>7. CASE IsInitialized(c) \/ Answer(c) \/ Restore(c)
  BY <1>6, <1>7, ContinueMoves, StateReadMoves, ReturnMoves, OpsOf DEF IsInitialized, Answer, Restore
<1>8. CASE TakeRequestLock(c)
  <2>1. UNCHANGED <<op, Pending>> /\ Goto(c, FirstStep(op[c])) /\ op[c] \in HttpOps
    BY <1>8 DEF TakeRequestLock, Pending, CalledInv
  <2>2. pc'[c] \in QuitLabels \cup {"shutdown"} => op'[c] = "shutdown"
    BY <2>1 DEF Goto, FirstStep, HttpOps, QuitLabels
  <2> QED
    BY <1>1, <1>3, <1>4, <1>5, <2>1, <2>2, NothingOpens DEF BudgetInv
<1>9. CASE \/ Get(c) \/ GetFails(c) \/ Act(c) \/ ReadPage(c) \/ CreateAgent(c)
           \/ CreateFails(c) \/ AdapterReturns(c)
  <2>1. PICK l \in {"get_state", "answering", "running", "restoring"} : Goto(c, l)
    BY <1>9 DEF Get, GetFails, Act, ReadPage, CreateAgent, CreateFails, AdapterReturns
  <2>2. l \in Elsewhere
    BY DEF Elsewhere, Labels, BeforeInitialize, QuitLabels
  <2>3. UNCHANGED <<op, bound>>
    BY <1>9 DEF Get, GetFails, Act, ReadPage, CreateAgent, CreateFails, AdapterReturns
  <2> QED
    BY <1>6, <2>1, <2>2, <2>3 DEF Moves, OwnChange
<1> QED
  BY <1>7, <1>8, <1>9

\* Steps that leave alone everything the budget speaks of.
LEMMA QuietKeepsBudget ==
    ASSUME BudgetInv, UNCHANGED <<initialized, gen, toolsLock, pc, op, shutdowns, failures>>
    PROVE  BudgetInv'
BY DEF BudgetInv, CountInv, Pending, Opened

LEMMA BudgetInvHolds == Spec => [](Inv /\ BudgetInv)
<1>1. Init => BudgetInv
  <2> SUFFICES ASSUME Init PROVE BudgetInv
    OBVIOUS
  <2>1. Pending = {} /\ ~Opened
    BY BrowserAssumption DEF Init, Pending, Opened, HttpOps
  <2>2. IsFiniteSet(Pending) /\ Cardinality(Pending) = 0
    BY <2>1, FS_EmptySet
  <2>3. CountInv
    <3> HIDE DEF Pending, Opened
    <3> QED
      BY <2>1, <2>2 DEF Init, CountInv
  <2> QED
    BY <2>2, <2>3, BrowserAssumption DEF Init, BudgetInv, QuitLabels
<1>2. Inv /\ BudgetInv /\ [Next]_vars => BudgetInv'
  <2> SUFFICES ASSUME Inv, BudgetInv, [Next]_vars PROVE BudgetInv'
    OBVIOUS
  <2>1. ASSUME NEW c \in Callers, Step(c) PROVE BudgetInv'
    BY <2>1, CallerKeepsBudget, LaunchKeepsBudget, ShutdownKeepsBudget DEF Step
  <2>2. ASSUME NEW c \in Callers, NEW o \in Ops, Call(c, o) PROVE BudgetInv'
    BY <2>2, CallKeepsBudget, BrowserAssumption
  <2>3. ASSUME NEW c \in Callers, AgentActs(c) PROVE BudgetInv'
    BY <2>3, QuietKeepsBudget DEF AgentActs
  <2>4. ASSUME NEW g \in Gens, OverrunActs(g) \/ OverrunEnds(g) PROVE BudgetInv'
    BY <2>4, QuietKeepsBudget DEF OverrunActs, OverrunEnds
  <2>5. CASE UNCHANGED vars
    BY <2>5, QuietKeepsBudget DEF vars
  <2> QED
    BY <2>1, <2>2, <2>3, <2>4, <2>5 DEF Next
<1> QED
  BY <1>1, <1>2, InvHolds, PTL DEF Spec

\* No launch has a number out of bounds.
LEMMA GensSuffice == Inv /\ BudgetInv => gen \in 0 .. 1 + MaxShutdowns + MaxFailures
<1> SUFFICES ASSUME Inv, BudgetInv PROVE gen \in 0 .. 1 + MaxShutdowns + MaxFailures
  OBVIOUS
<1>1. Cardinality(Pending) \in Nat
  BY FS_CardinalityType DEF BudgetInv
<1> HIDE DEF Pending, Opened
<1> QED
  BY <1>1, BrowserAssumption DEF BudgetInv, CountInv, Inv, TypeOK

-----------------------------------------------------------------------------
(* Requests by HTTP only: whoever is past "request" holds _request_lock.     *)

TaskLabels == {"creating", "running", "restoring"}
PageNames == Callers \cup {None, Blank, Agent}
Made == [home : Nat, patches : Seq(Callers \cup {None})]

HttpTypes ==
    /\ page \in [Gens -> PageNames] /\ create \in [Gens -> Made]
    /\ saved \in [Callers -> Made] /\ reply \in [Callers -> [url : PageNames, html : PageNames]]
SerialInv ==
    /\ reqLock \in Callers \cup {None}
    /\ \A c \in Callers : reqLock = c <=> pc[c] \notin {"idle", "request"}

\* Only the current factory's create_agent is ever patched, by the caller whose
\* task it is, which has kept the factory's own.
Untouched == \A g \in Gens : create[g] = Original(g)
TaskInv ==
    \/ Untouched /\ \A c \in Callers : pc[c] \notin TaskLabels
    \/ \E c \in Callers :
         /\ reqLock = c /\ pc[c] \in TaskLabels /\ factory \in Gens /\ saved[c] = Original(factory)
         /\ \A g \in Gens \ {factory} : create[g] = Original(g)

\* What a caller is told is of one page, its own after a navigation, unless an
\* agent was seen on it.
Navigates(c) == op[c] \in {"navigate", "inject"}
Told(c) ==
    \/ reply[c] = NoReply \/ Agent \in {reply[c].url, reply[c].html}
    \/ reply[c].url = reply[c].html /\ (Navigates(c) => reply[c].url = c)
PageOf(c) ==
    /\ pc[c] \in {"idle", "request", "act", "acting"} => reply[c] = NoReply
    /\ pc[c] \in {"navigate", "getting"} => Navigates(c) /\ Told(c)
    /\ pc[c] = "getting" => bound[c] = driver
    /\ pc[c] \in {"getting", "reading"} => initialized
    /\ pc[c] = "get_state" /\ Navigates(c) => initialized /\ page[driver] \in {c, Agent}
    /\ pc[c] = "reading" => \/ Agent \in {reply[c].url, page[driver]}
                            \/ reply[c].url = page[driver] /\ (Navigates(c) => reply[c].url = c)
    /\ pc[c] = "answering" => Told(c)
PageInv == \A c \in Callers : PageOf(c)

HttpInv == HttpTypes /\ SerialInv /\ TaskInv /\ PageInv
AllInv == Inv /\ BudgetInv /\ HttpInv

\* Browsers are of generations that have a number in bounds.
LEMMA BrowsersInBounds ==
    ASSUME AllInv
    PROVE  browsers \subseteq Gens /\ (factory # 0 => factory \in Gens)
BY GensSuffice, BrowserAssumption DEF AllInv, Inv, TypeOK, Gens

\* The caller whose step it is has the others at rest.
Alone(c) ==
    /\ reqLock = c
    /\ \A d \in Callers \ {c} : pc'[d] = pc[d] /\ op'[d] = op[d] /\ reply'[d] = reply[d]

LEMMA AloneKeepsPages ==
    ASSUME AllInv, NEW c \in Callers, Alone(c), PageOf(c)'
    PROVE  PageInv'
<1> SUFFICES ASSUME NEW d \in Callers, d # c PROVE PageOf(d)'
  BY DEF PageInv
<1>1. pc[d] \in {"idle", "request"} /\ pc'[d] = pc[d] /\ reply'[d] = NoReply
  BY DEF Alone, AllInv, HttpInv, SerialInv, PageInv, PageOf
<1> QED
  BY <1>1 DEF PageOf

LEMMA AloneKeepsSerial ==
    ASSUME AllInv, NEW c \in Callers, Alone(c),
           \/ reqLock' = c /\ pc'[c] \notin {"idle", "request"}
           \/ reqLock' = None /\ pc'[c] = "idle"
    PROVE  SerialInv'
BY CallersAreNotNone DEF Alone, AllInv, HttpInv, SerialInv

LEMMA NoTask ==
    ASSUME AllInv, NEW c \in Callers, reqLock = c, pc[c] \notin TaskLabels
    PROVE  Untouched /\ \A d \in Callers : pc[d] \notin TaskLabels
BY DEF AllInv, HttpInv, SerialInv, TaskInv, TaskLabels

\* A step outside of a task, whatever it does to the factory.
LEMMA AloneKeepsNoTask ==
    ASSUME AllInv, NEW c \in Callers, Alone(c), pc[c] \notin TaskLabels, pc'[c] \notin TaskLabels, create' = create
    PROVE  TaskInv'
BY NoTask DEF Alone, TaskInv, Untouched

LEMMA ReturnKeepsHttp ==
    ASSUME AllInv, NEW c \in Callers, reqLock = c, Return(c), page' = page,
           create' \in [Gens -> Made], Untouched', \A d \in Callers \ {c} : pc[d] \notin TaskLabels
    PROVE  HttpInv'
<1> USE DEF AllInv, HttpInv, Inv, TypeOK
<1>1. Alone(c) /\ pc'[c] = "idle" /\ reqLock' = None /\ reply'[c] = NoReply
  BY DEF Alone, Return, Goto, HttpTypes
<1>2. HttpTypes'
  <2>1. Original(0) \in Made
    BY DEF Original, Made
  <2>2. NoReply \in [url : PageNames, html : PageNames]
    BY DEF NoReply, PageNames
  <2> QED
    BY <2>1, <2>2 DEF HttpTypes, Return
<1>3. PageOf(c)'
  BY <1>1 DEF PageOf
<1>4. TaskInv'
  BY <1>1 DEF TaskInv, TaskLabels, Alone
<1> QED
  BY <1>1, <1>2, <1>3, <1>4, AloneKeepsPages, AloneKeepsSerial

\* A caller goes from one place to another, outside of tasks.
LEMMA GoesKeepsHttp ==
    ASSUME AllInv, NEW c \in Callers, reqLock = c, reqLock' = c, pc[c] \notin TaskLabels,
           NEW l \in Labels, l \notin {"idle", "request"} \cup TaskLabels, pc' = [pc EXCEPT ![c] = l],
           HttpTypes', PageOf(c)', create' = create,
           \A d \in Callers \ {c} : op'[d] = op[d] /\ reply'[d] = reply[d]
    PROVE  HttpInv'
<1> USE DEF AllInv, HttpInv, Inv, TypeOK
<1>1. Alone(c) /\ pc'[c] = l
  BY DEF Alone
<1>2. TaskInv'
  BY <1>1, AloneKeepsNoTask
<1> QED
  BY <1>1, <1>2, AloneKeepsPages, AloneKeepsSerial

LEMMA CallKeepsHttp ==
    ASSUME AllInv, NEW c \in Callers, NEW o \in Ops, Gateway = {}, Call(c, o)
    PROVE  HttpInv'
<1> USE DEF AllInv, HttpInv, Inv, TypeOK
<1>1. /\ pc[c] = "idle" /\ pc' = [pc EXCEPT ![c] = "request"] /\ \A d \in Callers \ {c} : op'[d] = op[d]
      /\ UNCHANGED <<tools, shared, locks, bound, saved, reply>>
  BY DEF Call, Goto, Callers
<1>2. pc'[c] = "request" /\ reqLock # c /\ \A d \in Callers \ {c} : pc'[d] = pc[d]
  BY <1>1 DEF SerialInv
<1>3. HttpTypes' /\ SerialInv'
  BY <1>1, <1>2 DEF HttpTypes, SerialInv
<1>4. TaskInv'
  BY <1>1, <1>2 DEF TaskInv, TaskLabels, Untouched
<1>5. ASSUME NEW d \in Callers PROVE PageOf(d)'
  BY <1>1, <1>2, CallersAreNotNone DEF PageInv, PageOf, Navigates, Told
<1> QED
  BY <1>3, <1>4, <1>5 DEF PageInv

LEMMA TakeKeepsHttp ==
    ASSUME AllInv, NEW c \in Callers, TakeRequestLock(c)
    PROVE  HttpInv'
<1> USE DEF AllInv, HttpInv, Inv, TypeOK
<1> DEFINE l == FirstStep(op[c])
<1>1. /\ reqLock = None /\ reqLock' = c /\ pc' = [pc EXCEPT ![c] = l] /\ reply[c] = NoReply
      /\ UNCHANGED <<tools, shared, op, bound, saved, reply>> /\ op[c] \in HttpOps
  BY DEF TakeRequestLock, Goto, PageInv, PageOf, CalledInv
<1>2. /\ l \in {"shutdown", "get_state", "navigate", "act", "run_task"}
      /\ l = "navigate" => op[c] \in {"navigate", "inject"}
      /\ l = "get_state" => op[c] = "snapshot"
  BY <1>1 DEF FirstStep, HttpOps
<1> HIDE DEF l
<1>3. \A d \in Callers : pc[d] \in {"idle", "request"}
  BY <1>1, CallersAreNotNone DEF SerialInv
<1>4. pc'[c] = l /\ \A d \in Callers \ {c} : pc'[d] = pc[d]
  BY <1>1
<1>5. HttpTypes' /\ SerialInv'
  BY <1>1, <1>2, <1>3, <1>4 DEF HttpTypes, SerialInv
<1>6. TaskInv'
  BY <1>1, <1>2, <1>3, <1>4 DEF TaskInv, TaskLabels, Untouched
<1>7. ASSUME NEW d \in Callers PROVE PageOf(d)'
  BY <1>1, <1>2, <1>3, <1>4 DEF PageInv, PageOf, Navigates, Told
<1> QED
  BY <1>5, <1>6, <1>7 DEF PageInv

\* What a caller was told is kept, or it starts afresh.
LEMMA StateReadKeepsHttp ==
    ASSUME AllInv, NEW c \in Callers, reqLock = c, StateRead(c), page' = page, create' = create,
           pc[c] \notin TaskLabels, op[c] = "inject" /\ driver \in browsers => Told(c)
    PROVE  HttpInv'
<1> USE DEF AllInv, HttpInv, Inv, TypeOK
<1>1. CASE Return(c)
  <2>1. Untouched' /\ \A d \in Callers \ {c} : pc[d] \notin TaskLabels
    BY NoTask DEF Untouched
  <2> QED
    BY <1>1, <2>1, ReturnKeepsHttp DEF HttpTypes
<1>2. CASE /\ op' = [op EXCEPT ![c] = "navigate"] /\ Goto(c, "navigate")
           /\ UNCHANGED <<reqLock, bound, saved, reply, built>> /\ op[c] = "inject" /\ driver \in browsers
  <2>1. pc' = [pc EXCEPT ![c] = "navigate"] /\ pc'[c] = "navigate" /\ op'[c] = "navigate"
    BY <1>2 DEF Goto
  <2>2. "navigate" \in Labels \ ({"idle", "request"} \cup TaskLabels)
    BY DEF Labels, BeforeInitialize, TaskLabels
  <2>3. PageOf(c)'
    BY <1>2, <2>1 DEF PageOf, Told, Navigates
  <2>4. HttpTypes'
    BY <1>2 DEF HttpTypes
  <2> QED
    BY <1>2, <2>1, <2>2, <2>3, <2>4, GoesKeepsHttp
<1> QED
  BY <1>1, <1>2 DEF StateRead, ReplaceCookies

\* After initialize(): the tools' browser is one of those in bounds.
LEMMA ContinueKeepsHttp ==
    ASSUME AllInv, NEW c \in Callers, reqLock = c, Continue(c), initialized', page' = page,
           driver' = driver, factory' = factory, factory # 0
    PROVE  HttpInv'
<1> USE DEF AllInv, HttpInv, Inv, TypeOK
<1>0. pc[c] \in BeforeInitialize /\ pc[c] \notin TaskLabels
  BY DEF Continue, DispatchCall, ReadUrl, PatchCreateAgent, BeforeInitialize, TaskLabels
<1>1. CASE DispatchCall(c)
  <2> DEFINE l == IF pc[c] = "navigate" THEN "getting" ELSE "acting"
  <2>1. /\ pc' = [pc EXCEPT ![c] = l] /\ pc'[c] = l /\ bound'[c] = driver
        /\ UNCHANGED <<create, reqLock, op, saved, reply>> /\ pc[c] \in {"navigate", "act"}
    BY <1>1 DEF DispatchCall, Goto
  <2>2. l \in Labels \ ({"idle", "request"} \cup TaskLabels)
    BY DEF Labels, TaskLabels
  <2>3. PageOf(c)'
    BY <2>1 DEF PageInv, PageOf, Told, Navigates
  <2>4. HttpTypes'
    BY <2>1 DEF HttpTypes
  <2> QED
    BY <1>0, <2>1, <2>2, <2>3, <2>4, GoesKeepsHttp
<1>2. CASE ReadUrl(c) /\ driver \in browsers
  <2> DEFINE told == [reply[c] EXCEPT !.url = page[driver]]
  <2>1. driver \in Gens /\ page[driver] \in PageNames
    BY <1>2, BrowsersInBounds DEF HttpTypes
  <2>2. told \in [url : PageNames, html : PageNames] /\ told.url = page[driver]
    BY <2>1 DEF HttpTypes
  <2>3. /\ pc' = [pc EXCEPT ![c] = "reading"] /\ pc'[c] = "reading" /\ reply' = [reply EXCEPT ![c] = told]
        /\ UNCHANGED <<create, reqLock, op, bound, saved>> /\ pc[c] = "get_state"
    BY <1>2 DEF ReadUrl, Goto
  <2> HIDE DEF told
  <2>4. "reading" \in Labels \ ({"idle", "request"} \cup TaskLabels)
    BY DEF Labels, TaskLabels
  <2>5. reply'[c] = told
    BY <2>3 DEF HttpTypes
  <2>6. PageOf(c)'
    BY <2>2, <2>3, <2>5 DEF PageInv, PageOf, Navigates
  <2>7. HttpTypes' /\ \A d \in Callers \ {c} : op'[d] = op[d] /\ reply'[d] = reply[d]
    BY <2>2, <2>3 DEF HttpTypes
  <2> QED
    BY <1>0, <2>3, <2>4, <2>6, <2>7, GoesKeepsHttp
<1>3. CASE ReadUrl(c) /\ driver \notin browsers
  BY <1>0, <1>3, StateReadKeepsHttp DEF ReadUrl
<1>4. CASE PatchCreateAgent(c)
  <2> DEFINE start == IF op[c] = "query_at" THEN c ELSE None
             made == [create[factory] EXCEPT !.patches = Append(@, start)]
  <2>1. factory \in Gens /\ Untouched /\ \A d \in Callers : pc[d] \notin TaskLabels
    BY <1>0, BrowsersInBounds, NoTask
  <2>2. made \in Made
    <3>1. create[factory] \in Made /\ start \in Callers \cup {None}
      BY <2>1 DEF HttpTypes
    <3>2. Append(create[factory].patches, start) \in Seq(Callers \cup {None})
      BY <3>1, AppendProperties DEF Made
    <3> QED
      BY <3>1, <3>2 DEF Made
  <2>3. /\ saved' = [saved EXCEPT ![c] = create[factory]] /\ create' = [create EXCEPT ![factory] = made]
        /\ pc' = [pc EXCEPT ![c] = "creating"] /\ UNCHANGED <<reqLock, op, reply>>
    BY <1>4 DEF PatchCreateAgent, Goto
  <2> HIDE DEF made
  <2>4. Alone(c) /\ pc'[c] = "creating" /\ reqLock' = c
    BY <2>3 DEF Alone
  <2>5. HttpTypes'
    BY <2>1, <2>2, <2>3 DEF HttpTypes
  <2>6. saved'[c] = Original(factory) /\ \A g \in Gens \ {factory} : create'[g] = Original(g)
    BY <2>1, <2>3 DEF Untouched, HttpTypes
  <2>7. TaskInv'
    BY <2>1, <2>4, <2>6 DEF TaskInv, TaskLabels
  <2>8. PageOf(c)'
    BY <2>4 DEF PageOf
  <2> QED
    BY <2>4, <2>5, <2>7, <2>8, AloneKeepsPages, AloneKeepsSerial
<1> QED
  BY <1>1, <1>2, <1>3, <1>4 DEF Continue, ReadUrl

\* Whoever acts on the tools or on pages has the request lock.
LEMMA ActiveHolds ==
    ASSUME AllInv, NEW c \in Callers, pc[c] \notin {"idle", "request"}
    PROVE  reqLock = c /\ \A d \in Callers \ {c} : pc[d] \in {"idle", "request"}
BY DEF AllInv, HttpInv, SerialInv

LEMMA InitializedKeepsHttp ==
    ASSUME AllInv, NEW c \in Callers, IsInitialized(c) \/ FinishLaunch(c)
    PROVE  HttpInv'
<1> USE DEF AllInv, HttpInv, Inv, TypeOK
<1>1. pc[c] \in BeforeInitialize /\ Continue(c) /\ UNCHANGED <<driver, factory, page>>
  BY DEF IsInitialized, FinishLaunch, Launching
<1>2. reqLock = c /\ \A d \in Callers \ {c} : pc[d] \in {"idle", "request"}
  BY <1>1, ActiveHolds DEF BeforeInitialize
<1>3. initialized' /\ factory # 0
  <2>1. CASE IsInitialized(c)
    <3>1. ~Quitting
      BY <1>1, <1>2 DEF Quitting, BeforeInitialize
    <3> QED
      BY <2>1, <3>1 DEF IsInitialized, ReadyMeansUsable
  <2>2. CASE FinishLaunch(c)
    <3>1. toolsLock = c /\ pc[c] \notin QuitLabels
      BY <1>1, <2>2 DEF FinishLaunch, Launching, BeforeInitialize, QuitLabels
    <3> QED
      BY <2>2, <3>1, CallersAreNotNone DEF FinishLaunch, LaunchInv
  <2> QED
    BY <2>1, <2>2
<1> QED
  BY <1>1, <1>2, <1>3, ContinueKeepsHttp

LEMMA LaunchKeepsHttp ==
    ASSUME AllInv, NEW c \in Callers, StartLaunch(c) \/ LaunchBrowser(c) \/ LaunchFails(c)
    PROVE  HttpInv'
<1> USE DEF AllInv, HttpInv, Inv, TypeOK
<1>1. pc[c] \in BeforeInitialize /\ ~initialized
  BY CallersAreNotNone DEF StartLaunch, LaunchBrowser, LaunchFails, Launching, LaunchInv, BeforeInitialize, QuitLabels
<1>2. reqLock = c /\ (\A d \in Callers \ {c} : pc[d] \in {"idle", "request"}) /\ pc[c] \notin TaskLabels
  BY <1>1, ActiveHolds DEF BeforeInitialize, TaskLabels
<1>3. Untouched /\ \A d \in Callers : pc[d] \notin TaskLabels
  BY <1>2, NoTask
<1>4. CASE StartLaunch(c) \/ LaunchBrowser(c)
  <2>1. UNCHANGED <<initialized, page, create, reqLock, pc, op, bound, saved, reply>>
    BY <1>4 DEF StartLaunch, LaunchBrowser
  <2>2. HttpTypes' /\ SerialInv' /\ TaskInv'
    BY <1>3, <2>1 DEF HttpTypes, SerialInv, TaskInv, Untouched
  <2>3. PageOf(c)'
    BY <1>1, <2>1 DEF PageInv, PageOf, Told, Navigates, BeforeInitialize
  <2>4. Alone(c)
    BY <1>2, <2>1 DEF Alone
  <2> QED
    BY <2>2, <2>3, <2>4, AloneKeepsPages
<1>5. CASE LaunchFails(c)
  <2>1. UNCHANGED <<page, create>> /\ (Return(c) \/ (pc[c] = "get_state" /\ StateRead(c)))
    BY <1>5 DEF LaunchFails
  <2>2. CASE Return(c)
    BY <1>2, <1>3, <2>1, <2>2, ReturnKeepsHttp DEF Untouched, HttpTypes
  <2>3. CASE pc[c] = "get_state" /\ StateRead(c)
    <3>1. op[c] # "inject"
      BY <1>1, <2>3 DEF PageInv, PageOf, Navigates
    <3> QED
      BY <1>2, <2>1, <2>3, <3>1, StateReadKeepsHttp
  <2> QED
    BY <2>1, <2>2, <2>3
<1> QED
  BY <1>4, <1>5

\* Calls of the WebDriver.
LEMMA WebDriverKeepsHttp ==
    ASSUME AllInv, NEW c \in Callers, Get(c) \/ GetFails(c) \/ Act(c) \/ ReadPage(c) \/ Answer(c)
    PROVE  HttpInv'
<1> USE DEF AllInv, HttpInv, Inv, TypeOK
<1>1. pc[c] \in {"getting", "acting", "reading", "answering"} /\ pc[c] \notin TaskLabels /\ reqLock = c
  BY ActiveHolds DEF Get, GetFails, Act, ReadPage, Answer, TaskLabels
<1>2. {"get_state", "answering"} \subseteq Labels \ ({"idle", "request"} \cup TaskLabels)
  BY DEF Labels, BeforeInitialize, TaskLabels
<1>3. CASE Get(c)
  <2>1. /\ pc[c] = "getting" /\ pc' = [pc EXCEPT ![c] = "get_state"] /\ pc'[c] = "get_state"
        /\ bound[c] = driver /\ initialized /\ driver \in Gens /\ page' = [page EXCEPT ![driver] = c]
        /\ UNCHANGED <<tools, reqLock, create, op, saved, reply>>
    BY <1>3, BrowsersInBounds DEF Get, Goto, PageInv, PageOf
  <2>2. HttpTypes' /\ page'[driver] = c
    BY <2>1 DEF HttpTypes, PageNames
  <2>3. PageOf(c)'
    BY <2>1, <2>2 DEF PageOf
  <2> QED
    BY <1>1, <1>2, <2>1, <2>2, <2>3, GoesKeepsHttp
<1>4. CASE GetFails(c)
  <2>1. /\ pc[c] = "getting" /\ pc' = [pc EXCEPT ![c] = "answering"] /\ pc'[c] = "answering"
        /\ UNCHANGED <<page, reqLock, create, op, saved, reply>>
    BY <1>4 DEF GetFails, Goto
  <2>2. HttpTypes' /\ PageOf(c)'
    BY <2>1 DEF HttpTypes, PageInv, PageOf, Told, Navigates
  <2> QED
    BY <1>1, <1>2, <2>1, <2>2, GoesKeepsHttp
<1>5. CASE Act(c)
  <2>1. /\ pc[c] = "acting" /\ pc' = [pc EXCEPT ![c] = "answering"] /\ pc'[c] = "answering"
        /\ (page' = page \/ page' = [page EXCEPT ![bound[c]] = c])
        /\ UNCHANGED <<reqLock, create, op, saved, reply>>
    BY <1>5 DEF Act, Goto
  <2>2. HttpTypes' /\ PageOf(c)'
    BY <2>1 DEF HttpTypes, PageNames, PageInv, PageOf, Told
  <2> QED
    BY <1>1, <1>2, <2>1, <2>2, GoesKeepsHttp
<1>6. CASE ReadPage(c)
  <2> DEFINE told == IF driver \in browsers THEN [reply[c] EXCEPT !.html = page[driver]] ELSE NoReply
  <2>1. /\ pc[c] = "reading" /\ pc' = [pc EXCEPT ![c] = "answering"] /\ pc'[c] = "answering"
        /\ reply' = [reply EXCEPT ![c] = told]
        /\ UNCHANGED <<tools, page, reqLock, create, op, saved>>
    BY <1>6 DEF ReadPage, Goto
  <2>2. /\ told \in [url : PageNames, html : PageNames]
        /\ told = NoReply \/ (told.url = reply[c].url /\ told.html = page[driver])
    <3>1. CASE driver \in browsers
      <4>1. page[driver] \in PageNames
        BY <3>1, BrowsersInBounds DEF HttpTypes
      <4> QED
        BY <3>1, <4>1 DEF HttpTypes
    <3>2. CASE driver \notin browsers
      BY <3>2 DEF NoReply, PageNames
    <3> QED
      BY <3>1, <3>2
  <2> HIDE DEF told
  <2>3. HttpTypes' /\ reply'[c] = told /\ \A d \in Callers \ {c} : op'[d] = op[d] /\ reply'[d] = reply[d]
    BY <2>1, <2>2 DEF HttpTypes
  <2>4. PageOf(c)'
    BY <2>1, <2>2, <2>3 DEF PageInv, PageOf, Told, Navigates
  <2> QED
    BY <1>1, <1>2, <2>1, <2>3, <2>4, GoesKeepsHttp
<1>7. CASE Answer(c)
  BY <1>1, <1>7, StateReadKeepsHttp DEF Answer, PageInv, PageOf
<1> QED
  BY <1>3, <1>4, <1>5, <1>6, <1>7

\* run_task after its patch.
LEMMA TaskKeepsHttp ==
    ASSUME AllInv, NEW c \in Callers, CreateAgent(c) \/ CreateFails(c) \/ AdapterReturns(c) \/ Restore(c)
    PROVE  HttpInv'
<1> USE DEF AllInv, HttpInv, Inv, TypeOK
<1>1. pc[c] \in TaskLabels /\ reqLock = c /\ \A d \in Callers \ {c} : pc[d] \in {"idle", "request"}
  BY ActiveHolds DEF CreateAgent, CreateFails, AdapterReturns, Restore, TaskLabels
<1>2. factory \in Gens /\ saved[c] = Original(factory) /\ \A g \in Gens \ {factory} : create[g] = Original(g)
  BY <1>1 DEF TaskInv
<1>3. CASE CreateAgent(c) \/ CreateFails(c) \/ AdapterReturns(c)
  <2>1. PICK l \in {"running", "restoring"} : pc' = [pc EXCEPT ![c] = l]
    BY <1>3 DEF CreateAgent, CreateFails, AdapterReturns, Goto
  <2>2. UNCHANGED <<factory, page, create, reqLock, op, saved, reply>>
    BY <1>3 DEF CreateAgent, CreateFails, AdapterReturns
  <2>3. pc'[c] = l /\ Alone(c) /\ HttpTypes' /\ PageOf(c)'
    BY <1>1, <2>1, <2>2 DEF Alone, HttpTypes, PageOf
  <2>4. TaskInv'
    BY <1>1, <1>2, <2>1, <2>2, <2>3 DEF TaskInv, TaskLabels
  <2> QED
    BY <1>1, <2>2, <2>3, <2>4, AloneKeepsPages, AloneKeepsSerial
<1>4. CASE Restore(c)
  <2>1. Return(c) /\ page' = page /\ create' = [create EXCEPT ![factory] = Original(factory)]
    BY <1>2, <1>4, BrowserAssumption DEF Restore, Gens
  <2>2. create' \in [Gens -> Made]
    BY <1>2, <2>1 DEF HttpTypes
  <2>3. Untouched'
    BY <1>2, <2>1 DEF HttpTypes, Untouched
  <2> QED
    BY <1>1, <2>1, <2>2, <2>3, ReturnKeepsHttp DEF TaskLabels
<1> QED
  BY <1>3, <1>4

LEMMA ShutdownKeepsHttp ==
    ASSUME AllInv, NEW c \in Callers, StartShutdown(c) \/ Quit(c) \/ QuitFails(c) \/ FinishShutdown(c)
    PROVE  HttpInv'
<1> USE DEF AllInv, HttpInv, Inv, TypeOK
<1>1. /\ pc[c] \in QuitLabels \cup {"shutdown"} /\ pc[c] \notin TaskLabels /\ reqLock = c
      /\ \A d \in Callers \ {c} : pc[d] \in {"idle", "request"}
  BY ActiveHolds DEF StartShutdown, Quit, QuitFails, FinishShutdown, TaskLabels, QuitLabels
<1>2. UNCHANGED <<page, create>>
  BY DEF StartShutdown, Quit, QuitFails, FinishShutdown
<1>3. CASE StartShutdown(c) \/ Quit(c) \/ QuitFails(c)
  <2>1. PICK l \in QuitLabels : pc' = [pc EXCEPT ![c] = l]
    BY <1>3 DEF StartShutdown, Quit, QuitFails, Goto, QuitLabels
  <2>2. l \in Labels \ ({"idle", "request"} \cup TaskLabels)
    BY DEF QuitLabels, Labels, TaskLabels
  <2>3. pc'[c] = l /\ UNCHANGED <<reqLock, op, saved, reply>>
    BY <1>3, <2>1 DEF StartShutdown, Quit, QuitFails
  <2>4. HttpTypes' /\ PageOf(c)'
    BY <1>2, <2>3 DEF HttpTypes, PageOf, QuitLabels
  <2> QED
    BY <1>1, <1>2, <2>1, <2>2, <2>3, <2>4, GoesKeepsHttp
<1>4. CASE FinishShutdown(c)
  <2>1. Untouched' /\ \A d \in Callers \ {c} : pc[d] \notin TaskLabels
    BY <1>1, <1>2, NoTask DEF Untouched, TaskLabels
  <2> QED
    BY <1>1, <1>2, <1>4, <2>1, ReturnKeepsHttp DEF FinishShutdown, HttpTypes
<1> QED
  BY <1>3, <1>4

\* An agent, in its time or past it, makes a page its own.
LEMMA AgentKeepsHttp ==
    ASSUME AllInv, NEW g, page' = [page EXCEPT ![g] = Agent] \/ page' = page,
           UNCHANGED <<initialized, driver, factory, create, reqLock, pc, op, bound, saved, reply>>
    PROVE  HttpInv'
<1> USE DEF AllInv, HttpInv, Inv, TypeOK
<1>1. HttpTypes' /\ SerialInv' /\ TaskInv'
  BY DEF HttpTypes, PageNames, SerialInv, TaskInv, Untouched
<1>2. driver \in Gens => page'[driver] \in {page[driver], Agent}
  BY DEF HttpTypes
<1>3. ASSUME NEW d \in Callers PROVE PageOf(d)'
  <2>1. CASE pc[d] = "reading" \/ (pc[d] = "get_state" /\ Navigates(d))
    <3>1. initialized /\ ~Quitting
      BY <2>1, ActiveHolds DEF PageInv, PageOf, Quitting
    <3> QED
      BY <1>2, <2>1, <3>1, BrowsersInBounds DEF ReadyMeansUsable, PageInv, PageOf, Navigates
  <2>2. CASE ~(pc[d] = "reading" \/ (pc[d] = "get_state" /\ Navigates(d)))
    BY <2>2 DEF PageInv, PageOf, Told, Navigates
  <2> QED
    BY <2>1, <2>2
<1> QED
  BY <1>1, <1>3 DEF PageInv

LEMMA AllInvHolds == ASSUME Gateway = {} PROVE Spec => []AllInv
<1>1. Init => HttpInv
  <2> SUFFICES ASSUME Init PROVE HttpInv
    OBVIOUS
  <2> USE DEF Init
  <2>1. \A g \in Nat : Original(g) \in Made
    BY DEF Original, Made
  <2>2. Gens \subseteq Nat /\ NoReply \in [url : PageNames, html : PageNames]
    BY BrowserAssumption DEF Gens, NoReply, PageNames
  <2>3. HttpTypes
    BY <2>1, <2>2 DEF HttpTypes, PageNames
  <2>4. SerialInv /\ TaskInv /\ PageInv
    BY CallersAreNotNone DEF SerialInv, TaskInv, Untouched, TaskLabels, PageInv, PageOf
  <2> QED
    BY <2>3, <2>4 DEF HttpInv
<1>2. AllInv /\ [Next]_vars => HttpInv'
  <2> SUFFICES ASSUME AllInv, [Next]_vars PROVE HttpInv'
    OBVIOUS
  <2>1. ASSUME NEW c \in Callers, Step(c) PROVE HttpInv'
    BY <2>1, TakeKeepsHttp, InitializedKeepsHttp, LaunchKeepsHttp, WebDriverKeepsHttp, TaskKeepsHttp,
       ShutdownKeepsHttp DEF Step
  <2>2. ASSUME NEW c \in Callers, NEW o \in Ops, Call(c, o) PROVE HttpInv'
    BY <2>2, CallKeepsHttp
  <2>3. ASSUME NEW c \in Callers, AgentActs(c) PROVE HttpInv'
    BY <2>3, AgentKeepsHttp DEF AgentActs
  <2>4. ASSUME NEW g \in Gens, OverrunActs(g) \/ OverrunEnds(g) PROVE HttpInv'
    BY <2>4, AgentKeepsHttp DEF OverrunActs, OverrunEnds
  <2>5. CASE UNCHANGED vars
    BY <2>5, AgentKeepsHttp DEF vars
  <2> QED
    BY <2>1, <2>2, <2>3, <2>4, <2>5 DEF Next
<1> QED
  BY <1>1, <1>2, BudgetInvHolds, PTL DEF AllInv, Spec

\* When all requests come by HTTP: no task leaves its patch behind, whatever
\* raises and whatever is shut down and launched again between tasks.
THEOREM RestoredOverHttp == ASSUME Gateway = {} PROVE Spec => []CreateAgentRestored
<1>1. AllInv => CreateAgentRestored
  <2> SUFFICES ASSUME AllInv, factory # 0, \A c \in Callers : pc[c] \notin TaskLabels
               PROVE  create[factory] = Original(factory)
    BY DEF CreateAgentRestored, TaskLabels
  <2> QED
    BY BrowsersInBounds DEF AllInv, HttpInv, TaskInv, Untouched
<1> QED
  BY <1>1, AllInvHolds, PTL

\* When all requests come by HTTP: the url and the page a caller is given
\* belong together, and after a navigation they are its own, unless an agent
\* left behind by a task has taken the page away.
THEOREM OnePageOverHttp == ASSUME Gateway = {} PROVE Spec => []ReadsOnePage
<1>1. AllInv => ReadsOnePage
  BY DEF AllInv, HttpInv, PageInv, PageOf, Told, Navigates, ReadsOnePage
<1> QED
  BY <1>1, AllInvHolds, PTL
=============================================================================
