------------------------------ MODULE ActionTester ------------------------------
(***************************************************************************)
(* The debugger's action tester: ActionTesterManager (manager.py) has one  *)
(* browser and a tab in it for each test; callbacks of the page (app.py)   *)
(* call it.  The server runs each callback in a thread of its own, so a    *)
(* callback is one step per visit to the browser, and what it does with    *)
(* the answer is a step of its own where others can come in between.  The  *)
(* same browser is the user's: tabs are closed by hand, pages open tabs,   *)
(* it may die.                                                             *)
(*                                                                         *)
(* The text of the editors, the element index and messages are left out.   *)
(***************************************************************************)
EXTENDS Naturals, Sequences, SequencesExt

CONSTANTS
    Threads,        \* callbacks that run at once
    MaxBrowsers, MaxTabs, MaxTests     \* bounds: browsers, tabs ever opened in those that run, tests ever made

VARIABLES
    chromes,    \* every browser that was started: its tabs, the driver's tab, tabs ever opened
    driver,     \* self.driver: a number of a browser, 0 for None
    active,     \* is_browser_active
    tests,      \* self.tests, in the order of creation; history: was it made in a race
    activeTest, \* active_test_id, 0 for None
    made,       \* tests created so far
    shown,      \* action-tester-active-test-id in the page, 0 for None
    callback    \* what each thread is doing
testerVars == <<chromes, driver, active, tests, activeTest, made, shown, callback>>

NoTab == <<0, 0>>
Rest == [pc |-> "idle", test |-> 0, tab |-> NoTab, on |-> 0]

TesterInit ==
    /\ chromes = <<>> /\ driver = 0 /\ active = FALSE /\ tests = <<>> /\ activeTest = 0
    /\ made = 0 /\ shown = 0 /\ callback = [t \in Threads |-> Rest]

-----------------------------------------------------------------------------
(* The browser *)

Gone == [tabs |-> <<>>, current |-> NoTab, opened |-> 0]
Alive(n) == n # 0 /\ chromes[n].tabs # <<>>
HasTab(n, tab) == n # 0 /\ Contains(chromes[n].tabs, tab)
NewTab(n) == <<n, chromes[n].opened + 1>>
OpensTab(n) == [chromes EXCEPT ![n].tabs = Append(@, NewTab(n)), ![n].opened = @ + 1]
CanOpen(n) == Alive(n) /\ FoldLeft(LAMBDA sum, b : sum + b.opened, Len(chromes), chromes) < MaxTabs

PageOpensTab(n) == CanOpen(n) /\ chromes' = OpensTab(n) /\ UNCHANGED <<driver, active, tests, activeTest, made, shown, callback>>

(* The last tab takes the browser with it.                                 *)
WithoutTab(n, tab) ==
    LET i == CHOOSE i \in DOMAIN chromes[n].tabs : chromes[n].tabs[i] = tab
        left == RemoveAt(chromes[n].tabs, i)
    IN  [chromes EXCEPT ![n] = IF left = <<>> THEN Gone
                               ELSE [tabs |-> left, current |-> IF @.current = tab THEN NoTab ELSE @.current, opened |-> @.opened]]
UserClosesTab(n, tab) ==
    HasTab(n, tab) /\ chromes' = WithoutTab(n, tab) /\ UNCHANGED <<driver, active, tests, activeTest, made, shown, callback>>

BrowserDies(n) ==
    /\ Alive(n) /\ chromes' = [chromes EXCEPT ![n] = Gone]
    /\ UNCHANGED <<driver, active, tests, activeTest, made, shown, callback>>

-----------------------------------------------------------------------------
(* Callbacks *)

MovesOn(t, pc) == callback' = [callback EXCEPT ![t].pc = pc]
Starts(t, pc) == callback[t].pc = "idle" /\ callback' = [callback EXCEPT ![t] = [Rest EXCEPT !.pc = pc]]
Returns(t) == callback' = [callback EXCEPT ![t] = Rest]
At(t, pc) == callback[t].pc = pc

Exists(id) == \E i \in DOMAIN tests : tests[i].id = id
Place(id) == CHOOSE i \in DOMAIN tests : tests[i].id = id
TabOf(id) == tests[Place(id)].tab

(* Mutant of ResetBrowserState: the tests stay.                            *)
KeepsTests == driver' = 0 /\ active' = FALSE /\ activeTest' = 0 /\ tests' = tests

ResetBrowserState == driver' = 0 /\ active' = FALSE /\ activeTest' = 0 /\ tests' = <<>>

(* quit() may fail, which is swallowed.                                    *)
Quits == chromes' \in {chromes, IF driver = 0 THEN chromes ELSE [chromes EXCEPT ![driver] = Gone]}

LaunchBrowser(t) == Starts(t, "launch") /\ Quits /\ UNCHANGED <<driver, active, tests, activeTest, made, shown>>
CloseBrowser(t) == Starts(t, "close") /\ Quits /\ UNCHANGED <<driver, active, tests, activeTest, made, shown>>

ResetAfterQuit(t) ==
    /\ (At(t, "launch") /\ MovesOn(t, "construct")) \/ (At(t, "close") /\ Returns(t))
    /\ ResetBrowserState /\ UNCHANGED <<chromes, made, shown>>

(* The driver of a launch that was in between is overwritten.  Some errors *)
(* of the constructor reset everything, others the flag only.              *)
Construct(t) ==
    /\ At(t, "construct")
    /\ \/ /\ Len(chromes) < MaxBrowsers
          /\ chromes' = Append(chromes, [tabs |-> <<<<Len(chromes) + 1, 1>>>>, current |-> <<Len(chromes) + 1, 1>>, opened |-> 1])
          /\ driver' = Len(chromes) + 1 /\ active' = TRUE /\ MovesOn(t, "launched") /\ UNCHANGED <<tests, activeTest>>
       \/ active' = FALSE /\ Returns(t) /\ UNCHANGED <<chromes, driver, tests, activeTest>>
       \/ ResetBrowserState /\ Returns(t) /\ UNCHANGED chromes
    /\ UNCHANGED <<made, shown>>

(* get_browser_status, at every tick of the page's interval.               *)
GetBrowserStatus(t) ==
    /\ callback[t].pc = "idle" /\ active /\ driver # 0
    /\ callback' = [callback EXCEPT ![t] = [Rest EXCEPT !.pc = "status", !.on = driver]]
    /\ UNCHANGED <<chromes, driver, active, tests, activeTest, made, shown>>

(* Its visits, each to the driver there is then; a failure of any is taken *)
(* for a browser that was closed, and resets what is there by that time.   *)
VisitForStatus(t) ==
    LET n == callback[t].on
        fails == ~HasTab(n, chromes[n].current)
    IN /\ At(t, "status")
       /\ \/ fails /\ ResetBrowserState /\ Returns(t)
          \/ /\ \/ Alive(n) /\ callback' = [callback EXCEPT ![t].on = driver]
                \/ ~fails /\ Returns(t)
             /\ UNCHANGED <<driver, active, tests, activeTest>>
       /\ UNCHANGED <<chromes, made, shown>>

(* create_new_test; launch_browser comes here for its first test.          *)
CreateNewTest(t) ==
    /\ callback[t].pc \in {"idle", "launched"}
    /\ callback' = [callback EXCEPT ![t].pc = IF active /\ driver # 0 THEN "create" ELSE "idle"]
    /\ UNCHANGED <<chromes, driver, active, tests, activeTest, made, shown>>

OpenTestTab(t) ==
    /\ At(t, "create")
    /\ IF CanOpen(driver) THEN chromes' = OpensTab(driver) /\ MovesOn(t, "handles")
       ELSE UNCHANGED chromes /\ Returns(t)
    /\ UNCHANGED <<driver, active, tests, activeTest, made, shown>>

(* window_handles[-1] is taken for the tab that was just opened.           *)
TakeHandle(t) ==
    /\ At(t, "handles")
    /\ IF Alive(driver)
       THEN callback' = [callback EXCEPT ![t] = [Rest EXCEPT !.pc = "register", !.tab = Last(chromes[driver].tabs)]]
       ELSE Returns(t)
    /\ UNCHANGED <<chromes, driver, active, tests, activeTest, made, shown>>

(* The test is listed whatever became of the browser of its tab: the       *)
(* manager may have been reset or given another one since the handles were *)
(* read, and a launch that is under way will give it one.                  *)
Raced(tab) == tab[1] # driver \/ \E u \in Threads : At(u, "construct")
RegisterTest(t) ==
    /\ At(t, "register") /\ made < MaxTests
    /\ tests' = Append(tests, [id |-> made + 1, tab |-> callback[t].tab, raced |-> Raced(callback[t].tab)])
    /\ made' = made + 1 /\ activeTest' = made + 1
    /\ callback' = [callback EXCEPT ![t] = [pc |-> "show", test |-> made + 1, tab |-> callback[t].tab, on |-> 0]]
    /\ UNCHANGED <<chromes, driver, active, shown>>

SwitchesTo(tab) == chromes' = IF HasTab(driver, tab) THEN [chromes EXCEPT ![driver].current = tab] ELSE chromes

(* The new test's id goes to the page, but for the test of a launch.       *)
ShowTest(t) ==
    /\ At(t, "show") /\ SwitchesTo(callback[t].tab) /\ Returns(t)
    /\ shown' \in {shown} \cup (IF HasTab(driver, callback[t].tab) THEN {callback[t].test} ELSE {})
    /\ UNCHANGED <<driver, active, tests, activeTest, made>>

(* switch_active_test: the page shows the test even when the tab is gone.  *)
SwitchActiveTest(t, id) ==
    /\ callback[t].pc = "idle" /\ shown' = id
    /\ IF Exists(id) THEN activeTest' = id /\ SwitchesTo(TabOf(id)) ELSE UNCHANGED <<activeTest, chromes>>
    /\ UNCHANGED <<driver, active, tests, made, callback>>

(* The tab is closed when it is still there; if not, that raises.          *)
CloseTest(t, id) ==
    LET closes == active /\ HasTab(driver, TabOf(id))
    IN /\ callback[t].pc = "idle" /\ Exists(id)
       /\ callback' = [callback EXCEPT ![t] = [pc |-> "closed", test |-> id, tab |-> NoTab, on |-> IF closes THEN driver ELSE 0]]
       /\ chromes' = IF closes THEN [WithoutTab(driver, TabOf(id)) EXCEPT ![driver].current = NoTab] ELSE chromes
       /\ UNCHANGED <<driver, active, tests, activeTest, made, shown>>

(* The rest of close_test: after a tab was closed the driver goes to the   *)
(* first one left, whose test, if it is one's, becomes the active one; a   *)
(* browser that ended with its last tab raises or has none.  The page      *)
(* shows the first test that is left.                                      *)
ForgetTest(t) ==
    /\ At(t, "closed") /\ Returns(t)
    /\ LET id == callback[t].test
           closed == callback[t].on # 0
           first == IF closed /\ Alive(driver) /\ chromes[driver].tabs # <<>> THEN Head(chromes[driver].tabs) ELSE NoTab
           owners == SelectSeq(tests, LAMBDA test : test.tab = first)
       IN /\ tests' = IF Exists(id) THEN RemoveAt(tests, Place(id)) ELSE tests
          /\ SwitchesTo(first)
          /\ \E chosen \in IF owners # <<>> THEN {Head(owners).id}
                            ELSE {activeTest} \cup (IF closed /\ ~Alive(driver) THEN {0} ELSE {}) :
                activeTest' = IF chosen = id THEN 0 ELSE chosen
          /\ shown' = IF shown # id THEN shown ELSE IF tests' = <<>> THEN 0 ELSE Head(tests').id
    /\ UNCHANGED <<driver, active, made>>

(* run_sequence and execute_sequence: the test the page shows, or the      *)
(* first; its sequence runs on the driver that was there when it started.  *)
RunSequence(t) ==
    LET id == IF shown # 0 THEN shown ELSE IF tests # <<>> THEN Head(tests).id ELSE 0
    IN /\ callback[t].pc = "idle" /\ active /\ driver # 0 /\ Exists(id)
       /\ activeTest' = id /\ SwitchesTo(TabOf(id))
       /\ callback' = IF HasTab(driver, TabOf(id))
                      THEN [callback EXCEPT ![t] = [Rest EXCEPT !.pc = "acting", !.on = driver]] ELSE callback
       /\ UNCHANGED <<driver, active, tests, made, shown>>

(* An action, which may move to a tab that it opens; or the last one.      *)
ExecuteAction(t) ==
    /\ At(t, "acting")
    /\ LET n == callback[t].on
       IN \/ CanOpen(n) /\ chromes' = [OpensTab(n) EXCEPT ![n].current = NewTab(n)] /\ UNCHANGED callback
          \/ UNCHANGED chromes /\ Returns(t)
    /\ UNCHANGED <<driver, active, tests, activeTest, made, shown>>

TesterNext ==
    \/ \E n \in DOMAIN chromes : PageOpensTab(n) \/ BrowserDies(n) \/ \E i \in DOMAIN chromes[n].tabs : UserClosesTab(n, chromes[n].tabs[i])
    \/ \E t \in Threads :
          \/ LaunchBrowser(t) \/ CloseBrowser(t) \/ ResetAfterQuit(t) \/ Construct(t) \/ GetBrowserStatus(t) \/ VisitForStatus(t)
          \/ CreateNewTest(t) \/ OpenTestTab(t) \/ TakeHandle(t) \/ RegisterTest(t) \/ ShowTest(t) \/ ForgetTest(t) \/ RunSequence(t) \/ ExecuteAction(t)
          \/ \E id \in 1 .. made : SwitchActiveTest(t, id) \/ CloseTest(t, id)

TesterSpec == TesterInit /\ [][TesterNext]_testerVars

-----------------------------------------------------------------------------
(* No test outlives its browser, whatever callbacks overlap: after         *)
(* relaunches, also two at once, failed launches, status checks that reset *)
(* another launch's browser and browsers that died, the tests listed are   *)
(* in the browser that is driven now.  The only ones that are not were     *)
(* made in a race: registered after a reset or launch that came since      *)
(* their tab was read, or while another callback was launching.            *)
TestsOfThisBrowser == \A i \in DOMAIN tests : tests[i].tab[1] = driver \/ tests[i].raced
=============================================================================
