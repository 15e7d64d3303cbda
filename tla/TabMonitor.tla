------------------------------- MODULE TabMonitor -------------------------------
(***************************************************************************)
(* Monitors over the tabs of a browser (automation/monitor.py): the        *)
(* closures create_monitor_callbacks returns, and MonitorCondition with    *)
(* its baseline and its debounce timer.  MonitorNode, which calls them, is *)
(* not in this repository: it verifies the tab, switches to it when it is  *)
(* not the current one, and runs one iteration.                            *)
(*                                                                         *)
(* An iteration is one step: the driver is used by one thread, so only the *)
(* pages and the user act between its parts; an element that went stale in *)
(* between is the iteration that finds no element.                         *)
(***************************************************************************)
EXTENDS BrowserTabs

CONSTANTS
    Monitors,
    Configs,      \* the sets of monitors to start: each maps its monitors to
                  \* [kind, confirm, continuous, strategies]
    Expected,     \* MonitorCondition.expected_text
    MaxTime,      \* bound on the clock
    None

ASSUME ExpectedAssumption == Expected \in Texts /\ None \notin Handles \cup Contents
ASSUME ConfigsAssumption ==
    /\ None \notin Nat
    /\ \A c \in Configs : \A m \in DOMAIN c : m \in Monitors /\ c[m].confirm \in Nat

VARIABLES
    now,      \* the clock
    config,   \* the monitors there are and their configuration
    mon,      \* each monitor's closure state and condition state
    streak,   \* history: since when every check of the monitor found the condition true
    report    \* history: the "condition met" the last step returned, or None

monVars == <<now, config, mon, streak, report>>
watchVars == <<tabVars, monVars>>

-----------------------------------------------------------------------------
(* MonitorCondition *)

Changing == {"text_changed", "attribute_changed", "value_changed"}

(* check: does the condition hold for element text e over baseline b?      *)
Holds(kind, e, b) ==
    \/ kind = "element_present" /\ e # Absent
    \/ kind = "element_absent" /\ e = Absent
    \/ kind = "text_contains" /\ e = Expected
    \/ kind \in Changing /\ e # Absent /\ b # None /\ e # b

(* The first check of a "changed" condition only records its baseline and  *)
(* leaves the timer alone.                                                 *)
Baselining(kind, e, b) == kind \in Changing /\ b = None /\ e # Absent

ApplyDebounce(confirm, since) ==
    [met |-> confirm = 0 \/ (since # None /\ now - since >= confirm),
     since |-> IF confirm = 0 \/ since # None THEN since ELSE now]

ResetDebounce == [met |-> FALSE, since |-> None]

CheckKeepsTimer(kind, confirm, e, b, since) ==
    LET d == IF Holds(kind, e, b) THEN ApplyDebounce(confirm, since) ELSE [met |-> FALSE, since |-> since]
        again == d.met /\ kind = "value_changed"
    IN [met |-> d.met,
        since |-> IF again THEN None ELSE d.since,
        base |-> IF again \/ Baselining(kind, e, b) THEN e ELSE b]

Check(kind, confirm, e, b, since) ==
    LET d == IF Holds(kind, e, b) THEN ApplyDebounce(confirm, since)
             ELSE IF Baselining(kind, e, b) THEN [met |-> FALSE, since |-> since]
             ELSE ResetDebounce
        again == d.met /\ kind = "value_changed"     \* re-armed for the next change
    IN [met |-> d.met,
        since |-> IF again THEN None ELSE d.since,
        base |-> IF again \/ Baselining(kind, e, b) THEN e ELSE b]

-----------------------------------------------------------------------------
(* The closures *)

NewMonitor == [tab |-> None, lock |-> 0, base |-> None, since |-> None, status |-> "polling"]

MonInit ==
    /\ now = 0
    /\ config \in Configs
    /\ mon = [m \in Monitors |-> NewMonitor]
    /\ streak = [m \in Monitors |-> None]
    /\ report = None

Polling(m) == m \in DOMAIN config /\ mon[m].status = "polling"

(* verify_setup, then setup_action: the tab the iteration runs on.         *)
VerifySetup(m) == mon[m].tab \in {None, cur}
IterationTab(m) == IF VerifySetup(m) THEN cur ELSE mon[m].tab

(* The target: the locked strategy, or the first one that finds anything.  *)
(* found is the set of strategies that find the element on the page.       *)
ResolvedBy(m, found) ==
    IF mon[m].lock # 0 THEN (IF mon[m].lock \in found THEN mon[m].lock ELSE 0)
    ELSE IF found = {} THEN 0 ELSE CHOOSE s \in found : \A t \in found : s <= t

Condition(m, tab, by) ==
    LET e == IF by = 0 THEN Absent ELSE shown[tab]
    IN Check(config[m].kind, config[m].confirm, e, mon[m].base, mon[m].since)

TrueNow(m, tab, by) ==
    Holds(config[m].kind, IF by = 0 THEN Absent ELSE shown[tab], mon[m].base)

(* monitor_iteration: registers the tab on the first call; the tab stays   *)
(* registered when the condition is met.                                   *)
MonitorIteration(m) ==
    /\ Polling(m)
    /\ LET tab == IterationTab(m)
       IN /\ tab \in Open
          /\ cur' = tab
          /\ IF mon[m].tab = None THEN RegisterMonitorTab(tab) ELSE UNCHANGED watched
          /\ \E found \in SUBSET (1 .. config[m].strategies) :
                /\ found # {} => shown[tab] # Absent
                /\ LET by == ResolvedBy(m, found)
                       c == Condition(m, tab, by)
                   IN /\ mon' = [mon EXCEPT ![m] =
                           [tab |-> IF @.tab = None THEN tab ELSE @.tab,
                            lock |-> IF @.lock = 0 THEN by ELSE @.lock,
                            base |-> c.base, since |-> c.since,
                            status |-> IF c.met /\ ~config[m].continuous THEN "met" ELSE "polling"]]
                      /\ LET s == IF ~TrueNow(m, tab, by) THEN None
                                  ELSE IF streak[m] = None THEN now ELSE streak[m]
                         IN /\ report' = IF c.met THEN [by |-> m, since |-> s] ELSE None
                            /\ streak' = [streak EXCEPT ![m] =
                                            IF c.met /\ config[m].kind = "value_changed" THEN None ELSE s]
    /\ UNCHANGED <<engine, tabs, used, shown, overwritten, now, config>>

(* The exception path: the tab is released, the monitor stops.             *)
MonitorError(m) ==
    /\ Polling(m)
    /\ UnregisterMonitorTab(mon[m].tab)
    /\ mon' = [mon EXCEPT ![m].status = "error"]
    /\ UNCHANGED <<engine, tabs, cur, used, shown, overwritten, now, config, streak>>
    /\ report' = None

Tick ==
    /\ now < MaxTime /\ now' = now + 1 /\ report' = None
    /\ UNCHANGED <<tabVars, config, mon, streak>>

MonitorInit == TabsInit /\ MonInit

MonitorNext ==
    \/ TabsNext /\ report' = None /\ UNCHANGED <<now, config, mon, streak>>
    \/ \E m \in Monitors : MonitorIteration(m)
    \/ \E m \in Monitors : MonitorError(m)
    \/ Tick

MonitorSpec == MonitorInit /\ [][MonitorNext]_watchVars

-----------------------------------------------------------------------------
(* A monitor that is polling, or has reported, still holds its tab: later  *)
(* actions must find it in the registry ("do NOT unregister tab here on    *)
(* success").  The registry is a set, so the one thing that can release    *)
(* the tab is the failure of another monitor of the same tab.  And no page *)
(* is loaded over a watched tab, unless the caller of visit_url asked for  *)
(* that or Selenium got no new tab from the browser.                       *)
MonitorHoldsItsTab ==
    /\ \A m \in Monitors :
         mon[m].tab # None /\ mon[m].status # "error" =>
            \/ mon[m].tab \in watched
            \/ \E n \in Monitors \ {m} : mon[n].tab = mon[m].tab /\ mon[n].status = "error"
    /\ \A o \in overwritten : o.spared => engine = "selenium"

(* event_confirmation_time: a condition is reported only when every check  *)
(* of at least that long a time has found it true.                         *)
HeldForConfirmationTime ==
    report # None =>
        report.since # None /\ now - report.since >= config[report.by].confirm
=============================================================================
