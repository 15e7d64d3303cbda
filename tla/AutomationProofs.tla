--------------------------- MODULE AutomationProofs ---------------------------
(* Proofs about what an agent does on pages, and about the evaluation of   *)
(* its runs: TabMonitor, NewTabClick, ActionMemory, EvaluationRuns,        *)
(* TextInput and Scrolling, each for every value of its constants.         *)
EXTENDS TabMonitor, NewTabClick, TextInput, ActionMemory, EvaluationRuns, Scrolling,
        SequenceTheorems, FiniteSetTheorems, WellFoundedInduction, TLAPS

\* What the proof needs of the types; times are compared with None.
MonitorTypes ==
    /\ now \in Nat
    /\ config \in Configs
    /\ DOMAIN mon = Monitors /\ DOMAIN streak = Monitors
    /\ \A m \in Monitors :
         /\ DOMAIN mon[m] = {"tab", "lock", "base", "since", "status"}
         /\ mon[m].since \in Nat \cup {None}
         /\ streak[m] \in Nat \cup {None}

\* A running debounce timer was started in the present streak of true checks,
\* and none runs while a "changed" condition has no baseline.
TimerInv ==
    \A m \in DOMAIN config : mon[m].since # None =>
      /\ streak[m] # None /\ streak[m] <= mon[m].since
      /\ config[m].kind \in Changing => mon[m].base # None

PastInv ==
    \A m \in Monitors : /\ mon[m].since # None => mon[m].since <= now
                        /\ streak[m] # None => streak[m] <= now

MonitorInv == MonitorTypes /\ TimerInv /\ PastInv /\ HeldForConfirmationTime

\* What a check does to the timer and the baseline of its condition.
CheckResult(kind, confirm, e, b, since, c) ==
    /\ c.since \in {None, since, now}
    /\ c.met => /\ Holds(kind, e, b)
                /\ confirm = 0 \/ (since # None /\ now - since >= confirm)
    /\ c.met /\ kind = "value_changed" => c.since = None
    /\ ~Holds(kind, e, b) => c.since = None
    /\ c.since = now /\ c.since # since => Holds(kind, e, b)
    /\ c.since # None /\ kind \in Changing => c.base # None

LEMMA CheckFacts ==
    ASSUME MonitorTypes, NEW kind, NEW confirm \in Nat, NEW e, NEW b, NEW since \in Nat \cup {None},
           since # None /\ kind \in Changing => b # None
    PROVE  CheckResult(kind, confirm, e, b, since, Check(kind, confirm, e, b, since))
<1> USE ConfigsAssumption DEF MonitorTypes
<1> DEFINE d == ApplyDebounce(confirm, since)
<1> SUFFICES ASSUME NEW c, c = Check(kind, confirm, e, b, since)
             PROVE  CheckResult(kind, confirm, e, b, since, c)
  OBVIOUS
<1>1. CASE Holds(kind, e, b)
  <2>1. kind \in Changing => b # None
    BY <1>1 DEF Holds, Changing
  <2>2. d.met <=> confirm = 0 \/ (since # None /\ now - since >= confirm)
    BY DEF ApplyDebounce
  <2>3. d.since = IF confirm = 0 \/ since # None THEN since ELSE now
    BY DEF ApplyDebounce
  <2>4. ~Baselining(kind, e, b)
    BY <2>1 DEF Baselining
  <2>5. /\ c.met <=> d.met
        /\ c.since = IF d.met /\ kind = "value_changed" THEN None ELSE d.since
        /\ c.base = IF d.met /\ kind = "value_changed" THEN e ELSE b
    BY <1>1, <2>4 DEF Check
  <2> HIDE DEF d
  <2> QED
    BY <1>1, <2>1, <2>2, <2>3, <2>5 DEF CheckResult
<1>2. CASE ~Holds(kind, e, b)
  <2>1. /\ ~c.met
        /\ c.since = IF Baselining(kind, e, b) THEN since ELSE None
    BY <1>2 DEF Check, ResetDebounce
  <2>2. Baselining(kind, e, b) => since = None
    BY DEF Baselining
  <2> QED
    BY <1>2, <2>1, <2>2 DEF CheckResult
<1> QED
  BY <1>1, <1>2

\* An iteration: the timer, the streak and the report.
LEMMA IterationKeepsMonitorInv ==
    ASSUME MonitorInv, NEW m \in Monitors, MonitorIteration(m)
    PROVE  MonitorInv'
<1> USE ConfigsAssumption DEF MonitorInv, MonitorTypes
<1>1. m \in DOMAIN config /\ config[m].confirm \in Nat /\ now' = now /\ config' = config
  BY DEF MonitorIteration, Polling
<1> DEFINE tab == IterationTab(m)
<1>2. PICK found \in SUBSET (1 .. config[m].strategies) :
        LET by == ResolvedBy(m, found)
            c == Condition(m, tab, by)
        IN /\ mon' = [mon EXCEPT ![m] =
                [tab |-> IF @.tab = None THEN tab ELSE @.tab,
                 lock |-> IF @.lock = 0 THEN by ELSE @.lock,
                 base |-> c.base, since |-> c.since,
                 status |-> IF c.met /\ ~config[m].continuous THEN "met" ELSE "polling"]]
           /\ LET s == IF ~TrueNow(m, tab, by) THEN None
                       ELSE IF streak[m] = None THEN now ELSE streak[m]
              IN /\ report' = IF c.met THEN [by |-> m, since |-> s] ELSE None
                 /\ streak' = [streak EXCEPT ![m] =
                                 IF c.met /\ config[m].kind = "value_changed" THEN None ELSE s]
  BY DEF MonitorIteration
<1> DEFINE by == ResolvedBy(m, found)
           e == IF by = 0 THEN Absent ELSE shown[tab]
           c == Condition(m, tab, by)
           s == IF ~TrueNow(m, tab, by) THEN None
                ELSE IF streak[m] = None THEN now ELSE streak[m]
<1>3. c = Check(config[m].kind, config[m].confirm, e, mon[m].base, mon[m].since)
  BY DEF Condition
<1>4. TrueNow(m, tab, by) = Holds(config[m].kind, e, mon[m].base)
  BY DEF TrueNow
<1>5. mon[m].since # None /\ config[m].kind \in Changing => mon[m].base # None
  BY <1>1 DEF TimerInv
<1>6. CheckResult(config[m].kind, config[m].confirm, e, mon[m].base, mon[m].since, c)
  <2> HIDE DEF c, by, e
  <2>1. mon[m].since \in Nat \cup {None}
    OBVIOUS
  <2>2. CheckResult(config[m].kind, config[m].confirm, e, mon[m].base, mon[m].since,
                    Check(config[m].kind, config[m].confirm, e, mon[m].base, mon[m].since))
    BY <1>1, <1>5, <2>1, CheckFacts
  <2> QED
    BY <1>3, <2>2
<1>7. /\ mon'[m].since = c.since /\ mon'[m].base = c.base
      /\ DOMAIN mon'[m] = {"tab", "lock", "base", "since", "status"}
      /\ streak'[m] = IF c.met /\ config[m].kind = "value_changed" THEN None ELSE s
      /\ DOMAIN mon' = Monitors /\ DOMAIN streak' = Monitors
      /\ \A n \in Monitors \ {m} : mon'[n] = mon[n] /\ streak'[n] = streak[n]
      /\ report' = IF c.met THEN [by |-> m, since |-> s] ELSE None
  BY <1>2
<1> HIDE DEF c, by, e
<1> USE <1>4 DEF CheckResult
<1>8. MonitorTypes'
  BY <1>1, <1>6, <1>7
<1>9. c.since # None => s # None /\ s <= c.since
  BY <1>1, <1>6 DEF TimerInv, PastInv
<1>10. TimerInv'
  BY <1>1, <1>6, <1>7, <1>9 DEF TimerInv
<1>11. PastInv'
  BY <1>1, <1>6, <1>7 DEF PastInv
<1>12. HeldForConfirmationTime'
  <2> SUFFICES ASSUME c.met
               PROVE  s # None /\ now - s >= config[m].confirm
    BY <1>1, <1>7 DEF HeldForConfirmationTime
  <2> QED
    BY <1>1, <1>6 DEF TimerInv, PastInv
<1> QED
  BY <1>8, <1>10, <1>11, <1>12

LEMMA MonitorInvHolds == MonitorSpec => []MonitorInv
<1> USE ConfigsAssumption
<1>1. MonitorInit => MonitorInv
  BY DEF MonitorInit, MonInit, NewMonitor, MonitorInv, MonitorTypes, TimerInv, PastInv,
         HeldForConfirmationTime
<1>2. MonitorInv /\ [MonitorNext]_watchVars => MonitorInv'
  <2> SUFFICES ASSUME MonitorInv, [MonitorNext]_watchVars PROVE MonitorInv'
    OBVIOUS
  <2> USE DEF MonitorInv, MonitorTypes, TimerInv, PastInv, HeldForConfirmationTime
  <2>1. ASSUME TabsNext, report' = None, UNCHANGED <<now, config, mon, streak>> PROVE MonitorInv'
    BY <2>1
  <2>2. ASSUME NEW m \in Monitors, MonitorIteration(m) PROVE MonitorInv'
    BY <2>2, IterationKeepsMonitorInv
  <2>3. ASSUME NEW m \in Monitors, MonitorError(m) PROVE MonitorInv'
    BY <2>3 DEF MonitorError
  <2>4. ASSUME Tick PROVE MonitorInv'
    BY <2>4 DEF Tick
  <2>5. CASE UNCHANGED watchVars
    BY <2>5 DEF watchVars, monVars
  <2> QED
    BY <2>1, <2>2, <2>3, <2>4, <2>5 DEF MonitorNext
<1> QED
  BY <1>1, <1>2, PTL DEF MonitorSpec

\* A monitor reports its condition only when every check of at least its
\* confirmation time has found it true, whatever the pages, the user and other
\* monitors do between the checks.
THEOREM ReportsAreConfirmed == MonitorSpec => []HeldForConfirmationTime
BY MonitorInvHolds, PTL DEF MonitorInv

-----------------------------------------------------------------------------
(* Tabs that monitors hold.                                                 *)

TabInv ==
    /\ tabs \in Seq(Handles) /\ Open \subseteq used
    /\ DOMAIN mon = Monitors
    /\ \A m \in Monitors : DOMAIN mon[m] = {"tab", "lock", "base", "since", "status"}
    /\ MonitorHoldsItsTab

LEMMA TabsGrow ==
    ASSUME tabs \in Seq(Handles), NEW h \in Handles, tabs' = Append(tabs, h)
    PROVE  tabs' \in Seq(Handles) /\ Open' \subseteq Open \cup {h}
<1>1. tabs' \in Seq(Handles)
  OBVIOUS
<1>2. ASSUME NEW g \in Open' PROVE g \in Open \cup {h}
  <2>1. PICK i \in DOMAIN tabs' : tabs'[i] = g
    BY <1>2 DEF Open, ToSet
  <2>2. i \in 1 .. Len(tabs) + 1
    BY <2>1
  <2>3. i # Len(tabs) + 1 => i \in DOMAIN tabs /\ tabs'[i] = tabs[i]
    BY <2>2
  <2>4. i = Len(tabs) + 1 => tabs'[i] = h
    BY <2>2
  <2> QED
    BY <2>1, <2>3, <2>4 DEF Open, ToSet
<1> QED
  BY <1>1, <1>2

LEMMA TabsShrink ==
    ASSUME tabs \in Seq(Handles), NEW h, ClosesTab(h)
    PROVE  tabs' \in Seq(Handles) /\ Open' \subseteq Open /\ h \in Open
<1>1. PICK i \in DOMAIN tabs : tabs[i] = h /\ tabs' = RemoveAt(tabs, i)
  BY DEF ClosesTab
<1>2. i \in 1 .. Len(tabs) /\ Len(tabs) \in Nat
  BY <1>1
<1> DEFINE front == SubSeq(tabs, 1, i - 1)
           back == SubSeq(tabs, i + 1, Len(tabs))
<1>3. front \in Seq(Handles) /\ Len(front) = i - 1 /\ \A k \in 1 .. i - 1 : front[k] = tabs[k]
  BY <1>2
<1>4. back \in Seq(Handles) /\ Len(back) = Len(tabs) - i
      /\ \A k \in 1 .. Len(tabs) - i : back[k] = tabs[i + k]
  BY <1>2
<1>5. tabs' = front \o back
  BY <1>1 DEF RemoveAt
<1> HIDE DEF front, back
<1>6. tabs' \in Seq(Handles) /\ Len(tabs') = Len(tabs) - 1
  BY <1>2, <1>3, <1>4, <1>5
<1>7. ASSUME NEW g \in Open' PROVE g \in Open
  <2>1. PICK k \in DOMAIN tabs' : tabs'[k] = g
    BY <1>7 DEF Open, ToSet
  <2>2. k \in 1 .. Len(tabs) - 1
    BY <2>1, <1>6
  <2>3. CASE k <= i - 1
    BY <2>1, <2>2, <2>3, <1>2, <1>3, <1>4, <1>5 DEF Open, ToSet
  <2>4. CASE k > i - 1
    <3>1. tabs'[k] = back[k - (i - 1)]
      BY <2>2, <2>4, <1>2, <1>3, <1>4, <1>5
    <3>2. back[k - (i - 1)] = tabs[k + 1] /\ k + 1 \in DOMAIN tabs
      BY <2>2, <2>4, <1>2, <1>4
    <3> QED
      BY <2>1, <3>1, <3>2 DEF Open, ToSet
  <2> QED
    BY <1>2, <2>2, <2>3, <2>4
<1>8. h \in Open
  BY <1>1 DEF Open, ToSet
<1> QED
  BY <1>6, <1>7, <1>8

\* What the tabs, the pages and the user do leaves the monitors' tabs alone;
\* a visit may go over a watched tab, and then it was Selenium's.
LEMMA TabsNextKeepsTabInv ==
    ASSUME TabInv, TabsNext, UNCHANGED mon
    PROVE  TabInv'
<1> USE DEF TabInv, MonitorHoldsItsTab
<1>1. ASSUME UNCHANGED <<engine, watched, overwritten, tabs, used>>
      PROVE  TabInv'
  BY <1>1 DEF Open
<1>2. ASSUME NEW h, ClosesTab(h), UNCHANGED <<engine, watched, overwritten, used>>
      PROVE  TabInv'
  BY <1>2, TabsShrink
<1>3. ASSUME NEW h \in Fresh, tabs' = Append(tabs, h), used' = used \cup {h},
             UNCHANGED <<engine, watched, overwritten>>
      PROVE  TabInv'
  <2>1. h \in Handles
    BY DEF Fresh
  <2> QED
    BY <1>3, <2>1, TabsGrow
<1>4. ASSUME NEW force \in BOOLEAN, NEW c \in Texts, VisitUrl(force, c) PROVE TabInv'
  <2>1. cur \in Open /\ OpenUrl(NewTabForced(force), c) /\ engine' = engine /\ watched' = watched
    BY <1>4 DEF VisitUrl
  <2>2. tabs' \in Seq(Handles) /\ Open' \subseteq used'
    <3>1. CASE UNCHANGED <<tabs, used>>
      BY <3>1 DEF Open
    <3>2. CASE \E h \in Fresh : OpensTab(h, c)
      <4>1. PICK h \in Fresh : OpensTab(h, c)
        BY <3>2
      <4>2. h \in Handles /\ tabs' = Append(tabs, h) /\ used' = used \cup {h}
        BY <4>1 DEF OpensTab, RegisterPage, Fresh
      <4> QED
        BY <4>2, TabsGrow
    <3> QED
      BY <2>1, <3>1, <3>2 DEF OpenUrl, SeleniumOpenUrl, PlaywrightOpenUrl, Navigates
  <2>3. ASSUME cur \in watched, cur' = cur, force PROVE engine = "selenium"
    <3> SUFFICES ASSUME engine # "selenium" PROVE FALSE
      OBVIOUS
    <3>1. \E h \in Fresh : OpensTab(h, c)
      BY <2>1, <2>3 DEF OpenUrl, PlaywrightOpenUrl, NewTabForced, IsMonitorTab
    <3>2. cur' \notin used
      BY <3>1 DEF OpensTab, Fresh
    <3> QED
      BY <2>1, <2>3, <3>2
  <2>4. \A o \in overwritten' : o.spared => engine = "selenium"
    BY <1>4, <2>3 DEF VisitUrl
  <2> QED
    BY <2>1, <2>2, <2>4
<1>5. ASSUME NEW c \in Texts, Search(c) PROVE TabInv'
  BY <1>5, <1>1 DEF Search, Navigates
<1>6. ASSUME NEW c \in Texts, Click(c) PROVE TabInv'
  <2>1. CASE Navigates(c)
    BY <1>6, <1>1, <2>1 DEF Click, Navigates
  <2>2. CASE \E h \in Fresh : OpensTab(h, c)
    BY <1>6, <1>3, <2>2 DEF Click, OpensTab, RegisterPage
  <2> QED
    BY <1>6, <2>1, <2>2 DEF Click
<1>7. ASSUME CloseTab PROVE TabInv'
  BY <1>7, <1>2 DEF CloseTab
<1>8. ASSUME SwitchToActionTab PROVE TabInv'
  BY <1>8, <1>1 DEF SwitchToActionTab
<1>9. ASSUME NEW h \in Handles, SetState(h) PROVE TabInv'
  BY <1>9, <1>1 DEF SetState
<1>10. ASSUME SiteOpensTab PROVE TabInv'
  BY <1>10, <1>3 DEF SiteOpensTab
<1>11. ASSUME NEW h \in Handles, NEW c \in Contents, SiteChanges(h, c) PROVE TabInv'
  BY <1>11, <1>1 DEF SiteChanges
<1>12. ASSUME NEW h \in Handles, UserClosesTab(h) PROVE TabInv'
  BY <1>12, <1>2 DEF UserClosesTab
<1> QED
  BY <1>4, <1>5, <1>6, <1>7, <1>8, <1>9, <1>10, <1>11, <1>12 DEF TabsNext

\* Whatever actions, pages and users do with the tabs, a monitor that is polling
\* or has reported holds its tab, unless another monitor of the same tab has
\* failed; and only Selenium, for want of a new tab, loads a page over a watched
\* tab that was to be spared.
THEOREM MonitorsHoldTheirTabs == MonitorSpec => []MonitorHoldsItsTab
<1>1. MonitorInit => TabInv
  <2> SUFFICES ASSUME MonitorInit PROVE TabInv
    OBVIOUS
  <2>1. PICK h \in Handles : tabs = <<h>> /\ used = {h}
    BY DEF MonitorInit, TabsInit
  <2>2. tabs \in Seq(Handles) /\ Open = {h}
    BY <2>1 DEF Open, ToSet
  <2> QED
    BY <2>1, <2>2 DEF MonitorInit, TabsInit, MonInit, NewMonitor, TabInv, MonitorHoldsItsTab
<1>2. TabInv /\ [MonitorNext]_watchVars => TabInv'
  <2> SUFFICES ASSUME TabInv, [MonitorNext]_watchVars PROVE TabInv'
    OBVIOUS
  <2>1. ASSUME TabsNext, UNCHANGED mon PROVE TabInv'
    BY <2>1, TabsNextKeepsTabInv
  <2>2. ASSUME NEW m \in Monitors, MonitorIteration(m) PROVE TabInv'
    <3>1. /\ DOMAIN mon' = Monitors
          /\ \A n \in Monitors \ {m} : mon'[n] = mon[n]
          /\ DOMAIN mon'[m] = {"tab", "lock", "base", "since", "status"}
          /\ mon'[m].tab = IF mon[m].tab = None THEN IterationTab(m) ELSE mon[m].tab
          /\ mon[m].status = "polling"
          /\ mon'[m].status \in {"met", "polling"}
          /\ watched' = IF mon[m].tab = None THEN watched \cup {IterationTab(m)} ELSE watched
          /\ UNCHANGED <<engine, tabs, used, overwritten>>
      BY <2>2 DEF MonitorIteration, Polling, RegisterMonitorTab, TabInv
    <3> QED
      BY <3>1 DEF TabInv, MonitorHoldsItsTab, Open
  <2>3. ASSUME NEW m \in Monitors, MonitorError(m) PROVE TabInv'
    <3>1. /\ DOMAIN mon' = Monitors
          /\ \A n \in Monitors \ {m} : mon'[n] = mon[n]
          /\ DOMAIN mon'[m] = {"tab", "lock", "base", "since", "status"}
          /\ mon'[m].tab = mon[m].tab /\ mon'[m].status = "error"
          /\ watched' = watched \ {mon[m].tab}
          /\ UNCHANGED <<engine, tabs, used, overwritten>>
      BY <2>3 DEF MonitorError, UnregisterMonitorTab, TabInv
    <3> QED
      BY <3>1 DEF TabInv, MonitorHoldsItsTab, Open
  <2>4. CASE Tick
    BY <2>4 DEF Tick, tabVars, TabInv, MonitorHoldsItsTab, Open
  <2>5. CASE UNCHANGED watchVars
    BY <2>5 DEF watchVars, tabVars, monVars, TabInv, MonitorHoldsItsTab, Open
  <2> QED
    BY <2>1, <2>2, <2>3, <2>4, <2>5 DEF MonitorNext
<1>3. TabInv => MonitorHoldsItsTab
  BY DEF TabInv
<1> QED
  BY <1>1, <1>2, <1>3, PTL DEF MonitorSpec

-----------------------------------------------------------------------------
(* One click, whatever the element, the mode and the order of strategies.   *)

\* An answer came after its look, or an attempt raised instead of looking.
Excused == late \cap {"check", "raised"} # {}

\* No tab has come, or one has and the code knows of it or came too early to
\* look; a check that finds one tab has no other answer to wait for.
ClickInv ==
    /\ newTabs \in Nat /\ armed \in Nat
    /\ clickPc = "idle" => newTabs = 0 /\ armed = 0 /\ ~fellBack
    /\ clickPc = "attempt" /\ newTabs > 0 => Excused
    /\ clickPc \in {"restore", "check"} /\ newTabs > 0 /\ ~Excused => armed = 0 \/ overdue
    /\ clickPc = "settle" /\ newTabs > 0 => "wait" \in late
    /\ fellBack => clickPc \in {"click", "done"}
    /\ OneTabPerClick

LEMMA AttemptKeepsClickInv ==
    ASSUME ClickInv, Attempt
    PROVE  ClickInv'
<1>1. /\ clickPc = "attempt" /\ clickPc' \in {"restore", "check", "attempt"} /\ fellBack' = fellBack
      /\ armed > 0 /\ armed' = armed => overdue'
      /\ \/ clickPc' # "attempt" /\ late' = late
         \/ clickPc' = "attempt" /\ late' = late /\ newTabs' = newTabs
         \/ clickPc' = "attempt" /\ late' = late \cup {"raised"}
  BY DEF Attempt
<1>2. /\ armed' \in Nat
      /\ newTabs' = newTabs \/ (newTabs' = newTabs + 1 /\ armed' = armed)
  <2>1. Dispatches \subseteq Nat
    BY DEF Dispatches
  <2>2. Acts(Head(todo))
    BY DEF Attempt
  <2> QED
    BY <2>1, <2>2 DEF Acts, ClickInv
<1>3. late \subseteq late'
  BY <1>1
<1>4. CASE newTabs' = newTabs
  BY <1>1, <1>2, <1>3, <1>4 DEF ClickInv, OneTabPerClick, Excused
<1>5. CASE newTabs' = newTabs + 1 /\ armed' = armed
  BY <1>1, <1>2, <1>3, <1>5 DEF ClickInv, OneTabPerClick, Excused
<1> QED
  BY <1>2, <1>4, <1>5

\* One click opens at most one tab and the fallback does not click again what
\* has opened one, for every element, mode, fallback and order of strategies, and
\* whenever the page answers, but for answers that come after the code has looked
\* and for attempts that raise after they have touched the page.
THEOREM OneTabForAClick == ClickSpec => []OneTabPerClick
<1>1. ClickInit => ClickInv
  BY DEF ClickInit, ClickInv, OneTabPerClick, Excused
<1>2. ClickInv /\ [ClickNext]_clickVars => ClickInv'
  <2> SUFFICES ASSUME ClickInv, [ClickNext]_clickVars PROVE ClickInv'
    OBVIOUS
  <2> USE DEF ClickInv, OneTabPerClick, Excused
  <2>1. ASSUME NEW g \in {"selenium", "playwright"}, NEW m \in Modes, NEW e \in Elements, NEW f \in Fallbacks,
               NEW o \in Orders, StartClick(g, m, e, f, o)
        PROVE  ClickInv'
    BY <2>1 DEF StartClick
  <2>2. CASE Attempt
    BY <2>2, AttemptKeepsClickInv
  <2>3. CASE NoMoreAttempts
    BY <2>3 DEF NoMoreAttempts
  <2>10. CASE RestoreTarget
    BY <2>10 DEF RestoreTarget
  <2>4. CASE CheckNewTab
    BY <2>4 DEF CheckNewTab
  <2>5. CASE Wait
    BY <2>5 DEF Wait
  <2>6. CASE Compare
    BY <2>6 DEF Compare
  <2>7. CASE NormalClick
    <3>1. Dispatches \subseteq Nat
      BY DEF Dispatches
    <3> QED
      BY <2>7, <3>1 DEF NormalClick
  <2>8. CASE PageReacts
    BY <2>8 DEF PageReacts
  <2>9. CASE UNCHANGED clickVars
    BY <2>9 DEF clickVars
  <2> QED
    BY <2>1, <2>2, <2>3, <2>4, <2>5, <2>6, <2>7, <2>8, <2>9, <2>10 DEF ClickNext
<1>3. ClickInv => OneTabPerClick
  BY DEF ClickInv
<1> QED
  BY <1>1, <1>2, <1>3, PTL DEF ClickSpec

-----------------------------------------------------------------------------
(* The memory of an action, for every set of windows and actions.           *)

MemoryTypes ==
    /\ DOMAIN windowInfos = Windows
    /\ \A w \in Windows : DOMAIN windowInfos[w] = {"base", "last"}
    /\ openWindows \subseteq Windows /\ driverOn \in Windows
    /\ call # <<>> => /\ call.action \in ActionNames /\ call.window \in Windows
                      /\ call.element <=> Config(call.action).kind = "element"

HoldsBaseOf(w, a) == windowInfos[w].base = a \/ w \in orphaned \cup unset

\* The call in progress has replaced the base of window w.
Replaces(w) == call # <<>> /\ call.window = w /\ call.element /\ ~call.follow

\* A window holds the base of the action that was last done there, unless a call
\* that is not done yet has replaced it; it holds the base of the action that
\* is being done there.
BaseInv ==
    /\ \A w \in Windows, a \in ActionNames :
         windowInfos[w].last = a /\ Config(a).kind = "element" /\ Config(a).base # "none" =>
            HoldsBaseOf(w, a) \/ Replaces(w)
    /\ call # <<>> /\ call.element /\ Config(call.action).base # "none" => HoldsBaseOf(call.window, call.action)

MemoryInv == MemoryTypes /\ BaseInv /\ ComparedWithOwnBase

LEMMA CapturesHaveABase ==
    ASSUME NEW a \in ActionNames, NEW w, NEW tab, NEW s \in Captures(a, w, tab), s # <<>>
    PROVE  Config(a).base # "none" /\ s.by = a /\ s.window = w
BY MemoryAssumption DEF Captures

LEMMA BeginKeepsMemoryInv ==
    ASSUME MemoryInv, NEW a \in ActionNames, NEW asked \in BOOLEAN, BeginAction(a, asked)
    PROVE  MemoryInv'
<1> DEFINE w == driverOn
           follow == IsFollowUp(asked, a, w)
<1>1. /\ call = <<>> /\ w \in Windows
      /\ call' = [action |-> a, window |-> w, follow |-> follow, element |-> Config(a).kind = "element"]
      /\ UNCHANGED <<openWindows, driverOn>>
  BY DEF BeginAction, MemoryInv, MemoryTypes
<1>2. /\ call'.action = a /\ call'.window = w /\ (call'.follow <=> follow)
      /\ call'.element <=> Config(a).kind = "element"
  BY <1>1
<1>3. call' # <<>>
  BY <1>1
<1> HIDE DEF w, follow
<1>4. CASE Config(a).kind = "element" /\ ~follow
  <2>1. CaptureBaseMemory(a, w) /\ snapshot' = <<>>
    BY <1>4 DEF BeginAction, w, follow
  <2>2. /\ DOMAIN windowInfos' = Windows
        /\ \A v \in Windows \ {w} : windowInfos'[v] = windowInfos[v]
        /\ (orphaned \cup unset) \ {w} \subseteq orphaned' \cup unset'
        /\ windowInfos'[w].last = windowInfos[w].last /\ DOMAIN windowInfos'[w] = {"base", "last"}
        /\ Config(a).base # "none" => windowInfos'[w].base = a \/ w \in unset'
    <3>1. CASE /\ windowInfos' = [windowInfos EXCEPT ![w].base = IF Config(a).base = "none" THEN Nobody ELSE a]
               /\ orphaned' = orphaned \ {w} /\ unset' = unset \ {w}
      <4>1. /\ DOMAIN windowInfos = Windows /\ DOMAIN windowInfos[w] = {"base", "last"}
        BY <1>1 DEF MemoryInv, MemoryTypes
      <4>2. /\ DOMAIN windowInfos' = Windows /\ DOMAIN windowInfos'[w] = {"base", "last"}
            /\ windowInfos'[w].last = windowInfos[w].last
            /\ Config(a).base # "none" => windowInfos'[w].base = a
            /\ \A v \in Windows \ {w} : windowInfos'[v] = windowInfos[v]
        BY <3>1, <4>1, <1>1
      <4> QED
        BY <3>1, <4>2
    <3>2. CASE unset' = unset \cup {w} /\ UNCHANGED <<windowInfos, orphaned>>
      BY <3>2, <1>1 DEF MemoryInv, MemoryTypes
    <3>3. \/ /\ windowInfos' = [windowInfos EXCEPT ![w].base = IF Config(a).base = "none" THEN Nobody ELSE a]
             /\ orphaned' = orphaned \ {w} /\ unset' = unset \ {w}
          \/ unset' = unset \cup {w} /\ UNCHANGED <<windowInfos, orphaned>>
      BY <2>1, Zenon DEF CaptureBaseMemory
    <3> HIDE DEF Config
    <3> QED
      BY <3>1, <3>2, <3>3, Zenon
  <2>3. MemoryTypes'
    BY <1>1, <1>2, <2>2 DEF MemoryInv, MemoryTypes
  <2>4. Replaces(w)'
    <3>1. call' # <<>> /\ call'.window = w /\ call'.element /\ ~call'.follow
      BY <1>2, <1>3, <1>4
    <3>2. w' = w
      BY <1>1 DEF w
    <3> QED
      BY <3>1, <3>2 DEF Replaces
  <2>5. BaseInv'
    <3>1. ASSUME NEW v \in Windows, NEW b \in ActionNames, windowInfos'[v].last = b,
                 Config(b).kind = "element", Config(b).base # "none", v # w
          PROVE  HoldsBaseOf(v, b)'
      <4>1. /\ windowInfos'[v] = windowInfos[v]
        BY <3>1, <2>2
      <4>3. v \in orphaned \cup unset => v \in orphaned' \cup unset'
        BY <3>1, <2>2
      <4>2. HoldsBaseOf(v, b)
        <5>1. windowInfos[v].last = b /\ ~Replaces(v)
          BY <3>1, <4>1, <1>1 DEF Replaces
        <5>2. HoldsBaseOf(v, b) \/ Replaces(v)
          BY <3>1, <5>1 DEF MemoryInv, BaseInv
        <5> QED
          BY <5>1, <5>2
      <4> QED
        BY <4>1, <4>2, <4>3 DEF HoldsBaseOf
    <3>2. Config(a).base # "none" => HoldsBaseOf(w, a)'
      BY <2>2, <1>1 DEF HoldsBaseOf, w
    <3>3. w' = w
      BY <1>1 DEF w
    <3>4. \A v \in Windows, b \in ActionNames :
             windowInfos'[v].last = b /\ Config(b).kind = "element" /\ Config(b).base # "none" =>
                HoldsBaseOf(v, b)' \/ Replaces(v)'
      BY <3>1, <3>3, <2>4 DEF Replaces
    <3> QED
      BY <3>2, <3>3, <3>4, <1>2, <1>4 DEF BaseInv, HoldsBaseOf
  <2> QED
    BY <2>1, <2>3, <2>5 DEF MemoryInv, ComparedWithOwnBase
<1>5. CASE ~(Config(a).kind = "element" /\ ~follow)
  <2>1. UNCHANGED <<windowInfos, orphaned, unset>>
    BY <1>5 DEF BeginAction, w, follow
  <2>2. MemoryTypes'
    BY <1>1, <1>2, <2>1 DEF MemoryInv, MemoryTypes
  <2>3. follow => windowInfos[w].last = a /\ Config(a).kind = "element"
    BY DEF follow, IsFollowUp
  <2>4. follow /\ Config(a).base # "none" => HoldsBaseOf(w, a)
    BY <2>3, <1>1 DEF MemoryInv, BaseInv, Replaces
  <2>5. BaseInv'
    <3>1. \A v \in Windows, b \in ActionNames :
             windowInfos[v].last = b /\ Config(b).kind = "element" /\ Config(b).base # "none" => HoldsBaseOf(v, b)
      BY <1>1 DEF MemoryInv, BaseInv, Replaces
    <3> QED
      BY <3>1, <2>1, <2>4, <1>2, <1>5 DEF BaseInv, HoldsBaseOf
  <2>6. snapshot' = <<>> \/ (follow /\ snapshot' \in Captures(a, w, w))
    <3>1. CASE Config(a).kind # "element"
      BY <3>1 DEF BeginAction
    <3>2. CASE Config(a).kind = "element" /\ follow
      BY <3>2 DEF BeginAction, w, follow
    <3> QED
      BY <3>1, <3>2, <1>5
  <2>7. ComparedWithOwnBase'
    <3> SUFFICES ASSUME snapshot' # <<>>
                 PROVE  \/ windowInfos'[snapshot'.window].base = snapshot'.by
                        \/ snapshot'.window \in orphaned' \cup unset'
      BY DEF ComparedWithOwnBase
    <3>1. Config(a).base # "none" /\ snapshot'.by = a /\ snapshot'.window = w
      <4>1. PICK s : s = snapshot'
        OBVIOUS
      <4>2. s \in Captures(a, w, w) /\ s # <<>>
        BY <4>1, <2>6
      <4>3. Config(a).base # "none" /\ s.by = a /\ s.window = w
        BY <4>2, CapturesHaveABase
      <4> QED
        BY <4>1, <4>3
    <3> QED
      BY <3>1, <2>1, <2>4, <2>6 DEF HoldsBaseOf
  <2> QED
    BY <2>2, <2>5, <2>7 DEF MemoryInv
<1> QED
  BY <1>4, <1>5

LEMMA FinishKeepsMemoryInv ==
    ASSUME MemoryInv, FinishAction
    PROVE  MemoryInv'
<1> DEFINE a == call.action
           w == call.window
<1>1. /\ call # <<>> /\ a \in ActionNames /\ w \in Windows
      /\ windowInfos' = [windowInfos EXCEPT ![w].last = a]
      /\ call' = <<>> /\ UNCHANGED <<openWindows, driverOn, orphaned, unset>>
  BY DEF FinishAction, MemoryInv, MemoryTypes
<1>2. /\ DOMAIN windowInfos' = Windows
      /\ \A v \in Windows \ {w} : windowInfos'[v] = windowInfos[v]
      /\ windowInfos'[w].last = a /\ DOMAIN windowInfos'[w] = {"base", "last"}
      /\ windowInfos'[w].base = windowInfos[w].base
  BY <1>1 DEF MemoryInv, MemoryTypes
<1>3. MemoryTypes'
  BY <1>1, <1>2 DEF MemoryInv, MemoryTypes
<1>4. Config(a).kind = "element" /\ Config(a).base # "none" => HoldsBaseOf(w, a)
  BY <1>1 DEF MemoryInv, MemoryTypes, BaseInv
<1>5. BaseInv'
  <2>1. ASSUME NEW v \in Windows, NEW b \in ActionNames, windowInfos'[v].last = b,
               Config(b).kind = "element", Config(b).base # "none"
        PROVE  windowInfos'[v].base = b \/ v \in orphaned' \cup unset'
    <3>1. CASE v = w
      BY <2>1, <3>1, <1>1, <1>2, <1>4 DEF HoldsBaseOf
    <3>2. CASE v # w
      BY <2>1, <3>2, <1>1, <1>2 DEF MemoryInv, BaseInv, HoldsBaseOf, Replaces
    <3> QED
      BY <3>1, <3>2
  <2> QED
    BY <2>1, <1>1 DEF BaseInv, HoldsBaseOf
<1>6. ComparedWithOwnBase'
  <2> SUFFICES ASSUME snapshot' # <<>>
               PROVE  \/ windowInfos'[snapshot'.window].base = snapshot'.by
                      \/ snapshot'.window \in orphaned' \cup unset'
    BY DEF ComparedWithOwnBase
  <2>1. call.element /\ snapshot' \in Captures(a, w, driverOn)
    BY DEF FinishAction
  <2>2. Config(a).base # "none" /\ snapshot'.by = a /\ snapshot'.window = w
    <3>1. PICK s : s = snapshot'
      OBVIOUS
    <3>2. s \in Captures(a, w, driverOn) /\ s # <<>>
      BY <3>1, <2>1
    <3>3. Config(a).base # "none" /\ s.by = a /\ s.window = w
      BY <3>2, <1>1, CapturesHaveABase
    <3> QED
      BY <3>1, <3>3
  <2>3. HoldsBaseOf(w, a)
    BY <2>1, <2>2, <1>1 DEF MemoryInv, BaseInv
  <2> QED
    BY <2>2, <2>3, <1>1, <1>2 DEF HoldsBaseOf
<1> QED
  BY <1>3, <1>5, <1>6 DEF MemoryInv

LEMMA MemoryInvStep ==
    ASSUME MemoryInv, [MemoryNext]_memoryVars
    PROVE  MemoryInv'
<1> USE DEF MemoryInv, MemoryTypes, BaseInv, ComparedWithOwnBase, HoldsBaseOf, Replaces
<1>1. ASSUME NEW a \in ActionNames, NEW asked \in BOOLEAN, BeginAction(a, asked) PROVE MemoryInv'
  BY <1>1, BeginKeepsMemoryInv
<1>2. ASSUME NEW a \in ActionNames, NEW asked \in BOOLEAN, BeginFails(a, asked) PROVE MemoryInv'
  BY <1>2 DEF BeginFails
<1>3. CASE ExecuteAction
  <2>1. /\ call # <<>> /\ call' # <<>> /\ call'.action = call.action /\ call'.window = call.window
        /\ (call'.follow <=> call.follow) /\ (call'.element <=> call.element)
    BY <1>3 DEF ExecuteAction
  <2> QED
    BY <1>3, <2>1 DEF ExecuteAction
<1>4. CASE ActionRaises
  <2>1. call # <<>> /\ call' = <<>> /\ snapshot' = <<>>
        /\ UNCHANGED <<windowInfos, openWindows, driverOn, unset>>
    BY <1>4 DEF ActionRaises, Raises
  <2>2. orphaned \subseteq orphaned' /\ (call.element /\ ~call.follow => call.window \in orphaned')
    BY <1>4 DEF ActionRaises, OrphansBase
  <2> QED
    BY <2>1, <2>2
<1>5. CASE FinishAction
  BY <1>5, FinishKeepsMemoryInv
<1>6. ASSUME NEW w \in Windows, UserClosesWindow(w) PROVE MemoryInv'
  BY <1>6 DEF UserClosesWindow
<1>7. CASE UNCHANGED memoryVars
  BY <1>7 DEF memoryVars
<1> QED
  BY <1>1, <1>2, <1>3, <1>4, <1>5, <1>6, <1>7 DEF MemoryNext

\* Over any number of windows and actions, in every order of calls and with tabs
\* changed by the actions or closed by the user, a follow-up is compared with the
\* base its own action recorded in that window, unless the last base was recorded
\* by an action that raised, or none was because the target was empty.
THEOREM FollowUpsKeepTheirBase == MemorySpec => []ComparedWithOwnBase
<1>1. MemoryInit => MemoryInv
  <2> SUFFICES ASSUME MemoryInit PROVE MemoryInv
    OBVIOUS
  <2>1. driverOn \in Windows
    BY MemoryAssumption DEF MemoryInit
  <2>2. ASSUME NEW w \in Windows, NEW a \in ActionNames, windowInfos[w].last = a PROVE windowInfos[w].base = a
    BY <2>2 DEF MemoryInit
  <2> QED
    BY <2>1, <2>2 DEF MemoryInit, MemoryInv, MemoryTypes, BaseInv, ComparedWithOwnBase, HoldsBaseOf
<1>2. MemoryInv /\ [MemoryNext]_memoryVars => MemoryInv'
  BY MemoryInvStep
<1>3. MemoryInv => ComparedWithOwnBase
  BY DEF MemoryInv
<1> QED
  BY <1>1, <1>2, <1>3, PTL DEF MemorySpec

-----------------------------------------------------------------------------
(* Evaluations, for any tasks, workers, attempts and steps.                 *)

Files == [Steps -> Nat]
OutcomeNames == {"none", "error", "answered", "unfinished"}
ResultSet == [attempt : Nat, outcome : OutcomeNames, infra : BOOLEAN, dir : {"none", "session", "trajectory"}]
CopySet == [result : ResultSet, shots : Files]
LabelSet == [task : EvalTasks, attempt : Nat, outcome : OutcomeNames, shots : Files, label : {0, 1}]

EvalTypes ==
    /\ saves \in {"undecided", "session", "task"}
    /\ attempts \in 0 .. MaxAttempts /\ lastDriver \in Nat
    /\ results \in [EvalTasks -> ResultSet]
    /\ trajectory \in [EvalTasks -> Files] /\ session \in [1 .. MaxAttempts -> Files]
    /\ sanitized \in [EvalTasks -> CopySet] /\ labels \in Seq(LabelSet)
    /\ judge \in [Workers -> [todo : SUBSET EvalTasks, task : EvalTasks \cup {NoTask}]]
    /\ runner \in [pc : {"off", "next", "ran", "exported"}, todo : SUBSET EvalTasks,
                   task : EvalTasks \cup {NoTask}, raised : BOOLEAN]
    /\ evaluation \in [state : {"none", "running", "failed"}, count : Nat]

\* Attempt n is over: nothing is stored with it any more.
Settled(n) == n \in 1 .. attempts /\ (runner.pc = "ran" => n # attempts)

\* The screenshots that belong to an outcome of attempt n.
OwnShots(outcome, n, kept) == IF outcome # "error" THEN kept[n] ELSE NoFiles

\* Where the runner is.  With screenshots kept in the session, the tasks' own
\* directories stay empty; a run without a hooked browser has none anywhere.
RunnerInv ==
    /\ runner.pc # "off" => saves # "undecided"
    /\ saves = "undecided" => attempts = 0
    /\ runner.pc \in {"ran", "exported"} => runner.task \in EvalTasks /\ attempts > 0
    /\ saves # "task" => \A t \in EvalTasks : trajectory[t] = NoFiles
    /\ runner.pc = "ran" /\ saves = "session" =>
          /\ runner.raised => lastDriver = 0
          /\ lastDriver = 0 /\ ~runner.raised => session[attempts] = NoFiles

ResultInv ==
    \A t \in EvalTasks : results[t] # NoResult =>
        /\ Settled(results[t].attempt)
        /\ saves = "session" => ScreenshotsOf(t) = OwnShots(results[t].outcome, results[t].attempt, session)

CopyInv ==
    \A t \in EvalTasks : sanitized[t] # NoCopy =>
        /\ Settled(sanitized[t].result.attempt)
        /\ saves = "session" =>
              sanitized[t].shots = OwnShots(sanitized[t].result.outcome, sanitized[t].result.attempt, session)

LabelInv ==
    /\ \A i \in DOMAIN labels :
          /\ Settled(labels[i].attempt)
          /\ saves = "session" => labels[i].shots = OwnShots(labels[i].outcome, labels[i].attempt, session)
    /\ \A i, j \in DOMAIN labels : labels[i].task = labels[j].task => i = j

\* What a worker may still label: no other worker has it, and what it works on
\* has no label yet.
Claims(w) == judge[w].todo \cup ({judge[w].task} \ {NoTask})

JudgeInv ==
    /\ \A v, w \in Workers : v # w => Claims(v) \cap Claims(w) = {}
    /\ \A w \in Workers : /\ Claims(w) \subseteq {t \in EvalTasks : sanitized[t] # NoCopy}
                          /\ judge[w].task \notin judge[w].todo
                          /\ judge[w].task \notin AlreadyIds
    /\ evaluation.state = "none" => \A w \in Workers : judge[w] = JudgeOff

EvalInv == EvalTypes /\ RunnerInv /\ ResultInv /\ CopyInv /\ LabelInv /\ JudgeInv

\* A step of the runner keeps what was copied and labelled, if it leaves alone
\* the screenshots of the attempts that are over.
LEMMA RunningKeepsCopies ==
    ASSUME EvalInv, UnchangedJudging,
           \A n : Settled(n) => Settled(n)' /\ session'[n] = session[n],
           saves' = saves \/ saves = "undecided"
    PROVE  CopyInv' /\ LabelInv' /\ JudgeInv'
<1>1. ASSUME NEW n, Settled(n) PROVE saves' = saves
  BY <1>1 DEF EvalInv, RunnerInv, Settled
<1>2. ASSUME NEW n, NEW o, Settled(n)
      PROVE  /\ n \in 1 .. attempts' /\ (runner'.pc = "ran" => n # attempts')
             /\ OwnShots(o, n, session') = OwnShots(o, n, session)
             /\ saves' = saves
  BY <1>1, <1>2 DEF OwnShots, Settled
<1>3. CopyInv'
  <2>1. sanitized' = sanitized
    BY DEF UnchangedJudging
  <2>2. ASSUME NEW t \in EvalTasks, sanitized[t] # NoCopy
        PROVE  /\ sanitized[t].result.attempt \in 1 .. attempts'
               /\ runner'.pc = "ran" => sanitized[t].result.attempt # attempts'
               /\ saves' = "session" =>
                    sanitized[t].shots = OwnShots(sanitized[t].result.outcome, sanitized[t].result.attempt, session')
    BY <2>2, <1>2 DEF EvalInv, CopyInv
  <2> QED
    BY <2>1, <2>2 DEF CopyInv, Settled
<1>4. LabelInv'
  <2>1. labels' = labels
    BY DEF UnchangedJudging
  <2>2. ASSUME NEW i \in DOMAIN labels
        PROVE  /\ labels[i].attempt \in 1 .. attempts'
               /\ runner'.pc = "ran" => labels[i].attempt # attempts'
               /\ saves' = "session" => labels[i].shots = OwnShots(labels[i].outcome, labels[i].attempt, session')
    BY <1>2 DEF EvalInv, LabelInv
  <2> QED
    BY <2>1, <2>2 DEF EvalInv, LabelInv, Settled
<1>5. JudgeInv'
  BY DEF UnchangedJudging, EvalInv, JudgeInv, Claims, AlreadyIds
<1> QED
  BY <1>3, <1>4, <1>5

\* The same for the result of a task that the step does not write.
LEMMA RunningKeepsResult ==
    ASSUME EvalInv, NEW t \in EvalTasks, results'[t] = results[t], results[t] # NoResult,
           \A n : Settled(n) => Settled(n)' /\ session'[n] = session[n],
           saves' = saves \/ saves = "undecided",
           saves' = "session" => trajectory'[t] = trajectory[t]
    PROVE  /\ results'[t].attempt \in 1 .. attempts' /\ (runner'.pc = "ran" => results'[t].attempt # attempts')
           /\ saves' = "session" =>
                (IF results'[t].dir = "session" THEN session'[results'[t].attempt] ELSE trajectory'[t])
                  = OwnShots(results'[t].outcome, results'[t].attempt, session')
<1>1. Settled(results[t].attempt)
  BY DEF EvalInv, ResultInv
<1>2. saves' = saves
  BY <1>1 DEF EvalInv, RunnerInv, Settled
<1>3. session'[results[t].attempt] = session[results[t].attempt]
  BY <1>1
<1>4. Settled(results[t].attempt)'
  <2> PICK n : n = results[t].attempt
    OBVIOUS
  <2>1. n \in 1 .. attempts' /\ (runner'.pc = "ran" => n # attempts')
    BY <1>1 DEF Settled
  <2> QED
    BY <2>1 DEF Settled
<1>5. saves = "session" => ScreenshotsOf(t) = OwnShots(results[t].outcome, results[t].attempt, session)
  BY DEF EvalInv, ResultInv
<1> QED
  BY <1>1, <1>2, <1>3, <1>4, <1>5 DEF ScreenshotsOf, OwnShots, Settled

LEMMA RunDatasetKeepsInv ==
    ASSUME EvalInv, NEW tasks \in SUBSET EvalTasks, RunDataset(tasks)
    PROVE  EvalInv'
<1>1. /\ runner.pc = "off" /\ runner'.pc = "next"
      /\ saves' = saves \/ saves = "undecided"
      /\ saves' \in {"session", "task"}
      /\ UNCHANGED <<results, trajectory, session, attempts, browsers, lastDriver>>
      /\ UnchangedJudging
  BY DEF RunDataset, RunnerOff, EvalInv, EvalTypes
<1>2. runner' \in [pc : {"off", "next", "ran", "exported"}, todo : SUBSET EvalTasks,
                   task : EvalTasks \cup {NoTask}, raised : BOOLEAN]
  BY DEF RunDataset, RunnerOff
<1>3. EvalTypes'
  BY <1>1, <1>2 DEF EvalInv, EvalTypes, UnchangedJudging
<1>4. RunnerInv'
  BY <1>1 DEF EvalInv, RunnerInv
<1>5. \A n : Settled(n) => Settled(n)' /\ session'[n] = session[n]
  BY <1>1 DEF Settled
<1>6. ResultInv'
  <2> SUFFICES ASSUME NEW t \in EvalTasks, results'[t] # NoResult
               PROVE  /\ results'[t].attempt \in 1 .. attempts'
                      /\ runner'.pc = "ran" => results'[t].attempt # attempts'
                      /\ saves' = "session" =>
                           (IF results'[t].dir = "session" THEN session'[results'[t].attempt] ELSE trajectory'[t])
                              = OwnShots(results'[t].outcome, results'[t].attempt, session')
    BY DEF ResultInv, Settled, ScreenshotsOf
  <2> QED
    BY <1>1, <1>5, RunningKeepsResult
<1> QED
  BY <1>1, <1>3, <1>4, <1>5, <1>6, RunningKeepsCopies DEF EvalInv

LEMMA RunWithHooksKeepsInv ==
    ASSUME EvalInv, NEW t \in EvalTasks, NEW o \in Outcomes, RunWithHooks(t, o)
    PROVE  EvalInv'
<1> USE EvalAssumption
<1> DEFINE n == attempts + 1
           kept == Taken(NoFiles, o.taken, n)
<1>1. /\ runner.pc = "next" /\ attempts < MaxAttempts /\ attempts' = n
      /\ runner' = [runner EXCEPT !.pc = "ran", !.task = t, !.todo = @ \ {t}, !.raised = o.raises]
      /\ session' = IF saves = "session" THEN [session EXCEPT ![n] = kept] ELSE session
      /\ trajectory' = IF saves = "session" THEN trajectory
                       ELSE [trajectory EXCEPT ![t] = Taken(trajectory[t], o.taken, n)]
      /\ lastDriver' = IF o.hooked /\ ~o.raises THEN n ELSE 0
      /\ saves' = saves /\ results' = results /\ UnchangedJudging
  BY DEF RunWithHooks
<1>2. n \in 1 .. MaxAttempts /\ n \in Nat
  BY <1>1 DEF EvalInv, EvalTypes
<1>3. kept \in Files /\ (o.taken = {} => kept = NoFiles)
  BY <1>2 DEF Taken, Files, NoFiles
<1>4. Taken(trajectory[t], o.taken, n) \in Files
  BY <1>2 DEF Taken, Files, EvalInv, EvalTypes
<1> HIDE DEF kept
<1>5. EvalTypes'
  <2>1. session' \in [1 .. MaxAttempts -> Files] /\ trajectory' \in [EvalTasks -> Files]
    BY <1>1, <1>2, <1>3, <1>4 DEF EvalInv, EvalTypes
  <2>2. runner' \in [pc : {"off", "next", "ran", "exported"}, todo : SUBSET EvalTasks,
                     task : EvalTasks \cup {NoTask}, raised : BOOLEAN]
    BY <1>1 DEF EvalInv, EvalTypes, Outcomes
  <2> QED
    BY <1>1, <1>2, <2>1, <2>2 DEF EvalInv, EvalTypes, UnchangedJudging
<1>6. runner'.pc = "ran" /\ runner'.task = t /\ (runner'.raised <=> o.raises)
  BY <1>1 DEF EvalInv, EvalTypes
<1>7. saves \in {"session", "task"}
  BY <1>1 DEF EvalInv, EvalTypes, RunnerInv
<1>8. lastDriver' = 0 /\ ~o.raises => kept = NoFiles
  BY <1>1, <1>2, <1>3 DEF Outcomes
<1>9. RunnerInv'
  <2>1. runner'.raised => lastDriver' = 0
    BY <1>1, <1>6
  <2>2. saves = "session" /\ lastDriver' = 0 /\ ~runner'.raised => session'[attempts'] = NoFiles
    BY <1>1, <1>2, <1>6, <1>8 DEF EvalInv, EvalTypes
  <2>3. saves # "task" => \A u \in EvalTasks : trajectory'[u] = NoFiles
    BY <1>1, <1>7 DEF EvalInv, RunnerInv
  <2> QED
    BY <1>1, <1>2, <1>6, <1>7, <2>1, <2>2, <2>3 DEF RunnerInv
<1>10. \A k : Settled(k) => Settled(k)' /\ session'[k] = session[k]
  <2> SUFFICES ASSUME NEW k, Settled(k) PROVE Settled(k)' /\ session'[k] = session[k]
    OBVIOUS
  <2>1. k \in 1 .. attempts /\ k # n /\ k \in 1 .. MaxAttempts
    BY <1>1 DEF Settled, EvalInv, EvalTypes
  <2> QED
    BY <2>1, <1>1, <1>2 DEF Settled, EvalInv, EvalTypes
<1>11. ResultInv'
  <2> SUFFICES ASSUME NEW u \in EvalTasks, results'[u] # NoResult
               PROVE  /\ results'[u].attempt \in 1 .. attempts'
                      /\ runner'.pc = "ran" => results'[u].attempt # attempts'
                      /\ saves' = "session" =>
                           (IF results'[u].dir = "session" THEN session'[results'[u].attempt] ELSE trajectory'[u])
                              = OwnShots(results'[u].outcome, results'[u].attempt, session')
    BY DEF ResultInv, Settled, ScreenshotsOf
  <2>1. results'[u] = results[u] /\ results[u] # NoResult /\ (saves' = "session" => trajectory'[u] = trajectory[u])
    BY <1>1
  <2> QED
    BY <1>1, <1>10, <2>1, RunningKeepsResult
<1> QED
  BY <1>1, <1>5, <1>9, <1>10, <1>11, RunningKeepsCopies DEF EvalInv

\* No file before the last one is missing: there is none.
LEMMA NothingToCollect ==
    ASSUME NEW n PROVE CollectScreenshots(NoFiles, n) = NoFiles
BY DEF CollectScreenshots, NoFiles

LEMMA CollectedFiles ==
    ASSUME NEW files \in Files, NEW n \in Nat PROVE CollectScreenshots(files, n) \in Files
BY DEF CollectScreenshots, Files

LEMMA RunTaskEndsKeepsInv ==
    ASSUME EvalInv, NEW said \in SUBSET {"answer", "next_step"}, NEW named \in BOOLEAN, RunTaskEnds(said, named)
    PROVE  EvalInv'
<1> DEFINE t == runner.task
           inSession == saves = "session" /\ lastDriver # 0
           dir == IF inSession THEN "session" ELSE "trajectory"
           result == ExportResult(Outcome(said), named, dir)
           collects == ~inSession /\ ~runner.raised
<1>1. /\ runner.pc = "ran"
      /\ lastDriver' = 0
      /\ session' = IF inSession /\ ~runner.raised
                    THEN [session EXCEPT ![attempts] = CollectScreenshots(session[attempts], attempts)] ELSE session
      /\ trajectory' = IF collects
                       THEN [trajectory EXCEPT ![t] = CollectScreenshots(trajectory[t], attempts)] ELSE trajectory
      /\ results' = [results EXCEPT ![t] = result]
      /\ runner' = [runner EXCEPT !.pc = "exported"]
      /\ UnchangedJudging /\ saves' = saves /\ attempts' = attempts
  BY DEF RunTaskEnds, CleanupRunResources
<1>2. attempts \in 1 .. MaxAttempts /\ t \in EvalTasks /\ attempts \in Nat
  <2>1. runner.pc = "ran"
    BY <1>1
  <2>2. t \in EvalTasks /\ attempts > 0 /\ attempts \in 0 .. MaxAttempts
    BY <2>1 DEF EvalInv, EvalTypes, RunnerInv
  <2> QED
    BY <2>2, EvalAssumption
<1>3. /\ result \in ResultSet /\ result.attempt = attempts /\ result.dir = dir
      /\ result.outcome = "error" <=> runner.raised
  BY <1>2 DEF ExportResult, Outcome, ParseSessionLogs, ResultSet, OutcomeNames
<1>4. saves = "session" =>
        /\ inSession => ~runner.raised
        /\ ~inSession /\ ~runner.raised => session[attempts] = NoFiles
  BY <1>1 DEF EvalInv, RunnerInv
<1>5. saves = "session" => \A u \in EvalTasks : trajectory[u] = NoFiles
  BY DEF EvalInv, RunnerInv
<1>6. saves = "session" => \A u \in EvalTasks : trajectory'[u] = NoFiles
  <2> HIDE DEF collects, t
  <2> QED
    BY <1>1, <1>2, <1>5, NothingToCollect DEF EvalInv, EvalTypes
<1>7. EvalTypes'
  <2>1. CollectScreenshots(session[attempts], attempts) \in Files
    BY <1>2, CollectedFiles DEF EvalInv, EvalTypes
  <2>2. CollectScreenshots(trajectory[t], attempts) \in Files
    BY <1>2, CollectedFiles DEF EvalInv, EvalTypes
  <2>3. session' \in [1 .. MaxAttempts -> Files] /\ trajectory' \in [EvalTasks -> Files]
    BY <1>1, <1>2, <2>1, <2>2 DEF EvalInv, EvalTypes
  <2> HIDE DEF result
  <2>4. results' \in [EvalTasks -> ResultSet]
    BY <1>1, <1>2, <1>3 DEF EvalInv, EvalTypes
  <2>5. runner' \in [pc : {"off", "next", "ran", "exported"}, todo : SUBSET EvalTasks,
                     task : EvalTasks \cup {NoTask}, raised : BOOLEAN]
    BY <1>1 DEF EvalInv, EvalTypes
  <2> QED
    BY <1>1, <2>3, <2>4, <2>5 DEF EvalInv, EvalTypes, UnchangedJudging
<1>8. runner'.pc = "exported" /\ runner'.task = t
  BY <1>1 DEF EvalInv, EvalTypes
<1>9. RunnerInv'
  <2>1. saves # "undecided" /\ attempts > 0
    BY <1>1 DEF EvalInv, RunnerInv
  <2>2. saves # "task" => saves = "session"
    BY <2>1 DEF EvalInv, EvalTypes
  <2> QED
    BY <1>1, <1>2, <1>6, <1>8, <2>1, <2>2 DEF RunnerInv
<1>10. \A k : Settled(k) => Settled(k)' /\ session'[k] = session[k]
  <2> SUFFICES ASSUME NEW k, Settled(k) PROVE Settled(k)' /\ session'[k] = session[k]
    OBVIOUS
  <2> HIDE DEF result, collects, inSession
  <2>1. k \in 1 .. attempts /\ k # attempts
    BY <1>1 DEF Settled
  <2>2. k \in 1 .. MaxAttempts
    BY <1>2, <2>1, EvalAssumption
  <2> QED
    BY <2>1, <2>2, <1>1, <1>2, <1>8 DEF Settled, EvalInv, EvalTypes
<1>11. ResultInv'
  <2> SUFFICES ASSUME NEW u \in EvalTasks, results'[u] # NoResult
               PROVE  /\ results'[u].attempt \in 1 .. attempts'
                      /\ runner'.pc = "ran" => results'[u].attempt # attempts'
                      /\ saves' = "session" =>
                           (IF results'[u].dir = "session" THEN session'[results'[u].attempt] ELSE trajectory'[u])
                              = OwnShots(results'[u].outcome, results'[u].attempt, session')
    BY DEF ResultInv, Settled, ScreenshotsOf
  <2>1. CASE u # t
    <3>1. results'[u] = results[u] /\ results[u] # NoResult
      BY <1>1, <2>1 DEF EvalInv, EvalTypes
    <3>2. saves' = "session" => trajectory'[u] = trajectory[u]
      BY <1>1, <1>5, <1>6
    <3> QED
      BY <1>1, <1>10, <3>1, <3>2, RunningKeepsResult
  <2>2. CASE u = t
    <3>1. results'[u] = result
      BY <1>1, <1>2, <2>2 DEF EvalInv, EvalTypes
    <3>2. results'[u].attempt = attempts /\ results'[u].dir = dir /\ (results'[u].outcome = "error" <=> runner.raised)
      BY <1>3, <3>1
    <3> HIDE DEF result
    <3>3. ASSUME saves = "session", dir = "session"
          PROVE  session'[attempts] = OwnShots(results'[u].outcome, attempts, session')
      BY <1>4, <3>2, <3>3 DEF OwnShots
    <3>4. ASSUME saves = "session", dir # "session"
          PROVE  NoFiles = OwnShots(results'[u].outcome, attempts, session')
      BY <1>1, <1>4, <3>2, <3>4 DEF OwnShots
    <3>5. saves = "session" => trajectory'[u] = NoFiles
      BY <1>6
    <3>6. attempts' = attempts /\ attempts \in 1 .. attempts /\ runner'.pc # "ran" /\ saves' = saves
      BY <1>1, <1>2, <1>8, EvalAssumption
    <3> HIDE DEF dir
    <3> QED
      BY <3>2, <3>3, <3>4, <3>5, <3>6
  <2> QED
    BY <2>1, <2>2
<1> QED
  BY <1>1, <1>7, <1>9, <1>10, <1>11, RunningKeepsCopies DEF EvalInv

LEMMA RunnerMovesOn ==
    ASSUME EvalInv, AnswerLine \/ RunInterrupted
    PROVE  EvalInv'
<1>1. /\ UNCHANGED <<saves, results, trajectory, session, attempts>> /\ UnchangedJudging
      /\ runner'.pc \in {"off", "next"} /\ runner.pc # "off" /\ lastDriver' = 0
  <2>1. CASE AnswerLine
    BY <2>1 DEF AnswerLine, RunnerOff, CleanupRunResources
  <2>2. CASE RunInterrupted
    BY <2>2 DEF RunInterrupted, RunnerOff
  <2> QED
    BY <2>1, <2>2
<1>2. runner' \in [pc : {"off", "next", "ran", "exported"}, todo : SUBSET EvalTasks,
                   task : EvalTasks \cup {NoTask}, raised : BOOLEAN]
  <2>1. runner.todo \in SUBSET EvalTasks
    BY DEF EvalInv, EvalTypes
  <2>2. CASE runner' = RunnerOff
    BY <2>2 DEF RunnerOff
  <2>3. CASE runner' = [RunnerOff EXCEPT !.pc = "next", !.todo = runner.todo]
    BY <2>1, <2>3 DEF RunnerOff
  <2> QED
    BY <2>2, <2>3 DEF AnswerLine, RunInterrupted
<1>3. EvalTypes'
  BY <1>1, <1>2 DEF EvalInv, EvalTypes, UnchangedJudging
<1>4. RunnerInv'
  BY <1>1 DEF EvalInv, RunnerInv
<1>5. \A k : Settled(k) => Settled(k)' /\ session'[k] = session[k]
  BY <1>1 DEF Settled
<1>6. ResultInv'
  <2> SUFFICES ASSUME NEW u \in EvalTasks, results'[u] # NoResult
               PROVE  /\ results'[u].attempt \in 1 .. attempts'
                      /\ runner'.pc = "ran" => results'[u].attempt # attempts'
                      /\ saves' = "session" =>
                           (IF results'[u].dir = "session" THEN session'[results'[u].attempt] ELSE trajectory'[u])
                              = OwnShots(results'[u].outcome, results'[u].attempt, session')
    BY DEF ResultInv, Settled, ScreenshotsOf
  <2> QED
    BY <1>1, <1>5, RunningKeepsResult
<1> QED
  BY <1>1, <1>3, <1>4, <1>5, <1>6, RunningKeepsCopies DEF EvalInv

LEMMA LabelledTasks ==
    ASSUME EvalInv PROVE AlreadyIds \subseteq EvalTasks /\ NoTask \notin AlreadyIds
<1> SUFFICES ASSUME NEW i \in DOMAIN labels PROVE labels[i].task \in EvalTasks
  BY EvalAssumption DEF AlreadyIds
<1>1. labels \in Seq(LabelSet) /\ i \in 1 .. Len(labels)
  BY DEF EvalInv, EvalTypes
<1>2. labels[i] \in LabelSet
  BY <1>1
<1> QED
  BY <1>2 DEF LabelSet

LEMMA RunEvalKeepsInv ==
    ASSUME EvalInv, RunEval
    PROVE  EvalInv'
<1> DEFINE copied == {t \in EvalTasks : SanitizeRuns[t] # NoCopy}
<1>1. /\ runner.pc = "off" /\ evaluation.state = "none" /\ sanitized' = SanitizeRuns
      /\ evaluation' = [state |-> "running", count |-> evaluation.count + 1]
      /\ UnchangedRunning /\ labels' = labels
  BY DEF RunEval
<1>2. PICK chunks \in [Workers -> SUBSET copied] :
        /\ \A v, w \in Workers : v # w => chunks[v] \cap chunks[w] = {}
        /\ judge' = [w \in Workers |-> [JudgeOff EXCEPT !.todo = chunks[w]]]
  BY DEF RunEval, Chunks
<1>3. \A t \in EvalTasks :
        \/ SanitizeRuns[t] = NoCopy
        \/ results[t] # NoResult /\ SanitizeRuns[t] = [result |-> results[t], shots |-> ScreenshotsOf(t)]
  BY DEF SanitizeRuns
<1>4. ASSUME NEW t \in EvalTasks, results[t] # NoResult PROVE ScreenshotsOf(t) \in Files
  <2>1. Settled(results[t].attempt) /\ attempts \in 0 .. MaxAttempts
    BY <1>4 DEF EvalInv, ResultInv, EvalTypes
  <2>2. results[t].attempt \in 1 .. MaxAttempts
    BY <2>1, EvalAssumption DEF Settled
  <2> QED
    BY <2>2 DEF ScreenshotsOf, EvalInv, EvalTypes
<1>5. NoCopy \in CopySet
  BY DEF NoCopy, NoResult, NoFiles, CopySet, ResultSet, OutcomeNames, Files
<1>6. SanitizeRuns \in [EvalTasks -> CopySet]
  <2> HIDE DEF copied
  <2>1. ASSUME NEW t \in EvalTasks PROVE SanitizeRuns[t] \in CopySet
    <3>1. results[t] \in ResultSet
      BY DEF EvalInv, EvalTypes
    <3>2. CASE results[t] # NoResult /\ SanitizeRuns[t] = [result |-> results[t], shots |-> ScreenshotsOf(t)]
      BY <3>1, <3>2, <1>4 DEF CopySet
    <3> QED
      BY <3>2, <1>3, <1>5
  <2>2. SanitizeRuns = [t \in EvalTasks |-> SanitizeRuns[t]]
    BY DEF SanitizeRuns
  <2> QED
    BY <2>1, <2>2
<1>7. EvalTypes'
  <2>1. judge' \in [Workers -> [todo : SUBSET EvalTasks, task : EvalTasks \cup {NoTask}]]
    BY <1>2 DEF JudgeOff
  <2>2. evaluation' \in [state : {"none", "running", "failed"}, count : Nat]
    BY <1>1 DEF EvalInv, EvalTypes
  <2> QED
    BY <1>1, <1>6, <2>1, <2>2 DEF EvalInv, EvalTypes, UnchangedRunning
<1>8. RunnerInv' /\ ResultInv'
  BY <1>1 DEF EvalInv, RunnerInv, ResultInv, UnchangedRunning, Settled, ScreenshotsOf, OwnShots
<1>9. CopyInv'
  <2> SUFFICES ASSUME NEW t \in EvalTasks, sanitized'[t] # NoCopy
               PROVE  /\ sanitized'[t].result.attempt \in 1 .. attempts'
                      /\ runner'.pc = "ran" => sanitized'[t].result.attempt # attempts'
                      /\ saves' = "session" =>
                           sanitized'[t].shots =
                             OwnShots(sanitized'[t].result.outcome, sanitized'[t].result.attempt, session')
    BY DEF CopyInv, Settled
  <2> HIDE DEF copied
  <2>1. sanitized'[t].result = results[t] /\ sanitized'[t].shots = ScreenshotsOf(t) /\ results[t] # NoResult
    <3>1. sanitized'[t] = SanitizeRuns[t]
      BY <1>1
    <3>2. results[t] # NoResult /\ sanitized'[t] = [result |-> results[t], shots |-> ScreenshotsOf(t)]
      BY <3>1, <1>3
    <3> QED
      BY <3>2
  <2>2. Settled(results[t].attempt)
        /\ (saves = "session" => ScreenshotsOf(t) = OwnShots(results[t].outcome, results[t].attempt, session))
    BY <2>1 DEF EvalInv, ResultInv
  <2>3. attempts' = attempts /\ runner' = runner /\ saves' = saves /\ session' = session
    BY <1>1 DEF UnchangedRunning
  <2> QED
    BY <2>1, <2>2, <2>3 DEF Settled
<1>10. LabelInv'
  BY <1>1 DEF EvalInv, LabelInv, UnchangedRunning, Settled, OwnShots
<1>11. JudgeInv'
  <2>1. \A w \in Workers : judge'[w].todo = chunks[w] /\ judge'[w].task = NoTask
    BY <1>2 DEF JudgeOff
  <2>2. \A w \in Workers : judge'[w].todo \cup ({judge'[w].task} \ {NoTask}) = chunks[w]
    BY <2>1
  <2>3. \A w \in Workers : chunks[w] \subseteq copied /\ NoTask \notin chunks[w]
    BY EvalAssumption
  <2>4. NoTask \notin {labels[i].task : i \in DOMAIN labels}
    BY LabelledTasks DEF AlreadyIds
  <2>5. evaluation'.state # "none" /\ copied = {t \in EvalTasks : sanitized'[t] # NoCopy}
    BY <1>1
  <2>6. AlreadyIds' = {labels[i].task : i \in DOMAIN labels}
    BY <1>1 DEF AlreadyIds
  <2> QED
    BY <1>2, <2>1, <2>2, <2>3, <2>4, <2>5, <2>6 DEF JudgeInv, Claims
<1> QED
  BY <1>7, <1>8, <1>9, <1>10, <1>11 DEF EvalInv

\* A step of the judging leaves the runs and what was copied alone.
LEMMA JudgingKeepsRuns ==
    ASSUME EvalInv, UnchangedRunning, sanitized' = sanitized
    PROVE  RunnerInv' /\ ResultInv' /\ CopyInv'
BY DEF EvalInv, RunnerInv, ResultInv, CopyInv, UnchangedRunning, Settled, ScreenshotsOf, OwnShots

LEMMA AutoEvalKeepsInv ==
    ASSUME EvalInv, NEW w \in Workers, NEW response \in Responses, AutoEval(w, response)
    PROVE  EvalInv'
<1> DEFINE t == judge[w].task
           line == [task |-> t, attempt |-> sanitized[t].result.attempt, outcome |-> sanitized[t].result.outcome,
                    shots |-> sanitized[t].shots, label |-> ExtractStatusLabel(response)]
           last == Len(labels) + 1
<1>1. /\ t # NoTask /\ labels' = Append(labels, line) /\ judge' = [judge EXCEPT ![w].task = NoTask]
      /\ UnchangedRunning /\ UNCHANGED <<sanitized, evaluation>>
  BY DEF AutoEval
<1>2. t \in EvalTasks /\ t \in Claims(w)
  BY <1>1 DEF EvalInv, EvalTypes, Claims
<1>3. sanitized[t] # NoCopy /\ t \notin AlreadyIds
  BY <1>2 DEF EvalInv, JudgeInv
<1>4. line \in LabelSet
  BY <1>2 DEF LabelSet, ExtractStatusLabel, EvalInv, EvalTypes, CopySet, ResultSet
<1>5. /\ line.task = t /\ Settled(line.attempt)
      /\ saves = "session" => line.shots = OwnShots(line.outcome, line.attempt, session)
  BY <1>2, <1>3 DEF EvalInv, CopyInv
<1> HIDE DEF line
<1>6. /\ labels' \in Seq(LabelSet) /\ DOMAIN labels = 1 .. Len(labels) /\ DOMAIN labels' = 1 .. last
      /\ labels'[last] = line /\ Len(labels) \in Nat
      /\ \A i \in DOMAIN labels : labels'[i] = labels[i]
  BY <1>1, <1>4 DEF EvalInv, EvalTypes
<1>7. /\ DOMAIN judge' = Workers /\ judge'[w].todo = judge[w].todo /\ judge'[w].task = NoTask
      /\ \A v \in Workers \ {w} : judge'[v] = judge[v]
  BY <1>1 DEF EvalInv, EvalTypes
<1>8. judge' \in [Workers -> [todo : SUBSET EvalTasks, task : EvalTasks \cup {NoTask}]]
  BY <1>1 DEF EvalInv, EvalTypes
<1>9. EvalTypes'
  BY <1>1, <1>6, <1>8 DEF EvalInv, EvalTypes, UnchangedRunning
<1>10. LabelInv'
  <2> HIDE DEF last, t
  <2>1. attempts' = attempts /\ runner' = runner /\ saves' = saves /\ session' = session
    BY <1>1 DEF UnchangedRunning
  <2>2. ASSUME NEW i \in DOMAIN labels'
        PROVE  /\ labels'[i].attempt \in 1 .. attempts'
               /\ runner'.pc = "ran" => labels'[i].attempt # attempts'
               /\ saves' = "session" => labels'[i].shots = OwnShots(labels'[i].outcome, labels'[i].attempt, session')
    <3>1. CASE i \in DOMAIN labels
      <4>1. labels'[i] = labels[i]
        BY <3>1, <1>6
      <4>2. Settled(labels[i].attempt)
            /\ (saves = "session" => labels[i].shots = OwnShots(labels[i].outcome, labels[i].attempt, session))
        BY <3>1 DEF EvalInv, LabelInv
      <4> QED
        BY <4>1, <4>2, <2>1 DEF Settled
    <3>2. CASE i = last
      BY <3>2, <1>5, <1>6, <2>1 DEF Settled
    <3> QED
      BY <3>1, <3>2, <1>6 DEF last
  <2>3. ASSUME NEW i \in DOMAIN labels', NEW j \in DOMAIN labels', labels'[i].task = labels'[j].task
        PROVE  i = j
    <3>1. \A k \in DOMAIN labels : labels[k].task # t
      BY <1>3 DEF AlreadyIds
    <3>2. \A k \in DOMAIN labels' : k \in DOMAIN labels \/ k = last
      BY <1>6 DEF last
    <3>3. \A k \in DOMAIN labels : labels'[k].task # line.task
      BY <3>1, <1>5, <1>6
    <3>4. labels'[last].task = line.task
      BY <1>6
    <3> QED
      BY <2>3, <3>2, <3>3, <3>4, <1>6 DEF EvalInv, LabelInv
  <2> QED
    BY <2>2, <2>3 DEF LabelInv, Settled
<1>11. JudgeInv'
  <2>1. \A v \in Workers \ {w} : judge'[v].todo \cup ({judge'[v].task} \ {NoTask}) = Claims(v)
    BY <1>7 DEF Claims
  <2>2. judge'[w].todo \cup ({judge'[w].task} \ {NoTask}) \subseteq Claims(w)
    BY <1>7 DEF Claims
  <2>3. \A v \in Workers : judge'[v].task \notin AlreadyIds \cup {t}
    <3> SUFFICES ASSUME NEW v \in Workers PROVE judge'[v].task \notin AlreadyIds \cup {t}
      OBVIOUS
    <3>1. CASE v = w
      <4>1. NoTask \notin AlreadyIds
        BY LabelledTasks
      <4> QED
        BY <3>1, <4>1, <1>1, <1>7
    <3>2. CASE v # w
      <4>1. judge'[v].task = judge[v].task /\ judge[v].task \notin AlreadyIds
        BY <3>2, <1>7 DEF EvalInv, JudgeInv
      <4>2. t \notin Claims(v)
        BY <3>2, <1>2 DEF EvalInv, JudgeInv
      <4> QED
        BY <4>1, <4>2, <1>1 DEF Claims
    <3> QED
      BY <3>1, <3>2
  <2>4. AlreadyIds' \subseteq AlreadyIds \cup {t}
    <3> SUFFICES ASSUME NEW i \in DOMAIN labels' PROVE labels'[i].task \in AlreadyIds \cup {t}
      BY DEF AlreadyIds
    <3>1. CASE i \in DOMAIN labels
      BY <3>1, <1>6 DEF AlreadyIds
    <3>2. CASE i = last
      BY <3>2, <1>5, <1>6
    <3> QED
      BY <3>1, <3>2, <1>6
  <2>5. evaluation'.state = "none" => FALSE
    <3>1. JudgeOff.task = NoTask
      BY DEF JudgeOff
    <3> QED
      BY <3>1, <1>1 DEF EvalInv, JudgeInv
  <2>6. sanitized' = sanitized
    BY <1>1
  <2>7. \A v \in Workers : judge'[v].task \notin judge'[v].todo
    <3>1. NoTask \notin judge[w].todo
      BY EvalAssumption DEF EvalInv, EvalTypes
    <3> QED
      BY <3>1, <1>7 DEF EvalInv, JudgeInv
  <2> HIDE DEF t
  <2> QED
    BY <2>1, <2>2, <2>3, <2>4, <2>5, <2>6, <2>7 DEF JudgeInv, Claims, EvalInv
<1> QED
  BY <1>1, <1>9, <1>10, <1>11, JudgingKeepsRuns DEF EvalInv

\* The other steps of the judging: a worker's claims shrink, and it gets to work
\* only on a task without a label.
LEMMA ClaimsShrink ==
    ASSUME EvalInv, UnchangedRunning, UNCHANGED <<sanitized, labels>>,
           judge' \in [Workers -> [todo : SUBSET EvalTasks, task : EvalTasks \cup {NoTask}]],
           evaluation' \in [state : {"none", "running", "failed"}, count : Nat],
           \A w \in Workers : Claims(w)' \subseteq Claims(w) /\ judge'[w].task \notin judge'[w].todo,
           \A w \in Workers : judge'[w].task \notin AlreadyIds,
           evaluation'.state = "none" => \A w \in Workers : judge'[w] = JudgeOff
    PROVE  EvalInv'
<1>1. EvalTypes'
  BY DEF EvalInv, EvalTypes, UnchangedRunning
<1>2. LabelInv'
  BY DEF EvalInv, LabelInv, UnchangedRunning, Settled, OwnShots
<1>3. JudgeInv'
  <2>1. AlreadyIds' = AlreadyIds
    BY DEF AlreadyIds
  <2>2. \A v, w \in Workers : v # w => Claims(v) \cap Claims(w) = {}
    BY DEF EvalInv, JudgeInv
  <2>3. \A w \in Workers : Claims(w) \subseteq {t \in EvalTasks : sanitized[t] # NoCopy}
    BY DEF EvalInv, JudgeInv
  <2>4. \A v, w \in Workers : v # w => Claims(v)' \cap Claims(w)' = {}
    BY <2>2
  <2>5. \A w \in Workers : Claims(w)' \subseteq {t \in EvalTasks : sanitized'[t] # NoCopy}
    BY <2>3
  <2> QED
    BY <2>1, <2>4, <2>5 DEF JudgeInv
<1> QED
  BY <1>1, <1>2, <1>3, JudgingKeepsRuns DEF EvalInv

LEMMA TakesTaskKeepsInv ==
    ASSUME EvalInv, NEW w \in Workers, NEW t \in EvalTasks, TakesTask(w, t)
    PROVE  EvalInv'
<1> DEFINE held == IF IsDone(t) THEN NoTask ELSE t
<1>1. /\ evaluation.state # "none" /\ judge[w].task = NoTask /\ t \in judge[w].todo
      /\ judge' = [judge EXCEPT ![w] = [todo |-> judge[w].todo \ {t}, task |-> held]]
      /\ UnchangedRunning /\ UNCHANGED <<sanitized, labels, evaluation>>
  BY DEF TakesTask
<1>2. held \in EvalTasks \cup {NoTask} /\ held \in {t, NoTask} /\ held \notin AlreadyIds
  BY LabelledTasks DEF IsDone
<1> HIDE DEF held
<1>3. judge' \in [Workers -> [todo : SUBSET EvalTasks, task : EvalTasks \cup {NoTask}]]
  BY <1>1, <1>2 DEF EvalInv, EvalTypes
<1>4. /\ judge'[w].todo = judge[w].todo \ {t} /\ judge'[w].task = held
      /\ \A v \in Workers \ {w} : judge'[v] = judge[v]
  BY <1>1 DEF EvalInv, EvalTypes
<1>5. ASSUME NEW v \in Workers
      PROVE  /\ Claims(v)' \subseteq Claims(v) /\ judge'[v].task \notin judge'[v].todo
             /\ judge'[v].task \notin AlreadyIds
  <2>1. CASE v = w
    <3>1. NoTask \notin judge[w].todo
      BY EvalAssumption DEF EvalInv, EvalTypes
    <3> QED
      BY <2>1, <3>1, <1>1, <1>2, <1>4 DEF Claims
  <2>2. CASE v # w
    BY <2>2, <1>4 DEF Claims, EvalInv, JudgeInv
  <2> QED
    BY <2>1, <2>2
<1>6. evaluation'.state # "none" /\ evaluation' \in [state : {"none", "running", "failed"}, count : Nat]
  BY <1>1 DEF EvalInv, EvalTypes
<1> QED
  BY <1>1, <1>3, <1>5, <1>6, ClaimsShrink

LEMMA OffClaimsNothing ==
    ASSUME EvalInv
    PROVE  /\ JudgeOff.task \notin JudgeOff.todo /\ JudgeOff.task \notin AlreadyIds
           /\ JudgeOff.todo \cup ({JudgeOff.task} \ {NoTask}) = {}
           /\ JudgeOff \in [todo : SUBSET EvalTasks, task : EvalTasks \cup {NoTask}]
BY LabelledTasks DEF JudgeOff

LEMMA JudgingStops ==
    ASSUME EvalInv,
           \/ \E w \in Workers : AutoEvalRaises(w)
           \/ EvalEnds \/ EvalKilled
    PROVE  EvalInv'
<1>1. UnchangedRunning /\ UNCHANGED <<sanitized, labels>>
  BY DEF AutoEvalRaises, EvalEnds, EvalKilled
<1>2. judge \in [Workers -> [todo : SUBSET EvalTasks, task : EvalTasks \cup {NoTask}]]
      /\ evaluation \in [state : {"none", "running", "failed"}, count : Nat]
  BY DEF EvalInv, EvalTypes
<1>3. ASSUME NEW v \in Workers
      PROVE  judge'[v] = judge[v] \/ judge'[v] = JudgeOff
  <2>1. ASSUME NEW w \in Workers, AutoEvalRaises(w) PROVE judge'[v] = judge[v] \/ judge'[v] = JudgeOff
    BY <2>1, <1>2 DEF AutoEvalRaises
  <2> QED
    BY <2>1 DEF EvalEnds, EvalKilled
<1>4. DOMAIN judge' = Workers /\ judge' = [v \in Workers |-> judge'[v]]
  <2>1. ASSUME NEW w \in Workers, AutoEvalRaises(w) PROVE judge' = [v \in Workers |-> judge'[v]]
    BY <2>1, <1>2 DEF AutoEvalRaises
  <2>2. CASE EvalEnds
    BY <2>2, <1>2 DEF EvalEnds
  <2>3. CASE EvalKilled
    BY <2>3 DEF EvalKilled
  <2> QED
    BY <2>1, <2>2, <2>3
<1>5. judge' \in [Workers -> [todo : SUBSET EvalTasks, task : EvalTasks \cup {NoTask}]]
  BY <1>2, <1>3, <1>4, OffClaimsNothing
<1>6. ASSUME NEW v \in Workers
      PROVE  /\ judge'[v].todo \cup ({judge'[v].task} \ {NoTask}) \subseteq judge[v].todo \cup ({judge[v].task} \ {NoTask})
             /\ judge'[v].task \notin judge'[v].todo /\ judge'[v].task \notin AlreadyIds
  BY <1>3, OffClaimsNothing DEF EvalInv, JudgeInv
<1>7. evaluation' \in [state : {"none", "running", "failed"}, count : Nat]
      /\ (evaluation'.state = "none" => \A w \in Workers : judge'[w] = JudgeOff)
  <2>1. ASSUME NEW w \in Workers, AutoEvalRaises(w)
        PROVE  evaluation' \in [state : {"none", "running", "failed"}, count : Nat] /\ evaluation'.state # "none"
    BY <2>1, <1>2 DEF AutoEvalRaises
  <2>2. CASE EvalEnds
    BY <2>2, <1>2 DEF EvalEnds
  <2>3. CASE EvalKilled
    BY <2>3, <1>2 DEF EvalKilled
  <2> QED
    BY <2>1, <2>2, <2>3
<1>8. \A v \in Workers : Claims(v)' \subseteq Claims(v)
  BY <1>6 DEF Claims
<1> QED
  BY <1>1, <1>5, <1>6, <1>7, <1>8, ClaimsShrink

LEMMA EvalInvHolds == EvalSpec => []EvalInv
<1>1. EvalInit => EvalInv
  <2> SUFFICES ASSUME EvalInit PROVE EvalInv
    OBVIOUS
  <2>1. NoFiles \in Files /\ NoResult \in ResultSet
    BY DEF NoFiles, Files, NoResult, ResultSet, OutcomeNames
  <2>2. NoCopy \in CopySet
    BY <2>1 DEF NoCopy, CopySet
  <2>3. runner \in [pc : {"off", "next", "ran", "exported"}, todo : SUBSET EvalTasks,
                    task : EvalTasks \cup {NoTask}, raised : BOOLEAN]
    BY DEF EvalInit, RunnerOff
  <2>4. judge \in [Workers -> [todo : SUBSET EvalTasks, task : EvalTasks \cup {NoTask}]]
    BY DEF EvalInit, JudgeOff
  <2>5. labels \in Seq(LabelSet) /\ DOMAIN labels = {} /\ Len(labels) = 0
    BY DEF EvalInit
  <2>6. EvalTypes
    BY <2>1, <2>2, <2>3, <2>4, <2>5, EvalAssumption DEF EvalInit, EvalTypes, NoEvaluation
  <2>7. RunnerInv
    BY DEF EvalInit, RunnerInv, RunnerOff
  <2>8. ResultInv /\ CopyInv /\ LabelInv
    BY <2>5 DEF EvalInit, ResultInv, CopyInv, LabelInv
  <2>9. JudgeInv
    BY <2>5 DEF EvalInit, JudgeInv, Claims, AlreadyIds, JudgeOff
  <2> QED
    BY <2>6, <2>7, <2>8, <2>9 DEF EvalInv
<1>2. EvalInv /\ [EvalNext]_evalVars => EvalInv'
  <2> SUFFICES ASSUME EvalInv, [EvalNext]_evalVars PROVE EvalInv'
    OBVIOUS
  <2>1. ASSUME NEW tasks \in SUBSET EvalTasks, RunDataset(tasks) PROVE EvalInv'
    BY <2>1, RunDatasetKeepsInv
  <2>2. ASSUME NEW t \in EvalTasks, NEW o \in Outcomes, RunWithHooks(t, o) PROVE EvalInv'
    BY <2>2, RunWithHooksKeepsInv
  <2>3. ASSUME NEW said \in SUBSET {"answer", "next_step"}, NEW named \in BOOLEAN, RunTaskEnds(said, named)
        PROVE  EvalInv'
    BY <2>3, RunTaskEndsKeepsInv
  <2>4. CASE AnswerLine \/ RunInterrupted
    BY <2>4, RunnerMovesOn
  <2>5. CASE RunRetryTasks
    <3>1. Excluded \in SUBSET EvalTasks
      BY DEF Excluded
    <3> QED
      BY <2>1, <2>5, <3>1 DEF RunRetryTasks
  <2>6. CASE RunEval
    BY <2>6, RunEvalKeepsInv
  <2>7. ASSUME NEW w \in Workers, NEW t \in EvalTasks, TakesTask(w, t) PROVE EvalInv'
    BY <2>7, TakesTaskKeepsInv
  <2>8. ASSUME NEW w \in Workers, NEW response \in Responses, AutoEval(w, response) PROVE EvalInv'
    BY <2>8, AutoEvalKeepsInv
  <2>9. ASSUME (\E w \in Workers : AutoEvalRaises(w)) \/ EvalEnds \/ EvalKilled PROVE EvalInv'
    BY <2>9, JudgingStops
  <2>10. CASE UNCHANGED evalVars
    BY <2>10 DEF evalVars, EvalInv, EvalTypes, RunnerInv, ResultInv, CopyInv, LabelInv, JudgeInv, Settled,
                 ScreenshotsOf, OwnShots, Claims, AlreadyIds
  <2> QED
    BY <2>1, <2>2, <2>3, <2>4, <2>5, <2>6, <2>7, <2>8, <2>9, <2>10 DEF EvalNext
<1> QED
  BY <1>1, <1>2, PTL DEF EvalSpec

\* For any tasks, workers and number of attempts and evaluations, however they are
\* interrupted and repeated, a task is labelled at most once; and with screenshots
\* kept in the session, a label rests on the screenshots of the run it names, or
\* on none where that run ended in an error.
THEOREM TasksLabelledOnceOnTheirRun == EvalSpec => []LabelsOnceAndOnOwnRun
<1>1. EvalInv => LabelsOnceAndOnOwnRun
  BY DEF EvalInv, LabelInv, LabelsOnceAndOnOwnRun, OwnShots
<1> QED
  BY <1>1, EvalInvHolds, PTL

-----------------------------------------------------------------------------
(* Typing into a field.  Texts are sequences over no particular set.       *)

IsText(text) == \E S : text \in Seq(S)

\* The two parts of a concatenation.
LEMMA PartsOfConcat ==
    ASSUME NEW S, NEW s \in Seq(S), NEW t \in Seq(S)
    PROVE  /\ SubSeq(s \o t, 1, Len(s)) = s
           /\ SubSeq(s \o t, Len(s) + 1, Len(s \o t)) = t
<1> DEFINE u == s \o t
<1>1. u \in Seq(S) /\ Len(u) = Len(s) + Len(t) /\ Len(s) \in Nat /\ Len(t) \in Nat
  BY ConcatProperties
<1>2. /\ \A i \in 1 .. Len(s) : u[i] = s[i] /\ s[i] \in S
      /\ \A i \in 1 .. Len(t) : u[Len(s) + i] = t[i] /\ t[i] \in S
  <2>1. \A i \in 1 .. Len(s) + Len(t) : u[i] = IF i <= Len(s) THEN s[i] ELSE t[i - Len(s)]
    BY ConcatProperties
  <2> HIDE DEF u
  <2>2. ASSUME NEW i \in 1 .. Len(s) PROVE u[i] = s[i] /\ s[i] \in S
    BY <1>1, <2>1
  <2>3. ASSUME NEW i \in 1 .. Len(t) PROVE u[Len(s) + i] = t[i] /\ t[i] \in S
    <3>1. Len(s) + i \in 1 .. Len(s) + Len(t) /\ ~(Len(s) + i <= Len(s)) /\ Len(s) + i - Len(s) = i
      BY <1>1
    <3> QED
      BY <2>1, <3>1
  <2> QED
    BY <2>2, <2>3
<1>3. \A i \in 1 .. Len(u) : u[i] \in S
  <2> HIDE DEF u
  <2> QED
    BY <1>1
<1> HIDE DEF u
<1>4. SubSeq(u, 1, Len(s)) = s
  <2>1. /\ SubSeq(u, 1, Len(s)) \in Seq(S) /\ Len(SubSeq(u, 1, Len(s))) = Len(s)
        /\ \A i \in 1 .. Len(s) : SubSeq(u, 1, Len(s))[i] = u[i]
    BY <1>1, <1>3, SubSeqProperties
  <2> QED
    BY <1>2, <2>1, SeqEqual
<1>5. SubSeq(u, Len(s) + 1, Len(u)) = t
  <2>1. /\ SubSeq(u, Len(s) + 1, Len(u)) \in Seq(S) /\ Len(SubSeq(u, Len(s) + 1, Len(u))) = Len(t)
        /\ \A i \in 1 .. Len(t) : SubSeq(u, Len(s) + 1, Len(u))[i] = u[Len(s) + i]
    BY <1>1, <1>3, SubSeqProperties
  <2> QED
    BY <1>2, <2>1, SeqEqual
<1> QED
  BY <1>4, <1>5 DEF u

\* What is typed at the end of what was typed before it continues it.
LEMMA TypedOn ==
    ASSUME NEW S, NEW old \in Seq(S), NEW text \in Seq(S), NEW k \in 0 .. Len(old),
           NEW n \in 0 .. Len(text), NEW m \in n .. Len(text)
    PROVE  LET f == SubSeq(old, 1, k) \o SubSeq(text, 1, n) \o SubSeq(old, k + 1, Len(old))
               keys == SubSeq(text, n + 1, m)
           IN SubSeq(f, 1, k + n) \o keys \o SubSeq(f, k + n + 1, Len(f))
                = SubSeq(old, 1, k) \o SubSeq(text, 1, m) \o SubSeq(old, k + 1, Len(old))
<1> DEFINE a == SubSeq(old, 1, k)
           b == SubSeq(text, 1, n)
           c == SubSeq(old, k + 1, Len(old))
           keys == SubSeq(text, n + 1, m)
<1>0. /\ Len(old) \in Nat /\ Len(text) \in Nat /\ k \in Nat /\ n \in Nat /\ m \in Nat
      /\ k <= Len(old) /\ n <= m /\ m <= Len(text)
      /\ \A i \in 1 .. Len(old) : old[i] \in S
      /\ \A i \in 1 .. Len(text) : text[i] \in S
  BY LenProperties, ElementOfSeq
<1>1. a \in Seq(S) /\ Len(a) = k /\ c \in Seq(S) /\ b \in Seq(S) /\ Len(b) = n /\ keys \in Seq(S)
  <2>1. a \in Seq(S) /\ Len(a) = k
    BY <1>0, SubSeqProperties
  <2>2. c \in Seq(S)
    BY <1>0, SubSeqProperties
  <2>3. b \in Seq(S) /\ Len(b) = n
    BY <1>0, SubSeqProperties
  <2>4. keys \in Seq(S)
    BY <1>0, SubSeqProperties
  <2> QED
    BY <2>1, <2>2, <2>3, <2>4
<1>2. b \o keys = SubSeq(text, 1, m)
  <2>1. 1 \in 1 .. Len(text) + 1 /\ n \in 1 - 1 .. Len(text) /\ m \in n .. Len(text)
    BY <1>0
  <2> QED
    BY <2>1, ConcatAdjacentSubSeq
<1> HIDE DEF a, b, c, keys
<1>3. a \o b \in Seq(S) /\ Len(a \o b) = k + n
  BY <1>1, ConcatProperties
<1>4. SubSeq((a \o b) \o c, 1, k + n) = a \o b /\ SubSeq((a \o b) \o c, k + n + 1, Len((a \o b) \o c)) = c
  <2> DEFINE ab == a \o b
  <2>1. ab \in Seq(S) /\ Len(ab) = k + n
    BY <1>3
  <2> HIDE DEF ab
  <2>2. SubSeq(ab \o c, 1, Len(ab)) = ab /\ SubSeq(ab \o c, Len(ab) + 1, Len(ab \o c)) = c
    BY <1>1, <2>1, PartsOfConcat
  <2> QED
    BY <2>1, <2>2 DEF ab
<1>5. (a \o b) \o keys = a \o (b \o keys)
  <2>1. a \in Seq(S) /\ b \in Seq(S) /\ keys \in Seq(S)
    BY <1>1
  <2> QED
    BY <2>1, SMTT(60)
<1> QED
  BY <1>2, <1>4, <1>5 DEF a, b, c, keys

LEMMA FunctionsAreTexts ==
    ASSUME NEW n \in Nat, NEW f, f = [i \in 1 .. n |-> f[i]]
    PROVE  IsText(f) /\ Len(f) = n
<1> DEFINE S == {f[i] : i \in 1 .. n}
<1>1. f \in [1 .. n -> S]
  BY Zenon
<1> HIDE DEF S
<1>2. f \in Seq(S) /\ Len(f) = n
  BY <1>1
<1> QED
  BY <1>2 DEF IsText

LEMMA TextsAreFunctions ==
    ASSUME NEW text, IsText(text)
    PROVE  Len(text) \in Nat /\ DOMAIN text = 1 .. Len(text) /\ IsFiniteSet(DOMAIN text)
<1>1. PICK S : text \in Seq(S)
  BY DEF IsText
<1>2. Len(text) \in Nat /\ DOMAIN text = 1 .. Len(text)
  BY <1>1
<1>3. IsFiniteSet(1 .. Len(text))
  <2>1. 1 \in Int /\ Len(text) \in Int
    BY <1>2
  <2> QED
    BY <2>1, FS_Interval
<1> QED
  BY <1>2, <1>3

\* Sanitizing a text gives a text.
LEMMA KeptIsText ==
    ASSUME NEW text, NEW positions, IsFiniteSet(positions)
    PROVE  IsText(KeepAt(text, positions))
<1> DEFINE f == KeepAt(text, positions)
           n == Cardinality(positions)
           char(i) == text[CHOOSE p \in positions : Cardinality({j \in positions : j <= p}) = i]
<1>1. n \in Nat
  BY FS_CardinalityType
<1>2. f = [i \in 1 .. n |-> f[i]]
  <2>1. f = [i \in 1 .. n |-> char(i)]
    BY DEF KeepAt
  <2> HIDE DEF f, n, char
  <2> QED
    BY <2>1, Zenon
<1> HIDE DEF f, n
<1>3. IsText(f)
  BY <1>1, <1>2, FunctionsAreTexts
<1> QED
  BY <1>3 DEF f

LEMMA MappedIsText ==
    ASSUME NEW text, IsText(text), NEW f, f = [i \in DOMAIN text |-> f[i]]
    PROVE  IsText(f) /\ DOMAIN f = DOMAIN text
<1>1. Len(text) \in Nat /\ DOMAIN text = 1 .. Len(text)
  BY TextsAreFunctions
<1>2. f = [i \in 1 .. Len(text) |-> f[i]]
  BY <1>1, Zenon
<1>3. IsText(f)
  BY <1>1, <1>2, FunctionsAreTexts
<1> QED
  BY <1>3, Zenon

LEMMA ReplacedIsText ==
    ASSUME NEW text, IsText(text), NEW char, NEW with
    PROVE  IsText(Replace(text, char, with))
<1> DEFINE f == Replace(text, char, with)
<1>1. f = [i \in DOMAIN text |-> f[i]]
  BY Zenon DEF Replace
<1> HIDE DEF f
<1>2. IsText(f)
  BY <1>1, MappedIsText
<1> QED
  BY <1>2 DEF f

LEMMA PositionsAreFinite ==
    ASSUME NEW text, IsText(text), NEW positions \in SUBSET DOMAIN text
    PROVE  IsFiniteSet(positions)
BY TextsAreFunctions, FS_Subset

LEMMA WithoutIsText ==
    ASSUME NEW text, IsText(text), NEW chars
    PROVE  IsText(Without(text, chars))
<1> DEFINE kept == {i \in DOMAIN text : text[i] \notin chars}
<1>1. kept \in SUBSET DOMAIN text
  OBVIOUS
<1> HIDE DEF kept
<1>2. IsFiniteSet(kept)
  BY <1>1, PositionsAreFinite
<1>3. IsText(KeepAt(text, kept))
  BY <1>2, KeptIsText
<1> QED
  BY <1>3 DEF Without, kept

LEMMA CollapsedIsText ==
    ASSUME NEW text, IsText(text), NEW chars
    PROVE  IsText(CollapseRuns(text, chars))
<1> DEFINE kept == {i \in DOMAIN text : text[i] \in chars => i = 1 \/ text[i - 1] \notin chars}
           blanks == [i \in DOMAIN text |-> IF text[i] \in chars THEN "blank" ELSE text[i]]
<1>1. kept \in SUBSET DOMAIN text
  OBVIOUS
<1> HIDE DEF kept, blanks
<1>2. IsFiniteSet(kept)
  BY <1>1, PositionsAreFinite
<1>3. IsText(KeepAt(blanks, kept))
  BY <1>2, KeptIsText
<1> QED
  BY <1>3 DEF CollapseRuns, kept, blanks

LEMMA StrippedIsText ==
    ASSUME NEW text, IsText(text)
    PROVE  IsText(Strip(text))
<1> DEFINE solid == {i \in DOMAIN text : text[i] \notin Blanks \cup LineEnds}
           kept == {i \in DOMAIN text : \E first, last \in solid : first <= i /\ i <= last}
<1>1. kept \in SUBSET DOMAIN text
  OBVIOUS
<1> HIDE DEF kept, solid
<1>2. IsFiniteSet(kept)
  BY <1>1, PositionsAreFinite
<1>3. IsText(KeepAt(text, kept))
  BY <1>2, KeptIsText
<1> QED
  BY <1>3 DEF Strip, kept, solid

Hows == [nonbmp : {"remove", "replace", "transliterate", "keep", "raise"},
         newline : {"keep", "space", "remove", "normalize"},
         space : {"keep", "normalize", "strip", "full"}]

LEMMA SanitizeGivesText ==
    ASSUME NEW text, IsText(text), NEW how \in Hows
    PROVE  IsText(Sanitize(text, how))
<1>1. ASSUME NEW t, IsText(t) PROVE IsText(HandleNonBmp(t, how.nonbmp))
  <2>1. how.nonbmp \in {"remove", "replace", "transliterate", "keep", "raise"}
    BY DEF Hows
  <2> QED
    BY <1>1, <2>1, WithoutIsText, ReplacedIsText DEF HandleNonBmp
<1>2. ASSUME NEW t, IsText(t) PROVE IsText(RemoveControl(t))
  BY <1>2, WithoutIsText DEF RemoveControl
<1>3. ASSUME NEW t, IsText(t) PROVE IsText(HandleNewlines(t, how.newline))
  <2>1. how.newline \in {"keep", "space", "remove", "normalize"}
    BY DEF Hows
  <2>2. IsText(KeepAt(Replace(t, "return", "newline"), {i \in DOMAIN t : ~EndsInNewline(t, i)}))
    <3> DEFINE kept == {i \in DOMAIN t : ~EndsInNewline(t, i)}
    <3>1. kept \in SUBSET DOMAIN t
      OBVIOUS
    <3> HIDE DEF kept
    <3>2. IsFiniteSet(kept)
      BY <1>3, <3>1, PositionsAreFinite
    <3>3. IsText(KeepAt(Replace(t, "return", "newline"), kept))
      BY <3>2, KeptIsText
    <3> QED
      BY <3>3 DEF kept
  <2> QED
    BY <1>3, <2>1, <2>2, WithoutIsText, CollapsedIsText DEF HandleNewlines
<1>4. ASSUME NEW t, IsText(t) PROVE IsText(HandleWhitespace(t, how.space))
  <2>1. how.space \in {"keep", "normalize", "strip", "full"}
    BY DEF Hows
  <2> QED
    BY <1>4, <2>1, CollapsedIsText, StrippedIsText DEF HandleWhitespace
<1> QED
  BY <1>1, <1>2, <1>3, <1>4 DEF Sanitize

LEMMA SanitizedIsText ==
    ASSUME NEW text, IsText(text), NEW g, NEW impl, NEW s \in Sanitizers
    PROVE  IsText(SanitizedText(g, impl, text, s))
<1>1. Automatic(g, impl) \in Hows
  BY DEF Automatic, How, Hows
<1>2. ASSUME s \notin {"off", "auto"} PROVE Manual[s] \in Hows
  <2>1. s \in {"strict", "preserve", "refuse", "spell", "mark"}
    BY <1>2 DEF Sanitizers, Manual
  <2> QED
    BY <2>1 DEF Manual, Strict, PreserveFormatting, How, Hows
<1>3. CASE s = "off"
  BY <1>3 DEF SanitizedText
<1>4. CASE s = "auto"
  BY <1>1, <1>4, SanitizeGivesText DEF SanitizedText
<1>5. CASE s \notin {"off", "auto"}
  BY <1>2, <1>5, SanitizeGivesText DEF SanitizedText
<1> QED
  BY <1>3, <1>4, <1>5

InputPhases == {"idle", "focus", "clear", "type", "verify", "done", "skipped", "value_error", "unread"}

FieldInv ==
    /\ inputPc \in InputPhases
    /\ inputPc \in {"idle", "focus", "clear"} => field = OldValue /\ ~selected /\ ~meddled
    /\ inputPc # "idle" => IsText(request.text) /\ request.clear \in BOOLEAN

\* A call whose keys go in beside the old value.
Inserts ==
    /\ inputPc \in {"focus", "clear", "type", "verify"}
    /\ request.engine = "selenium" /\ ~request.clear /\ request.impl # "javascript" /\ ~meddled

After(text, n) == SubSeq(text, n + 1, Len(text))

\* While it types, the part that is typed stands together in the old value, with
\* the caret behind it, and the rest is still to be typed.
Typed(value, at, rest, text, k, n) ==
    /\ value = SubSeq(OldValue, 1, k) \o SubSeq(text, 1, n) \o After(OldValue, k)
    /\ at = k + n
    /\ rest = After(text, n)

TypingInv ==
    Inserts =>
      /\ ~selected
      /\ \E k \in 0 .. Len(OldValue), n \in 0 .. Len(request.text) :
           /\ Typed(field, caret, left, request.text, k, n)
           /\ inputPc \in {"focus", "clear"} => n = 0
           /\ inputPc = "verify" => n = Len(request.text)

InputInv == FieldInv /\ TypingInv /\ SilentMeansTyped

LEMMA OldValueIsText == IsText(OldValue) /\ \A text \in InputTexts : IsText(text)
BY InputAssumption DEF IsText

\* At the start nothing is typed, wherever the caret is.
LEMMA NothingTyped ==
    ASSUME NEW text, IsText(text), NEW k \in 0 .. Len(OldValue)
    PROVE  Typed(OldValue, k, text, text, k, 0)
<1>1. PICK S : OldValue \in Seq(S)
  BY OldValueIsText DEF IsText
<1>2. PICK T : text \in Seq(T)
  BY DEF IsText
<1>3. SubSeq(text, 1, 0) = <<>>
  BY SubSeqEmpty
<1>4. /\ Len(OldValue) \in Nat /\ k \in Nat /\ k <= Len(OldValue)
      /\ \A i \in 1 .. Len(OldValue) : OldValue[i] \in S
  BY <1>1, LenProperties, ElementOfSeq
<1>5. SubSeq(OldValue, 1, k) \in Seq(S)
  BY <1>4, SubSeqProperties
<1>6. SubSeq(OldValue, 1, k) \o <<>> = SubSeq(OldValue, 1, k)
  BY <1>5, ConcatEmptySeq
<1>7. SubSeq(OldValue, 1, k) \o SubSeq(OldValue, k + 1, Len(OldValue)) = OldValue
  <2>1. 1 \in 1 .. Len(OldValue) + 1 /\ k \in 1 - 1 .. Len(OldValue) /\ Len(OldValue) \in k .. Len(OldValue)
    BY <1>4
  <2>2. SubSeq(OldValue, 1, k) \o SubSeq(OldValue, k + 1, Len(OldValue)) = SubSeq(OldValue, 1, Len(OldValue))
    BY <1>1, <2>1, ConcatAdjacentSubSeq
  <2> QED
    BY <1>1, <2>2, SubSeqFull
<1>8. After(text, 0) = text
  <2>1. 0 + 1 = 1
    OBVIOUS
  <2>2. SubSeq(text, 1, Len(text)) = text
    BY <1>2, SubSeqFull
  <2> QED
    BY <2>1, <2>2 DEF After
<1>9. k = k + 0
  BY <1>4
<1>10. OldValue = SubSeq(OldValue, 1, k) \o SubSeq(text, 1, 0) \o After(OldValue, k)
  BY <1>3, <1>6, <1>7 DEF After
<1> QED
  BY <1>8, <1>9, <1>10 DEF Typed

\* What is left after j more characters.
LEMMA RestOfText ==
    ASSUME NEW S, NEW text \in Seq(S), NEW n \in 0 .. Len(text), NEW j \in 0 .. Len(text) - n
    PROVE  /\ SubSeq(After(text, n), 1, j) = SubSeq(text, n + 1, n + j)
           /\ After(After(text, n), j) = After(text, n + j)
           /\ Len(After(text, n)) = Len(text) - n
           /\ After(text, n) = <<>> <=> n = Len(text)
<1> DEFINE rest == After(text, n)
<1>0. rest = SubSeq(text, n + 1, Len(text))
  BY DEF After
<1> HIDE DEF rest
<1>1. /\ Len(text) \in Nat /\ n \in Nat /\ j \in Nat /\ n <= Len(text) /\ n + j <= Len(text)
      /\ \A i \in 1 .. Len(text) : text[i] \in S
  BY LenProperties, ElementOfSeq
<1>2. /\ rest \in Seq(S) /\ Len(rest) = Len(text) - n
      /\ \A i \in 1 .. Len(text) - n : rest[i] = text[n + i]
  <2>1. /\ SubSeq(text, n + 1, Len(text)) \in Seq(S)
        /\ Len(SubSeq(text, n + 1, Len(text))) = IF n + 1 <= Len(text) THEN Len(text) - (n + 1) + 1 ELSE 0
        /\ \A i \in 1 .. Len(text) - (n + 1) + 1 : SubSeq(text, n + 1, Len(text))[i] = text[(n + 1) + i - 1]
    BY <1>1, SubSeqProperties
  <2> QED
    BY <1>0, <1>1, <2>1
<1>3. \A i \in 1 .. Len(rest) : rest[i] \in S
  BY <1>1, <1>2
<1>4. SubSeq(rest, 1, j) = SubSeq(text, n + 1, n + j)
  <2>1. /\ SubSeq(rest, 1, j) \in Seq(S) /\ Len(SubSeq(rest, 1, j)) = j
        /\ \A i \in 1 .. j : SubSeq(rest, 1, j)[i] = rest[i]
    BY <1>1, <1>2, <1>3, SubSeqProperties
  <2>2. /\ SubSeq(text, n + 1, n + j) \in Seq(S) /\ Len(SubSeq(text, n + 1, n + j)) = j
        /\ \A i \in 1 .. j : SubSeq(text, n + 1, n + j)[i] = text[n + i]
    BY <1>1, SubSeqProperties
  <2> QED
    BY <1>1, <1>2, <2>1, <2>2, SeqEqual
<1>5. SubSeq(rest, j + 1, Len(rest)) = SubSeq(text, n + j + 1, Len(text))
  <2>1. /\ SubSeq(rest, j + 1, Len(rest)) \in Seq(S) /\ Len(SubSeq(rest, j + 1, Len(rest))) = Len(text) - n - j
        /\ \A i \in 1 .. Len(text) - n - j : SubSeq(rest, j + 1, Len(rest))[i] = rest[j + i]
    BY <1>1, <1>2, <1>3, SubSeqProperties
  <2>2. /\ SubSeq(text, n + j + 1, Len(text)) \in Seq(S) /\ Len(SubSeq(text, n + j + 1, Len(text))) = Len(text) - n - j
        /\ \A i \in 1 .. Len(text) - n - j : SubSeq(text, n + j + 1, Len(text))[i] = text[n + j + i]
    <3> DEFINE first == n + j + 1
    <3>1. first \in Nat /\ (first <= Len(text) => Len(text) - first + 1 = Len(text) - n - j) /\ \A i \in Nat : first + i - 1 = n + j + i
      BY <1>1
    <3>2. ~(first <= Len(text)) => Len(text) - n - j = 0
      BY <1>1
    <3>3. \A i \in 1 .. Len(text) - n - j : i \in 1 .. Len(text) - first + 1
      BY <1>1
    <3>4. \A i \in first .. Len(text) : text[i] \in S
      BY <1>1
    <3> HIDE DEF first
    <3>5. /\ SubSeq(text, first, Len(text)) \in Seq(S)
          /\ Len(SubSeq(text, first, Len(text))) = IF first <= Len(text) THEN Len(text) - first + 1 ELSE 0
          /\ \A i \in 1 .. Len(text) - first + 1 : SubSeq(text, first, Len(text))[i] = text[first + i - 1]
      BY <1>1, <3>1, <3>4, SubSeqProperties
    <3>6. SubSeq(text, first, Len(text)) \in Seq(S) /\ Len(SubSeq(text, first, Len(text))) = Len(text) - n - j
      BY <3>1, <3>2, <3>5
    <3>7. \A i \in 1 .. Len(text) - n - j : SubSeq(text, first, Len(text))[i] = text[n + j + i]
      BY <3>1, <3>3, <3>5
    <3> QED
      BY <3>6, <3>7 DEF first
  <2>3. ASSUME NEW i \in 1 .. Len(text) - n - j PROVE rest[j + i] = text[n + j + i]
    <3>1. j + i \in 1 .. Len(text) - n /\ n + (j + i) = n + j + i
      BY <1>1
    <3> QED
      BY <1>2, <3>1
  <2> DEFINE one == SubSeq(rest, j + 1, Len(rest))
             two == SubSeq(text, n + j + 1, Len(text))
  <2>4. \A i \in 1 .. Len(one) : one[i] = two[i]
    <3>1. Len(one) = Len(text) - n - j /\ \A i \in 1 .. Len(text) - n - j : one[i] = rest[j + i]
      BY <2>1
    <3>2. \A i \in 1 .. Len(text) - n - j : two[i] = text[n + j + i]
      BY <2>2
    <3> HIDE DEF one, two
    <3> QED
      BY <2>3, <3>1, <3>2
  <2>5. one \in Seq(S) /\ two \in Seq(S) /\ Len(one) = Len(two)
    BY <2>1, <2>2
  <2> HIDE DEF one, two
  <2>6. one = two
    BY <2>4, <2>5, SeqEqual
  <2> QED
    BY <2>6 DEF one, two
<1>6. rest = <<>> <=> n = Len(text)
  <2>1. rest = <<>> => Len(rest) = 0
    OBVIOUS
  <2>2. rest # <<>> => Len(rest) # 0
    BY <1>2, EmptySeq
  <2> QED
    BY <1>1, <1>2, <2>1, <2>2
<1> QED
  BY <1>2, <1>4, <1>5, <1>6 DEF rest, After

\* Typing keys at the caret, and so j more characters.
Put(value, at, keys) == SubSeq(value, 1, at) \o keys \o After(value, at)

LEMMA TypedFurther ==
    ASSUME NEW text, IsText(text), NEW k \in 0 .. Len(OldValue), NEW n \in 0 .. Len(text),
           NEW value, NEW at, NEW rest, Typed(value, at, rest, text, k, n), NEW j \in 0 .. Len(rest)
    PROVE  /\ Len(rest) = Len(text) - n /\ n + j \in 0 .. Len(text) /\ Len(SubSeq(rest, 1, j)) = j
           /\ Typed(Put(value, at, SubSeq(rest, 1, j)), at + j, After(rest, j), text, k, n + j)
           /\ After(rest, j) = <<>> => n + j = Len(text)
<1>1. PICK S : OldValue \in Seq(S) /\ text \in Seq(S)
  <2>1. PICK A : OldValue \in Seq(A)
    BY OldValueIsText DEF IsText
  <2>2. PICK B : text \in Seq(B)
    BY DEF IsText
  <2>3. OldValue \in Seq(A \cup B) /\ text \in Seq(A \cup B)
    BY <2>1, <2>2, SeqMonotonic
  <2> QED
    BY <2>3
<1>2. Len(text) \in Nat /\ n \in Nat /\ n <= Len(text) /\ k \in Nat /\ Len(OldValue) \in Nat
  BY <1>1, LenProperties
<1>3. /\ value = SubSeq(OldValue, 1, k) \o SubSeq(text, 1, n) \o After(OldValue, k)
      /\ at = k + n /\ rest = After(text, n)
  BY DEF Typed
<1>4. Len(rest) = Len(text) - n
  <2>1. 0 \in 0 .. Len(text) - n
    BY <1>2
  <2> QED
    BY <1>1, <1>3, <2>1, RestOfText
<1>5. j \in 0 .. Len(text) - n /\ j \in Nat /\ n + j \in 0 .. Len(text) /\ n + j \in n .. Len(text)
  BY <1>2, <1>4
<1>6. SubSeq(rest, 1, j) = SubSeq(text, n + 1, n + j) /\ After(rest, j) = After(text, n + j)
  BY <1>1, <1>3, <1>5, RestOfText
<1>7. After(rest, j) = <<>> => n + j = Len(text)
  <2>1. 0 \in 0 .. Len(text) - (n + j)
    BY <1>2, <1>5
  <2>2. After(text, n + j) = <<>> <=> n + j = Len(text)
    BY <1>1, <1>5, <2>1, RestOfText
  <2> QED
    BY <1>6, <2>2
<1>8. Len(SubSeq(rest, 1, j)) = j
  <2>1. rest \in Seq(S) /\ \A i \in 1 .. j : rest[i] \in S
    <3>1. \A i \in n + 1 .. Len(text) : text[i] \in S
      BY <1>1, <1>2, ElementOfSeq
    <3>2. After(text, n) \in Seq(S)
      BY <1>2, <3>1, SubSeqProperties DEF After
    <3> QED
      BY <1>3, <3>2, ElementOfSeq
  <2>2. Len(SubSeq(rest, 1, j)) = IF 1 <= j THEN j - 1 + 1 ELSE 0
    BY <1>5, <2>1, SubSeqProperties
  <2> QED
    BY <1>5, <2>2
<1>9. Put(value, at, SubSeq(rest, 1, j))
        = SubSeq(OldValue, 1, k) \o SubSeq(text, 1, n + j) \o After(OldValue, k)
  <2> DEFINE f == SubSeq(OldValue, 1, k) \o SubSeq(text, 1, n) \o SubSeq(OldValue, k + 1, Len(OldValue))
  <2>1. SubSeq(f, 1, k + n) \o SubSeq(text, n + 1, n + j) \o SubSeq(f, k + n + 1, Len(f))
          = SubSeq(OldValue, 1, k) \o SubSeq(text, 1, n + j) \o SubSeq(OldValue, k + 1, Len(OldValue))
    BY <1>1, <1>5, TypedOn
  <2>2. value = f
    BY <1>3 DEF After
  <2> HIDE DEF f
  <2> QED
    BY <1>3, <1>6, <2>1, <2>2 DEF After, Put
<1>10. at + j = k + (n + j)
  BY <1>2, <1>3, <1>5
<1> QED
  BY <1>4, <1>5, <1>6, <1>7, <1>8, <1>9, <1>10 DEF Typed

LEMMA TypingKeepsInput ==
    ASSUME InputInv, TypeKeys
    PROVE  InputInv'
<1> DEFINE j == IF request.impl = "send_keys" /\ left # <<>> THEN 1 ELSE Len(left)
<1>1. /\ inputPc = "type" /\ request' = request /\ meddled' = meddled /\ warned' = warned
      /\ Types(SubSeq(left, 1, j)) /\ left' = After(left, j)
      /\ inputPc' = IF left' # <<>> THEN "type" ELSE IF request.engine = "selenium" THEN "verify" ELSE "done"
  BY DEF TypeKeys, After
<1> HIDE DEF j
<1>2. FieldInv'
  BY <1>1 DEF InputInv, FieldInv, InputPhases
<1>3. SilentMeansTyped'
  BY <1>1 DEF SilentMeansTyped
<1>4. ASSUME Inserts'
      PROVE  ~selected' /\ \E k \in 0 .. Len(OldValue), n \in 0 .. Len(request.text) :
               Typed(field', caret', left', request.text, k, n) /\ (inputPc' = "verify" => n = Len(request.text))
  <2>1. Inserts
    BY <1>1, <1>4 DEF Inserts
  <2>2. PICK k \in 0 .. Len(OldValue), n \in 0 .. Len(request.text) :
          ~selected /\ Typed(field, caret, left, request.text, k, n)
    BY <2>1 DEF InputInv, TypingInv
  <2>3. PICK T : request.text \in Seq(T)
    BY <1>1 DEF InputInv, FieldInv, IsText
  <2>4. IsText(request.text) /\ Len(request.text) \in Nat /\ n \in Nat
    BY <2>3 DEF IsText
  <2>5. left \in Seq(T)
    <3>1. \A i \in n + 1 .. Len(request.text) : request.text[i] \in T
      BY <2>3, <2>4
    <3>2. After(request.text, n) \in Seq(T)
      BY <2>4, <3>1, SubSeqProperties DEF After
    <3> QED
      BY <2>2, <3>2 DEF Typed
  <2>6. CASE left = <<>>
    <3>1. j = 0
      BY <2>6 DEF j
    <3>2. SubSeq(left, 1, j) = <<>> /\ left' = <<>>
      <4>1. SubSeq(left, 1, 0) = <<>>
        BY SubSeqEmpty
      <4>2. Len(left) = 0 /\ 0 < 0 + 1
        BY <2>6
      <4>3. SubSeq(left, 0 + 1, Len(left)) = <<>>
        BY <4>2, SubSeqEmpty
      <4> QED
        BY <1>1, <3>1, <4>1, <4>3 DEF After
    <3>3. UNCHANGED <<field, caret, selected>>
      <4> DEFINE keys == SubSeq(left, 1, j)
      <4>1. Types(keys) /\ keys = <<>>
        BY <1>1, <3>2
      <4> HIDE DEF keys
      <4> QED
        BY <4>1 DEF Types
    <3>4. n = Len(request.text)
      <4>1. n \in 0 .. Len(request.text) /\ 0 \in 0 .. Len(request.text) - n
        BY <2>4
      <4>2. After(request.text, n) = <<>> <=> n = Len(request.text)
        BY <2>3, <4>1, RestOfText
      <4> QED
        BY <2>2, <2>6, <4>2 DEF Typed
    <3>5. Typed(field', caret', left', request.text, k, n)
      BY <2>2, <2>6, <3>2, <3>3 DEF Typed
    <3> QED
      BY <2>2, <3>3, <3>4, <3>5
  <2>7. CASE left # <<>>
    <3>1. j \in 0 .. Len(left) /\ j # 0
      <4>1. Len(left) \in Nat \ {0}
        BY <2>5, <2>7, EmptySeq
      <4>2. j = 1 \/ j = Len(left)
        BY DEF j
      <4> QED
        BY <4>1, <4>2
    <3> DEFINE keys == SubSeq(left, 1, j)
    <3>2. /\ n + j \in 0 .. Len(request.text) /\ Len(keys) = j
          /\ Typed(Put(field, caret, keys), caret + j, After(left, j), request.text, k, n + j)
          /\ After(left, j) = <<>> => n + j = Len(request.text)
      <4>1. Typed(field, caret, left, request.text, k, n) /\ j \in 0 .. Len(left)
        BY <2>2, <3>1
      <4>2. n + j \in 0 .. Len(request.text)
        BY <2>4, <4>1, TypedFurther
      <4>3. Len(SubSeq(left, 1, j)) = j
        BY <2>4, <4>1, TypedFurther
      <4>4. Typed(Put(field, caret, SubSeq(left, 1, j)), caret + j, After(left, j), request.text, k, n + j)
        BY <2>4, <4>1, TypedFurther, Zenon
      <4>5. After(left, j) = <<>> => n + j = Len(request.text)
        BY <2>4, <4>1, TypedFurther
      <4> QED
        BY <4>2, <4>3, <4>4, <4>5
    <3>3. keys # <<>>
      <4> HIDE DEF keys
      <4>1. keys = <<>> => Len(keys) = 0
        OBVIOUS
      <4> QED
        BY <3>1, <3>2, <4>1
    <3>4. Types(keys) /\ ~selected /\ Len(keys) = j
      BY <1>1, <2>2, <3>2
    <3> HIDE DEF keys
    <3>5. ~selected' /\ field' = Put(field, caret, keys) /\ caret' = caret + j
      BY <3>3, <3>4 DEF Types, After, Put
    <3>6. Typed(field', caret', left', request.text, k, n + j)
      BY <1>1, <3>2, <3>5
    <3>7. inputPc' = "verify" => n + j = Len(request.text)
      BY <1>1, <3>2
    <3> QED
      BY <3>2, <3>5, <3>6, <3>7
  <2> QED
    BY <2>6, <2>7
<1>5. TypingInv'
  <2>1. request' = request /\ inputPc' \notin {"focus", "clear"}
    BY <1>1
  <2> QED
    BY <1>4, <2>1 DEF TypingInv
<1> QED
  BY <1>2, <1>3, <1>5 DEF InputInv

LEMMA StartKeepsInput ==
    ASSUME InputInv, NEW g, NEW t \in InputTexts, NEW i, NEW c \in BOOLEAN, NEW k, NEW s \in Sanitizers,
           StartInput(g, t, i, c, k, s)
    PROVE  InputInv'
<1> DEFINE impl == ChosenImplementation(i, t)
           clean == SanitizedText(g, impl, t, s)
<1>1. /\ inputPc = "idle" /\ inputPc' \in {"value_error", "focus", "clear"}
      /\ request' = [engine |-> g, impl |-> impl, clear |-> c, method |-> k, text |-> clean]
      /\ left' = clean /\ caret' \in 0 .. Len(field)
      /\ field' = field /\ selected' = selected /\ meddled' = meddled
  BY DEF StartInput
<1>2. field = OldValue /\ ~selected /\ ~meddled
  BY <1>1 DEF InputInv, FieldInv
<1>3. IsText(clean)
  BY OldValueIsText, SanitizedIsText
<1> HIDE DEF clean, impl
<1>4. FieldInv'
  BY <1>1, <1>2, <1>3 DEF FieldInv, InputPhases
<1>5. Typed(OldValue, caret', clean, clean, caret', 0)
  BY <1>1, <1>2, <1>3, NothingTyped
<1>6. TypingInv'
  <2>1. Len(clean) \in Nat
    BY <1>3, TextsAreFunctions
  <2>2. inputPc' # "verify" /\ request'.text = clean /\ 0 \in 0 .. Len(clean) /\ caret' \in 0 .. Len(OldValue)
    BY <1>1, <1>2, <2>1
  <2>3. Typed(field', caret', left', request'.text, caret', 0)
    BY <1>1, <1>2, <1>5
  <2> QED
    BY <1>1, <1>2, <2>2, <2>3 DEF TypingInv
<1>7. SilentMeansTyped'
  BY <1>1 DEF SilentMeansTyped
<1> QED
  BY <1>4, <1>6, <1>7 DEF InputInv

LEMMA FocusKeepsInput ==
    ASSUME InputInv, FocusClick
    PROVE  InputInv'
<1>1. /\ inputPc = "focus" /\ inputPc' \in {"type", "clear", "skipped"} /\ request' = request /\ left' = left
      /\ (inputPc' # "skipped" => caret' \in 0 .. Len(field))
      /\ (inputPc' = "type" => request.impl = "javascript")
      /\ field' = field /\ selected' = selected /\ meddled' = meddled
  BY DEF FocusClick
<1>2. field = OldValue /\ ~selected /\ ~meddled /\ IsText(request.text)
  BY <1>1 DEF InputInv, FieldInv
<1>3. FieldInv'
  BY <1>1, <1>2 DEF InputInv, FieldInv, InputPhases
<1>4. ASSUME Inserts' PROVE Inserts /\ inputPc' = "clear"
  BY <1>1, <1>4 DEF Inserts
<1>5. ASSUME Inserts' PROVE left = request.text
  <2>1. PICK k \in 0 .. Len(OldValue), n \in 0 .. Len(request.text) :
          Typed(field, caret, left, request.text, k, n) /\ n = 0
    BY <1>1, <1>4, <1>5 DEF InputInv, TypingInv
  <2>2. 0 \in 0 .. Len(OldValue)
    BY OldValueIsText, TextsAreFunctions
  <2>3. Typed(OldValue, 0, request.text, request.text, 0, 0)
    BY <1>2, <2>2, NothingTyped
  <2> QED
    BY <2>1, <2>3 DEF Typed
<1>6. ASSUME Inserts' PROVE Typed(field', caret', left', request'.text, caret', 0)
  <2>1. caret' \in 0 .. Len(OldValue)
    BY <1>1, <1>2, <1>4, <1>6
  <2>2. Typed(OldValue, caret', request.text, request.text, caret', 0)
    BY <1>2, <2>1, NothingTyped
  <2> QED
    BY <1>1, <1>2, <1>5, <1>6, <2>2
<1>7. TypingInv'
  <2>1. SUFFICES ASSUME Inserts' PROVE ~selected' /\ \E k \in 0 .. Len(OldValue), n \in 0 .. Len(request'.text) :
           /\ Typed(field', caret', left', request'.text, k, n)
           /\ inputPc' \in {"focus", "clear"} => n = 0
           /\ inputPc' = "verify" => n = Len(request'.text)
    BY DEF TypingInv
  <2>2. Len(request.text) \in Nat
    BY <1>2, TextsAreFunctions
  <2>3. caret' \in 0 .. Len(OldValue) /\ 0 \in 0 .. Len(request'.text) /\ inputPc' = "clear" /\ ~selected'
    BY <1>1, <1>2, <1>4, <2>1, <2>2
  <2> QED
    BY <1>6, <2>1, <2>3
<1>8. SilentMeansTyped'
  BY <1>1 DEF SilentMeansTyped
<1> QED
  BY <1>3, <1>7, <1>8 DEF InputInv

LEMMA OtherInputSteps ==
    ASSUME InputInv, ClearContent \/ SetValue \/ PageRewrites \/ UNCHANGED inputVars
    PROVE  InputInv'
<1>1. CASE ClearContent
  <2>1. inputPc = "clear" /\ inputPc' = "type" /\ request' = request /\ left' = left /\ meddled' = meddled
    BY <1>1 DEF ClearContent
  <2>2. FieldInv' /\ SilentMeansTyped'
    BY <2>1 DEF InputInv, FieldInv, InputPhases, SilentMeansTyped
  <2>3. ASSUME Inserts' PROVE Inserts /\ UNCHANGED <<field, caret, selected>>
    BY <1>1, <2>1, <2>3 DEF Inserts, ClearContent
  <2>4. TypingInv'
    BY <2>1, <2>3 DEF InputInv, TypingInv
  <2> QED
    BY <2>2, <2>4 DEF InputInv
<1>2. CASE SetValue
  <2>1. /\ inputPc = "type" /\ inputPc' \in {"verify", "done"} /\ request' = request /\ request.impl = "javascript"
        /\ (inputPc' = "done" => request.engine # "selenium")
    BY <1>2 DEF SetValue
  <2>2. FieldInv' /\ SilentMeansTyped'
    BY <2>1 DEF InputInv, FieldInv, InputPhases, SilentMeansTyped
  <2>3. TypingInv'
    BY <2>1 DEF TypingInv, Inserts
  <2> QED
    BY <2>2, <2>3 DEF InputInv
<1>3. CASE PageRewrites
  <2>1. inputPc \in {"type", "verify"} /\ inputPc' = inputPc /\ request' = request /\ meddled'
    BY <1>3 DEF PageRewrites
  <2>2. FieldInv' /\ SilentMeansTyped'
    BY <2>1 DEF InputInv, FieldInv, InputPhases, SilentMeansTyped
  <2>3. TypingInv'
    BY <2>1 DEF TypingInv, Inserts
  <2> QED
    BY <2>2, <2>3 DEF InputInv
<1>4. CASE UNCHANGED inputVars
  BY <1>4 DEF inputVars, InputInv, FieldInv, TypingInv, Inserts, SilentMeansTyped
<1> QED
  BY <1>1, <1>2, <1>3, <1>4

LEMMA VerifyKeepsInput ==
    ASSUME InputInv, VerifyInputValue
    PROVE  InputInv'
<1>1. /\ inputPc = "verify" /\ inputPc' \in {"done", "unread"} /\ request' = request /\ field' = field /\ meddled' = meddled
      /\ (inputPc' = "done" => warned' = IF request.clear THEN field # request.text ELSE ~IsSuffix(request.text, field))
  BY DEF VerifyInputValue
<1>2. FieldInv' /\ TypingInv'
  BY <1>1 DEF InputInv, FieldInv, TypingInv, Inserts, InputPhases
<1>3. ASSUME inputPc' = "done", request.engine = "selenium", ~warned', request.clear
      PROVE  field = request.text
  BY <1>1, <1>3
<1>4. ASSUME inputPc' = "done", request.engine = "selenium", ~warned', ~request.clear
      PROVE  IsSuffix(request.text, field)
  BY <1>1, <1>4
<1>5. ASSUME request.engine = "selenium", ~request.clear, request.impl # "javascript", ~meddled
      PROVE  field \in InsertedIn(OldValue, request.text)
  <2>1. PICK k \in 0 .. Len(OldValue) : Typed(field, caret, left, request.text, k, Len(request.text))
    BY <1>1, <1>5 DEF InputInv, TypingInv, Inserts
  <2>2. SubSeq(request.text, 1, Len(request.text)) = request.text
    <3>1. PICK T : request.text \in Seq(T)
      BY <1>1 DEF InputInv, FieldInv, IsText
    <3> QED
      BY <3>1, SubSeqFull
  <2> QED
    BY <2>1, <2>2 DEF Typed, After, InsertedIn
<1>6. SilentMeansTyped'
  <2>1. request.clear \in BOOLEAN
    BY <1>1 DEF InputInv, FieldInv
  <2> QED
    BY <1>1, <1>3, <1>4, <1>5, <2>1 DEF SilentMeansTyped
<1> QED
  BY <1>2, <1>6 DEF InputInv

\* For all texts, old values, ways of typing and kinds of sanitizing: when Selenium's
\* input_text has verified the field and does not warn, the field holds exactly the
\* text after clearing; without clearing it ends with the text, and unless the page
\* rewrote it, it is the old value with the text put in whole at one place.
THEOREM SilentInputIsTyped == InputSpec => []SilentMeansTyped
<1>1. InputInit => InputInv
  BY DEF InputInit, InputInv, FieldInv, TypingInv, Inserts, SilentMeansTyped, InputPhases
<1>2. InputInv /\ [InputNext]_inputVars => InputInv'
  <2> SUFFICES ASSUME InputInv, [InputNext]_inputVars PROVE InputInv'
    OBVIOUS
  <2>1. ASSUME NEW g \in {"selenium", "playwright"}, NEW t \in InputTexts, NEW c \in BOOLEAN,
               NEW k \in {"select_all", "element_clear"},
               NEW i \in {"auto", "send_keys", "send_keys_fast", "javascript", "unknown"}, NEW s \in Sanitizers,
               StartInput(g, t, i, c, k, s)
        PROVE  InputInv'
    BY <2>1, StartKeepsInput
  <2>2. CASE FocusClick
    BY <2>2, FocusKeepsInput
  <2>3. CASE ClearContent \/ SetValue \/ PageRewrites \/ UNCHANGED inputVars
    BY <2>3, OtherInputSteps
  <2>4. CASE TypeKeys
    BY <2>4, TypingKeepsInput
  <2>5. CASE VerifyInputValue
    BY <2>5, VerifyKeepsInput
  <2> QED
    BY <2>1, <2>2, <2>3, <2>4, <2>5 DEF InputNext
<1>3. InputInv => SilentMeansTyped
  BY DEF InputInv
<1> QED
  BY <1>1, <1>2, <1>3, PTL DEF InputSpec
-----------------------------------------------------------------------------
(* Scrolling: every page is a tree of any size and shape.                   *)

\* A set of numbers has a least one.
LEMMA LeastNumber ==
    ASSUME NEW T \in SUBSET Nat, T # {}
    PROVE  \E m \in T : \A k \in T : m <= k
<1> DEFINE X == {0 .. k : k \in T}
           R == StrictSubsetOrdering(Nat)
<1>1. IsWellFoundedOn(R, FiniteSubsetsOf(Nat))
  BY FS_StrictSubsetOrderingWellFounded
<1>2. X \subseteq FiniteSubsetsOf(Nat) /\ X # {}
  <2>1. ASSUME NEW k \in T PROVE 0 .. k \in FiniteSubsetsOf(Nat)
    <3>1. k \in Nat /\ 0 \in Int /\ k \in Int
      OBVIOUS
    <3>2. IsFiniteSet(0 .. k)
      BY <3>1, FS_Interval
    <3>3. 0 .. k \in SUBSET Nat
      BY <3>1
    <3> QED
      BY <3>2, <3>3 DEF FiniteSubsetsOf
  <2> QED
    BY <2>1
<1>3. PICK x \in X : \A y \in X : <<y, x>> \notin R
  <2> HIDE DEF X, R
  <2> QED
    BY <1>1, <1>2, WFMin
<1>4. PICK m \in T : x = 0 .. m
  BY <1>3
<1>5. ASSUME NEW k \in T PROVE m <= k
  <2>1. 0 .. k \in X /\ <<0 .. k, 0 .. m>> \notin R
    BY <1>3, <1>4
  <2>2. SUFFICES ASSUME k < m PROVE FALSE
    OBVIOUS
  <2>3. 0 .. k \subseteq 0 .. m /\ m \in 0 .. m /\ m \notin 0 .. k /\ 0 .. k \subseteq Nat /\ 0 .. m \subseteq Nat
    BY <2>2
  <2> HIDE DEF X
  <2> QED
    BY <2>1, <2>3 DEF StrictSubsetOrdering
<1> QED
  BY <1>5


LEMMA MinOfNumbers ==
    ASSUME NEW T \in SUBSET Nat, T # {}
    PROVE  Min(T) \in T /\ \A k \in T : Min(T) <= k
BY LeastNumber DEF Min

\* Among finitely many numbered things with sizes there is a largest.
LEMMA LargestThing ==
    ASSUME NEW N \in Nat, NEW T \in SUBSET (1 .. N), T # {}, NEW size \in [1 .. N -> Nat]
    PROVE  \E n \in T : \A k \in T : size[k] <= size[n]
<1> DEFINE Among(m) == {k \in T : k <= m}
           Has(m) == \E n \in Among(m) : \A k \in Among(m) : size[k] <= size[n]
           bad == {m \in 0 .. N : Among(m) # {} /\ ~Has(m)}
<1>1. \A k \in T : k \in Nat /\ 1 <= k /\ k <= N /\ size[k] \in Nat
  OBVIOUS
<1>2. Among(N) = T
  BY <1>1
<1>3. SUFFICES ASSUME ~Has(N) PROVE FALSE
  <2>1. Has(N) => \E n \in T : \A k \in T : size[k] <= size[n]
    <3> HIDE DEF Among
    <3> QED
      BY <1>2
  <2> HIDE DEF Has
  <2> QED
    BY <2>1
<1>31. N \in bad
  <2> HIDE DEF Among, Has
  <2> QED
    BY <1>2, <1>3
<1>4. PICK m \in bad : \A k \in bad : m <= k
  <2>1. bad \in SUBSET Nat
    OBVIOUS
  <2> HIDE DEF bad
  <2> QED
    BY <1>31, <2>1, LeastNumber
<1>5. m \in 1 .. N /\ m - 1 \in 0 .. N /\ Among(m) # {} /\ ~Has(m)
  <2>1. m \in 0 .. N /\ Among(m) # {} /\ ~Has(m)
    <3> HIDE DEF Among, Has
    <3> QED
      OBVIOUS
  <2>2. m # 0
    <3>1. PICK k \in T : k <= m
      BY <2>1
    <3>2. k \in Nat /\ 1 <= k /\ m \in Nat
      BY <1>1, <2>1
    <3> QED
      BY <3>1, <3>2
  <2> HIDE DEF Among, Has
  <2> QED
    BY <2>1, <2>2
<1>6. m - 1 \notin bad
  <2> HIDE DEF bad
  <2>1. m \in Nat /\ ~(m <= m - 1)
    BY <1>5
  <2> QED
    BY <1>4, <2>1
<1>7. Among(m) = Among(m - 1) \cup (IF m \in T THEN {m} ELSE {})
  <2>1. \A k \in Nat : k <= m <=> k <= m - 1 \/ k = m
    BY <1>5
  <2> QED
    BY <1>1, <2>1
<1>8. CASE m \notin T
  <2>1. Among(m) = Among(m - 1)
    BY <1>7, <1>8
  <2> HIDE DEF Among
  <2> QED
    BY <1>5, <1>6, <2>1
<1>9. CASE m \in T
  <2>1. Among(m) = Among(m - 1) \cup {m}
    BY <1>7, <1>9
  <2>2. CASE Among(m - 1) = {}
    <3>1. Among(m) = {m} /\ size[m] <= size[m]
      BY <1>1, <1>9, <2>1, <2>2
    <3> HIDE DEF Among
    <3> QED
      BY <1>5, <3>1
  <2>3. CASE Among(m - 1) # {}
    <3>1. PICK n \in Among(m - 1) : \A k \in Among(m - 1) : size[k] <= size[n]
      BY <1>5, <1>6, <2>3
    <3>2. \A k \in Among(m) : size[k] \in Nat
      BY <1>1
    <3> HIDE DEF Among
    <3>3. CASE size[n] <= size[m]
      <4>1. \A k \in Among(m) : size[k] <= size[m]
        BY <2>1, <3>1, <3>2, <3>3
      <4> QED
        BY <1>5, <2>1, <4>1
    <3>4. CASE ~(size[n] <= size[m])
      <4>1. \A k \in Among(m) : size[k] <= size[n]
        BY <2>1, <3>1, <3>2, <3>4
      <4> QED
        BY <1>5, <2>1, <3>1, <4>1
    <3> QED
      BY <3>3, <3>4
  <2> QED
    BY <2>2, <2>3
<1> QED
  BY <1>8, <1>9

LEMMA LargestOfFits ==
    ASSUME NEW N \in Nat, NEW T \in SUBSET (1 .. N), T # {}, NEW size \in [1 .. N -> Nat]
    PROVE  LargestOf(T, size) \in T /\ \A k \in T : size[k] <= size[LargestOf(T, size)]
<1> DEFINE L == {n \in T : \A k \in T : size[k] <= size[n]}
<1>1. PICK n \in T : \A k \in T : size[k] <= size[n]
  BY LargestThing
<1>2. n \in L /\ L \in SUBSET Nat
  <2>1. T \subseteq Nat
    OBVIOUS
  <2>2. n \in L
    BY <1>1
  <2> QED
    BY <2>1, <2>2
<1>3. Min(L) \in L
  <2> HIDE DEF L
  <2> QED
    BY <1>2, MinOfNumbers
<1> QED
  BY <1>3 DEF LargestOf

\* What a page is, in the form the lemmas below need.
LEMMA PageParts ==
    ASSUME NEW page, IsPage(page)
    PROVE  /\ Len(page.up) \in Nat /\ Inside(page) = 1 .. Len(page.up) /\ 1 \in Inside(page)
           /\ \A n \in Inside(page) \ {1} : page.up[n] \in Inside(page) /\ page.up[n] < n
           /\ Inside(page) \in SUBSET Nat
<1>1. page.up \in Seq(Nat) /\ page.up # <<>>
  BY DEF IsPage
<1>2. Len(page.up) \in Nat /\ Inside(page) = 1 .. Len(page.up) /\ Len(page.up) # 0
  BY <1>1 DEF Inside
<1>3. ASSUME NEW n \in Inside(page) \ {1} PROVE page.up[n] \in Inside(page) /\ page.up[n] < n
  <2>1. page.up[n] \in 1 .. n - 1
    BY <1>3 DEF IsPage
  <2> QED
    BY <1>2, <2>1
<1> QED
  BY <1>2, <1>3

\* On a page a value can be given to every element that follows from its parent's.
GoesDown(page, V, top, step) ==
    \E d \in [Inside(page) -> V] :
       d[1] = top /\ \A n \in Inside(page) \ {1} : d[n] = step[n][d[page.up[n]]]

LEMMA DownThePage ==
    ASSUME NEW page, IsPage(page), NEW V, NEW top \in V, NEW step \in [Inside(page) -> [V -> V]]
    PROVE  GoesDown(page, V, top, step)
<1> DEFINE N == Len(page.up)
           Fits(d, m) == \A n \in 1 .. m : d[n] = IF n = 1 THEN top ELSE step[n][d[page.up[n]]]
           Can(m) == \E d \in [1 .. m -> V] : Fits(d, m)
           bad == {m \in 0 .. N : ~Can(m)}
<1>1. /\ N \in Nat /\ Inside(page) = 1 .. N
      /\ \A n \in 1 .. N : n # 1 => page.up[n] \in 1 .. N /\ page.up[n] < n
  BY PageParts
<1>2. SUFFICES ASSUME ~Can(N) PROVE FALSE
  <2>1. ASSUME Can(N)
        PROVE  \E d \in [1 .. N -> V] : d[1] = top /\ \A n \in (1 .. N) \ {1} : d[n] = step[n][d[page.up[n]]]
    <3>1. PICK d \in [1 .. N -> V] : Fits(d, N)
      BY <2>1
    <3>2. 1 \in 1 .. N
      BY <1>1, PageParts
    <3>3. d[1] = top /\ \A n \in (1 .. N) \ {1} : d[n] = step[n][d[page.up[n]]]
      BY <3>1, <3>2
    <3> QED
      BY <3>3
  <2> HIDE DEF Can
  <2> QED
    BY <1>1, <2>1 DEF GoesDown
<1>3. N \in bad
  <2> HIDE DEF Can
  <2> QED
    BY <1>1, <1>2
<1>4. PICK m \in bad : \A k \in bad : m <= k
  <2>1. bad \in SUBSET Nat
    OBVIOUS
  <2> HIDE DEF bad
  <2> QED
    BY <1>3, <2>1, LeastNumber
<1>5. m \in 0 .. N /\ ~Can(m)
  <2> HIDE DEF Can
  <2> QED
    OBVIOUS
<1>6. m # 0
  <2>1. Can(0)
    <3> DEFINE d == [n \in 1 .. 0 |-> top]
    <3>1. d \in [1 .. 0 -> V] /\ 1 .. 0 = {}
      OBVIOUS
    <3>2. Fits(d, 0)
      BY <3>1
    <3> HIDE DEF d, Fits
    <3> QED
      BY <3>1, <3>2
  <2> HIDE DEF Can
  <2> QED
    BY <1>5, <2>1
<1>7. m \in 1 .. N /\ m - 1 \in 0 .. N /\ m \in Nat /\ m - 1 \in Nat
  BY <1>1, <1>5, <1>6
<1>8. Can(m - 1)
  <2>1. ~(m <= m - 1)
    BY <1>7
  <2> HIDE DEF Can
  <2> QED
    BY <1>4, <1>7, <2>1
<1>9. PICK d \in [1 .. m - 1 -> V] : Fits(d, m - 1)
  BY <1>8
<1> DEFINE last == IF m = 1 THEN top ELSE step[m][d[page.up[m]]]
           e == [n \in 1 .. m |-> IF n = m THEN last ELSE d[n]]
<1>10. m # 1 => page.up[m] \in 1 .. m - 1
  BY <1>1, <1>7
<1>11. last \in V
  <2>1. CASE m = 1
    BY <2>1
  <2>2. CASE m # 1
    <3>1. d[page.up[m]] \in V /\ step[m] \in [V -> V]
      BY <1>1, <1>7, <1>9, <1>10, <2>2
    <3> QED
      BY <2>2, <3>1
  <2> QED
    BY <2>1, <2>2
<1>12. \A n \in 1 .. m : n # m => n \in 1 .. m - 1
  BY <1>7
<1>13. e \in [1 .. m -> V]
  <2> HIDE DEF last
  <2> QED
    BY <1>9, <1>11, <1>12
<1>14. ASSUME NEW n \in 1 .. m PROVE e[n] = IF n = 1 THEN top ELSE step[n][e[page.up[n]]]
  <2>1. n # 1 => page.up[n] \in 1 .. m /\ page.up[n] # m /\ page.up[n] # n
    BY <1>1, <1>7
  <2>2. CASE n = m
    <3>1. n # 1 => e[page.up[n]] = d[page.up[n]]
      BY <2>1
    <3> QED
      BY <2>2, <3>1
  <2>3. CASE n # m
    <3>1. n # 1 => e[page.up[n]] = d[page.up[n]]
      BY <2>1
    <3>2. e[n] = d[n] /\ n \in 1 .. m - 1
      BY <1>12, <2>3
    <3>3. d[n] = IF n = 1 THEN top ELSE step[n][d[page.up[n]]]
      BY <1>9, <3>2
    <3> QED
      BY <3>1, <3>2, <3>3
  <2> QED
    BY <2>2, <2>3
<1>15. Fits(e, m)
  <2> HIDE DEF e
  <2> QED
    BY <1>14
<1>16. Can(m)
  <2> HIDE DEF e, Fits
  <2> QED
    BY <1>13, <1>15
<1> HIDE DEF Can
<1> QED
  BY <1>5, <1>16

\* Two ways of giving values down a page that agree at the top and from parent to
\* child agree everywhere.
LEMMA OneWayDown ==
    ASSUME NEW page, IsPage(page), NEW d, NEW e, d[1] = e[1],
           \A n \in Inside(page) \ {1} : d[page.up[n]] = e[page.up[n]] => d[n] = e[n]
    PROVE  \A n \in Inside(page) : d[n] = e[n]
<1> DEFINE bad == {n \in Inside(page) : d[n] # e[n]}
<1>1. SUFFICES ASSUME bad # {} PROVE FALSE
  OBVIOUS
<1>2. /\ bad \in SUBSET Nat
      /\ \A n \in Inside(page) \ {1} : page.up[n] \in Inside(page) /\ page.up[n] < n /\ page.up[n] \in Nat /\ n \in Nat
  BY PageParts
<1>3. PICK m \in bad : \A k \in bad : m <= k
  <2> HIDE DEF bad
  <2> QED
    BY <1>1, <1>2, LeastNumber
<1>4. m \in Inside(page) \ {1} /\ d[m] # e[m]
  OBVIOUS
<1>5. page.up[m] \in bad
  BY <1>2, <1>4
<1>6. ~(m <= page.up[m])
  BY <1>2, <1>4
<1> QED
  BY <1>3, <1>5, <1>6

LEMMA DepthsAreNumbers ==
    ASSUME NEW page, IsPage(page)
    PROVE  Depth(page) \in [Inside(page) -> Nat]
<1> DEFINE Rule(d) == [n \in Inside(page) |-> IF n = 1 THEN 0 ELSE d[page.up[n]] + 1]
           step == [n \in Inside(page) |-> [v \in Nat |-> v + 1]]
<1>1. \A n \in Inside(page) \ {1} : page.up[n] \in Inside(page)
  BY PageParts
<1>2. PICK e \in [Inside(page) -> Nat] :
             e[1] = 0 /\ \A n \in Inside(page) \ {1} : e[n] = step[n][e[page.up[n]]]
  <2>1. 0 \in Nat /\ step \in [Inside(page) -> [Nat -> Nat]]
    OBVIOUS
  <2> HIDE DEF step
  <2>2. GoesDown(page, Nat, 0, step)
    BY <2>1, DownThePage
  <2> QED
    BY <2>2 DEF GoesDown
<1>3. \A n \in Inside(page) \ {1} : e[n] = e[page.up[n]] + 1
  BY <1>1, <1>2
<1>4. e[1] = 0
  BY <1>2
<1>5. e = Rule(e)
  BY <1>3, <1>4
<1>6. Depth(page) = CHOOSE d : d = Rule(d)
  BY DEF Depth
<1>7. Depth(page) = Rule(Depth(page))
  <2> HIDE DEF Rule
  <2> QED
    BY <1>5, <1>6
<1> DEFINE d == Depth(page)
<1>8. d = [n \in Inside(page) |-> IF n = 1 THEN 0 ELSE d[page.up[n]] + 1]
  BY <1>7
<1> HIDE DEF d
<1>9. /\ d[1] = e[1]
      /\ \A n \in Inside(page) \ {1} : d[page.up[n]] = e[page.up[n]] => d[n] = e[n]
  BY <1>3, <1>4, <1>8, PageParts
<1>10. \A n \in Inside(page) : d[n] = e[n]
  BY <1>9, OneWayDown
<1>11. d = [n \in Inside(page) |-> d[n]]
  BY <1>8
<1>12. d \in [Inside(page) -> Nat]
  BY <1>10, <1>11
<1> QED
  BY <1>12 DEF d

LEMMA AroundIsInside ==
    ASSUME IsPage(layout), NEW k \in Inside(layout)
    PROVE  Around(k) \in SUBSET Inside(layout)
<1> DEFINE In == Inside(layout)
           Rule(d) == [n \in In |-> IF n = 1 THEN {1} ELSE {n} \cup d[layout.up[n]]]
           step == [n \in In |-> [v \in SUBSET In |-> {n} \cup v]]
<1>1. 1 \in In /\ \A n \in In \ {1} : layout.up[n] \in In
  BY PageParts
<1>2. PICK e \in [In -> SUBSET In] :
             e[1] = {1} /\ \A n \in In \ {1} : e[n] = step[n][e[layout.up[n]]]
  <2>1. {1} \in SUBSET In /\ step \in [In -> [SUBSET In -> SUBSET In]]
    BY <1>1
  <2> HIDE DEF step, In
  <2>2. GoesDown(layout, SUBSET In, {1}, step)
    BY <2>1, DownThePage DEF In
  <2> QED
    BY <2>2 DEF GoesDown, In
<1>3. \A n \in In \ {1} : e[n] = {n} \cup e[layout.up[n]]
  BY <1>1, <1>2
<1>4. e[1] = {1}
  BY <1>2
<1>5. e = Rule(e)
  BY <1>3, <1>4
<1> DEFINE d == CHOOSE f : f = Rule(f)
<1>6. Around(k) = d[k]
  BY DEF Around
<1>7. d = Rule(d)
  <2> HIDE DEF Rule
  <2> QED
    BY <1>5
<1> HIDE DEF d
<1>8. d = [n \in In |-> IF n = 1 THEN {1} ELSE {n} \cup d[layout.up[n]]]
  BY <1>7
<1>9. /\ d[1] = e[1]
      /\ \A n \in In \ {1} : d[layout.up[n]] = e[layout.up[n]] => d[n] = e[n]
  BY <1>1, <1>3, <1>4, <1>8
<1>10. d[k] = e[k]
  BY <1>9, OneWayDown
<1> QED
  BY <1>2, <1>6, <1>10

LEMMA LevelsOfCandidates ==
    ASSUME NEW page, IsPage(page), NEW can \in SUBSET Inside(page), can # {}
    PROVE  /\ can \in SUBSET Nat
           /\ Depths(page, can) \in SUBSET Nat /\ Depths(page, can) # {}
           /\ \A k \in Depths(page, can) : AtDepth(page, can, k) \in SUBSET can /\ AtDepth(page, can, k) # {}
<1>1. can \in SUBSET Nat
  BY PageParts
<1>2. \A n \in can : Depth(page)[n] \in Nat
  BY DepthsAreNumbers
<1> QED
  BY <1>1, <1>2 DEF Depths, AtDepth

\* The level of the deepest candidates is the largest number of a level.
LEMMA DeepestLevel ==
    ASSUME NEW page, IsPage(page), NEW can \in SUBSET Inside(page), can # {}
    PROVE  /\ Max(Depths(page, can)) \in Depths(page, can)
           /\ \A k \in Depths(page, can) : Max(Depths(page, can)) >= k
<1>1. /\ Len(page.up) \in Nat /\ Inside(page) = 1 .. Len(page.up)
      /\ Depth(page) \in [Inside(page) -> Nat]
  BY PageParts, DepthsAreNumbers
<1>2. PICK n \in can : \A k \in can : Depth(page)[k] <= Depth(page)[n]
  BY <1>1, LargestThing
<1>3. Depths(page, can) \in SUBSET Nat
  BY LevelsOfCandidates
<1>4. Depth(page)[n] \in Depths(page, can)
  BY DEF Depths
<1>5. \A k \in Depths(page, can) : Depth(page)[n] >= k
  BY <1>2, <1>3, <1>4 DEF Depths
<1> QED
  BY <1>4, <1>5 DEF Max

\* Some level has a largest candidate that is larger than all of the level below.
LEMMA SomeLevelIsNotOutgrown ==
    ASSUME NEW page, IsPage(page), NEW can \in SUBSET Inside(page), can # {}, NEW size \in [Inside(page) -> Nat]
    PROVE  EarlyStop(page, can, size) \in can
<1> DEFINE Outgrown(k) == \E n \in AtDepth(page, can, k + 1) : size[n] >= size[LargestOf(AtDepth(page, can, k), size)]
           stops == {k \in Depths(page, can) : ~Outgrown(k)}
           last == Max(Depths(page, can))
<1>1. EarlyStop(page, can, size) = LargestOf(AtDepth(page, can, Min(stops)), size)
  BY DEF EarlyStop
<1>2. last \in Depths(page, can) /\ \A k \in Depths(page, can) : last >= k
  BY DeepestLevel
<1>3. Depths(page, can) \in SUBSET Nat
  BY LevelsOfCandidates
<1>4. AtDepth(page, can, last + 1) = {}
  <2>1. last + 1 \notin Depths(page, can)
    <3> HIDE DEF last
    <3> QED
      BY <1>2, <1>3
  <2> HIDE DEF last
  <2> QED
    BY <2>1 DEF AtDepth, Depths
<1>5. last \in stops
  BY <1>2, <1>4
<1>6. stops \in SUBSET Nat /\ stops # {}
  BY <1>3, <1>5
<1>7. Min(stops) \in stops
  <2> HIDE DEF stops
  <2> QED
    BY <1>6, MinOfNumbers
<1>8. Min(stops) \in Depths(page, can)
  <2>1. stops \subseteq Depths(page, can)
    OBVIOUS
  <2> HIDE DEF stops
  <2> QED
    BY <1>7, <2>1
<1> DEFINE level == AtDepth(page, can, Min(stops))
<1>9. level \in SUBSET can /\ level # {}
  <2> HIDE DEF stops
  <2> QED
    BY <1>8, LevelsOfCandidates
<1> HIDE DEF level, stops
<1>10. Len(page.up) \in Nat /\ Inside(page) = 1 .. Len(page.up) /\ level \in SUBSET Inside(page)
  BY <1>9, PageParts
<1>11. LargestOf(level, size) \in level
  BY <1>9, <1>10, LargestOfFits
<1> QED
  BY <1>1, <1>9, <1>11 DEF level

Strategies ==
    {"first_scrollable", "first_largest_scrollable", "deepest_scrollable", "largest_scrollable",
     "largest_scrollable_early_stop"}

\* Whatever the strategy, a search with candidates finds one of them.
LEMMA PickFits ==
    ASSUME NEW page, IsPage(page), NEW can \in SUBSET Inside(page), NEW size \in [Inside(page) -> Nat],
           NEW strategy \in Strategies
    PROVE  /\ Pick(page, strategy, can, size) \in Inside(page)
           /\ can # {} => Pick(page, strategy, can, size) \in can
<1>1. CASE can = {}
  <2>1. Pick(page, strategy, can, size) = 1
    BY <1>1 DEF Pick
  <2> QED
    BY <1>1, <2>1, PageParts
<1>2. CASE can # {}
  <2> DEFINE top == AtDepth(page, can, Min(Depths(page, can)))
             bottom == AtDepth(page, can, Max(Depths(page, can)))
             area == [n \in Inside(page) |-> page.box[n].over["x"] + page.box[n].over["y"]]
  <2>1. Min(Depths(page, can)) \in Depths(page, can) /\ Max(Depths(page, can)) \in Depths(page, can)
    BY <1>2, LevelsOfCandidates, MinOfNumbers, DeepestLevel
  <2>2. /\ top \in SUBSET can /\ top # {} /\ bottom \in SUBSET can /\ bottom # {}
        /\ can \in SUBSET Nat
    BY <1>2, <2>1, LevelsOfCandidates
  <2>3. Len(page.up) \in Nat /\ Inside(page) = 1 .. Len(page.up)
    BY PageParts
  <2>4. area \in [1 .. Len(page.up) -> Nat]
    <3>1. ASSUME NEW n \in Inside(page)
          PROVE  page.box[n].over["x"] \in Nat /\ page.box[n].over["y"] \in Nat
      <4>1. page.box[n] \in Boxes
        BY DEF IsPage
      <4>2. page.box[n].over \in [{"x", "y"} -> Nat]
        BY <4>1 DEF Boxes
      <4> QED
        BY <4>2
    <3> QED
      BY <2>3, <3>1
  <2>5. LargestArea(page, can) = LargestOf(can, area)
    BY DEF LargestArea
  <2> HIDE DEF area, top, bottom
  <2>6. Min(top) \in can /\ Min(bottom) \in can
    BY <2>2, MinOfNumbers
  <2>7. LargestOf(top, size) \in can /\ LargestOf(can, area) \in can
    <3>1. top \in SUBSET (1 .. Len(page.up)) /\ can \in SUBSET (1 .. Len(page.up))
      BY <2>2, <2>3
    <3> QED
      BY <1>2, <2>2, <2>3, <2>4, <3>1, LargestOfFits
  <2>8. EarlyStop(page, can, size) \in can
    BY <1>2, SomeLevelIsNotOutgrown
  <2>9. CASE strategy = "first_scrollable"
    BY <1>2, <2>6, <2>9 DEF Pick, FirstScrollable, top
  <2>10. CASE strategy = "first_largest_scrollable"
    BY <1>2, <2>7, <2>10 DEF Pick, FirstLargest, top
  <2>11. CASE strategy = "deepest_scrollable"
    BY <1>2, <2>6, <2>11 DEF Pick, Deepest, bottom
  <2>12. CASE strategy = "largest_scrollable"
    BY <1>2, <2>5, <2>7, <2>12 DEF Pick
  <2>13. CASE strategy = "largest_scrollable_early_stop"
    BY <1>2, <2>8, <2>13 DEF Pick
  <2> QED
    BY <2>9, <2>10, <2>11, <2>12, <2>13 DEF Strategies
<1> QED
  BY <1>1, <1>2

\* What the searches of solve_scrollable_child give.
LEMMA SearchesFind ==
    ASSUME NEW page, IsPage(page), NEW strategy \in Strategies, NEW direction, NEW implementation
    PROVE  /\ SeleniumSolves(page, strategy, implementation, direction) \in Inside(page)
           /\ implementation = "builtin" =>
                 \/ SeleniumSolves(page, strategy, implementation, direction) \in Scrollable(page, direction)
                 \/ Scrollable(page, direction) = {}
<1>1. Scrollable(page, direction) \in SUBSET Inside(page) /\ 1 \in Inside(page)
  BY PageParts DEF Scrollable
<1>2. \A n \in Inside(page) : page.box[n].outer \in Nat /\ page.box[n].inner \in Nat
  <2>1. \A n \in Inside(page) : page.box[n] \in Boxes
    BY DEF IsPage
  <2> QED
    BY <2>1 DEF Boxes
<1>3. /\ BuiltinFinds(page, strategy, direction) \in Inside(page)
      /\ Scrollable(page, direction) # {} => BuiltinFinds(page, strategy, direction) \in Scrollable(page, direction)
  <2> DEFINE size == [n \in Inside(page) |-> page.box[n].outer]
  <2>1. size \in [Inside(page) -> Nat]
    BY <1>2
  <2>2. BuiltinFinds(page, strategy, direction) = Pick(page, strategy, Scrollable(page, direction), size)
    BY DEF BuiltinFinds
  <2> HIDE DEF size
  <2> QED
    BY <1>1, <2>1, <2>2, PickFits
<1>4. JavascriptFinds(page, strategy, direction) \in Inside(page)
  <2> DEFINE size == [n \in Inside(page) |-> page.box[n].inner]
             can == {n \in Inside(page) : \E a \in Axes(direction) : page.box[n].over[a] > 0}
  <2>1. size \in [Inside(page) -> Nat] /\ can \in SUBSET Inside(page)
    BY <1>2
  <2>2. JavascriptFinds(page, strategy, direction) = Pick(page, strategy, can, size)
    BY DEF JavascriptFinds
  <2> HIDE DEF size, can
  <2> QED
    BY <2>1, <2>2, PickFits
<1> QED
  BY <1>1, <1>3, <1>4 DEF SeleniumSolves

-----------------------------------------------------------------------------
Ends == {"x", "y"}
Compass == {"Up", "Down", "Left", "Right"}
Positions(page) ==
    {p \in [Inside(page) -> [Ends -> Nat]] : \A n \in Inside(page), a \in Ends : p[n][a] <= page.box[n].over[a]}

\* How far an element has gone the asked way, and how far it still can.
Gone(page, p, n, direction) ==
    IF direction \in {"Down", "Right"} THEN p[n][Axis(direction)] - page.start[n][Axis(direction)]
    ELSE page.start[n][Axis(direction)] - p[n][Axis(direction)]
RoomAt(page, p, n, direction) ==
    IF page.box[n].overflow = "visible" THEN 0
    ELSE IF direction \in {"Up", "Left"} THEN p[n][Axis(direction)]
    ELSE page.box[n].over[Axis(direction)] - p[n][Axis(direction)]

\* An element has not left the asked axis, nor gone against the asked direction.
OnCourse(page, p, n, direction) ==
    /\ \A b \in Ends \ {Axis(direction)} : p[n][b] = page.start[n][b]
    /\ Gone(page, p, n, direction) >= 0

LEMMA PlacesTyped ==
    ASSUME NEW page, IsPage(page), NEW p \in Positions(page), NEW n \in Inside(page), NEW a \in Ends
    PROVE  p[n][a] \in Nat /\ page.start[n][a] \in Nat /\ page.box[n].over[a] \in Nat /\ p[n][a] <= page.box[n].over[a]
<1>1. page.box[n] \in Boxes /\ page.start[n] \in [{"x", "y"} -> Nat]
  BY DEF IsPage
<1>2. page.box[n].over \in [{"x", "y"} -> Nat]
  BY <1>1 DEF Boxes
<1> QED
  BY <1>1, <1>2 DEF Positions, Ends

LEMMA RoomIsANumber ==
    ASSUME IsPage(layout), position \in Positions(layout), NEW n \in Inside(layout), NEW direction \in Compass,
           NEW amount \in Nat
    PROVE  /\ Axis(direction) \in Ends
           /\ Room(n, direction) = RoomAt(layout, position, n, direction)
           /\ Room(n, direction) \in Nat
           /\ Stretch(n, direction, amount) \in {amount, Room(n, direction)}
           /\ Stretch(n, direction, amount) \in Nat
           /\ Stretch(n, direction, amount) <= amount /\ Stretch(n, direction, amount) <= Room(n, direction)
<1>1. Axis(direction) \in Ends
  BY DEF Axis, Ends
<1>2. Room(n, direction) = RoomAt(layout, position, n, direction)
  BY DEF Room, RoomAt
<1>3. Room(n, direction) \in Nat
  <2>1. /\ position[n][Axis(direction)] \in Nat /\ layout.box[n].over[Axis(direction)] \in Nat
        /\ position[n][Axis(direction)] <= layout.box[n].over[Axis(direction)]
    BY <1>1, PlacesTyped
  <2> QED
    BY <2>1 DEF Room
<1>4. {amount, Room(n, direction)} \in SUBSET Nat /\ {amount, Room(n, direction)} # {}
  BY <1>3
<1>5. /\ Stretch(n, direction, amount) \in {amount, Room(n, direction)}
      /\ \A k \in {amount, Room(n, direction)} : Stretch(n, direction, amount) <= k
  BY <1>4, MinOfNumbers DEF Stretch
<1> QED
  BY <1>1, <1>2, <1>3, <1>5

\* A scroll moves one element, the asked way, and keeps it within its frame.
LEMMA MovingOne ==
    ASSUME IsPage(layout), position \in Positions(layout), NEW n \in Inside(layout), NEW direction \in Compass,
           NEW amount \in Nat
    PROVE  /\ Moved(n, direction, amount) \in Positions(layout)
           /\ \A m \in Inside(layout) : OnCourse(layout, position, m, direction) =>
                 OnCourse(layout, Moved(n, direction, amount), m, direction)
           /\ \A m \in Inside(layout) \ {n} : Moved(n, direction, amount)[m] = position[m]
           /\ \/ Gone(layout, Moved(n, direction, amount), n, direction) = Gone(layout, position, n, direction) + amount
              \/ RoomAt(layout, Moved(n, direction, amount), n, direction) = 0
           /\ RoomAt(layout, position, n, direction) = 0 => Moved(n, direction, amount) = position
<1> DEFINE a == Axis(direction)
           s == Stretch(n, direction, amount)
           after == Moved(n, direction, amount)
           place == IF direction \in {"Up", "Left"} THEN position[n][a] - s ELSE position[n][a] + s
<1>1. /\ a \in Ends /\ Room(n, direction) = RoomAt(layout, position, n, direction)
      /\ Room(n, direction) \in Nat /\ s \in {amount, Room(n, direction)} /\ s \in Nat
      /\ s <= amount /\ s <= Room(n, direction)
  BY RoomIsANumber
<1>2. position \in [Inside(layout) -> [Ends -> Nat]]
  BY DEF Positions
<1>3. after = [position EXCEPT ![n] = [position[n] EXCEPT ![a] = place]]
  BY <1>2 DEF Moved
<1>4. /\ position[n][a] \in Nat /\ layout.box[n].over[a] \in Nat /\ layout.start[n][a] \in Nat
      /\ position[n][a] <= layout.box[n].over[a]
  BY <1>1, PlacesTyped
<1>5. CASE layout.box[n].overflow = "visible"
  <2>1. Room(n, direction) = 0
    BY <1>1, <1>5 DEF RoomAt
  <2>2. s = 0
    <3> HIDE DEF s
    <3> QED
      BY <1>1, <2>1
  <2>3. place = position[n][a]
    <3> HIDE DEF s, a
    <3> QED
      BY <1>4, <2>2
  <2>4. after = position
    <3> HIDE DEF place, after, a
    <3> QED
      BY <1>1, <1>2, <1>3, <2>3
  <2>5. RoomAt(layout, after, n, direction) = 0
    BY <1>5 DEF RoomAt
  <2> HIDE DEF after
  <2> QED
    BY <2>4, <2>5 DEF after
<1>6. CASE layout.box[n].overflow # "visible"
  <2>1. Room(n, direction) = IF direction \in {"Up", "Left"} THEN position[n][a] ELSE layout.box[n].over[a] - position[n][a]
    BY <1>1, <1>6 DEF RoomAt
  <2>2. place \in Nat /\ place <= layout.box[n].over[a]
    <3> HIDE DEF s, a
    <3> QED
      BY <1>1, <1>4, <2>1
  <2>3. /\ \A m \in Inside(layout) \ {n} : after[m] = position[m]
        /\ \A b \in Ends \ {a} : after[n][b] = position[n][b]
        /\ after[n][a] = place
        /\ after \in [Inside(layout) -> [Ends -> Nat]]
    <3> HIDE DEF place, after, a
    <3> QED
      BY <1>1, <1>2, <1>3, <2>2
  <2> HIDE DEF after, a, s, place
  <2>4. after \in Positions(layout)
    BY <2>2, <2>3 DEF Positions
  <2>5. direction \in {"Up", "Left"} <=> ~(direction \in {"Down", "Right"})
    BY DEF Compass
  <2>6. /\ OnCourse(layout, position, n, direction) => OnCourse(layout, after, n, direction)
        /\ \/ Gone(layout, after, n, direction) = Gone(layout, position, n, direction) + amount
           \/ RoomAt(layout, after, n, direction) = 0
    <3>1. OnCourse(layout, position, n, direction) => \A b \in Ends \ {a} : after[n][b] = layout.start[n][b]
      BY <2>3 DEF OnCourse, a
    <3>2. CASE direction \in {"Up", "Left"}
      <4>1. place = position[n][a] - s /\ Room(n, direction) = position[n][a]
        BY <2>1, <3>2 DEF place
      <4>2. Gone(layout, position, n, direction) = layout.start[n][a] - position[n][a]
        BY <2>5, <3>2 DEF Gone, a
      <4>3. /\ Gone(layout, after, n, direction) = layout.start[n][a] - place
            /\ RoomAt(layout, after, n, direction) = place
        BY <1>6, <2>3, <2>5, <3>2 DEF Gone, RoomAt, a
      <4>4. /\ layout.start[n][a] - position[n][a] >= 0 => layout.start[n][a] - place >= 0
            /\ layout.start[n][a] - place = layout.start[n][a] - position[n][a] + amount \/ place = 0
        BY <1>1, <1>4, <4>1
      <4> QED
        BY <3>1, <4>2, <4>3, <4>4 DEF OnCourse, a
    <3>3. CASE direction \notin {"Up", "Left"}
      <4>1. place = position[n][a] + s /\ Room(n, direction) = layout.box[n].over[a] - position[n][a]
        BY <2>1, <3>3 DEF place
      <4>2. Gone(layout, position, n, direction) = position[n][a] - layout.start[n][a]
        BY <2>5, <3>3 DEF Gone, a
      <4>3. /\ Gone(layout, after, n, direction) = place - layout.start[n][a]
            /\ RoomAt(layout, after, n, direction) = layout.box[n].over[a] - place
        BY <1>6, <2>3, <2>5, <3>3 DEF Gone, RoomAt, a
      <4>4. /\ position[n][a] - layout.start[n][a] >= 0 => place - layout.start[n][a] >= 0
            /\ \/ place - layout.start[n][a] = position[n][a] - layout.start[n][a] + amount
               \/ layout.box[n].over[a] - place = 0
        BY <1>1, <1>4, <4>1
      <4> QED
        BY <3>1, <4>2, <4>3, <4>4 DEF OnCourse, a
    <3> QED
      BY <3>2, <3>3
  <2>7. ASSUME NEW m \in Inside(layout), m # n, OnCourse(layout, position, m, direction)
        PROVE  OnCourse(layout, after, m, direction)
    BY <2>3, <2>7 DEF OnCourse, Gone
  <2>8. RoomAt(layout, position, n, direction) = 0 => after = position
    <3> SUFFICES ASSUME RoomAt(layout, position, n, direction) = 0 PROVE after = position
      OBVIOUS
    <3>1. s = 0
      BY <1>1
    <3>2. place = position[n][a]
      BY <1>4, <3>1 DEF place
    <3> QED
      BY <1>1, <1>2, <1>3, <3>2
  <2> QED
    BY <2>3, <2>4, <2>6, <2>7, <2>8 DEF after
<1> QED
  BY <1>5, <1>6

\* A wheel or a key asks for the scroll of one element, or none.
LEMMA WheelsAsk ==
    ASSUME gliding \in [Inside(layout) -> Nat], NEW n, NEW direction, NEW amount \in Nat
    PROVE  UserScrolls(n, direction, amount) \in [Inside(layout) -> Nat]
<1> DEFINE takers == {k \in Around(n) : layout.box[k].overflow = "auto" /\ Room(k, direction) > 0}
           mover == Max(takers)
<1>1. UserScrolls(n, direction, amount) = IF takers = {} THEN gliding ELSE [gliding EXCEPT ![mover] = @ + amount]
  BY DEF UserScrolls
<1> HIDE DEF takers, mover
<1>2. [gliding EXCEPT ![mover] = @ + amount] \in [Inside(layout) -> Nat]
  <2> DEFINE after == [gliding EXCEPT ![mover] = @ + amount]
  <2>1. DOMAIN after = Inside(layout)
    OBVIOUS
  <2>2. ASSUME NEW k \in Inside(layout) PROVE after[k] \in Nat
    BY <2>2
  <2>3. after = [k \in Inside(layout) |-> after[k]]
    BY <2>1
  <2> HIDE DEF after
  <2> QED
    BY <2>2, <2>3 DEF after
<1> QED
  BY <1>1, <1>2

-----------------------------------------------------------------------------
ScrollCalls ==
    [pc : {"center", "send", "done", "failed"}, engine : {"selenium", "playwright"}, direction : Compass,
     distance : Nat, search : Strategies \cup {"off"},
     way : {"javascript", "action_chains_from_origin", "action_chains_focus_first", "keystrokes"},
     keys : Nat, target : Nat]

FindsWhatScrolls ==
    scroll.engine = "selenium" /\ scroll.search \notin {"off", "javascript"} =>
        scroll.target \in Scrollable(layout, scroll.direction) \/ Scrollable(layout, scroll.direction) = {}

GoesAllTheWay ==
    scroll.pc = "done" /\ scroll.way = "javascript" =>
        \/ Gone(layout, position, scroll.target, scroll.direction) + gliding[scroll.target] >= scroll.distance
        \/ RoomAt(layout, position, scroll.target, scroll.direction) = 0

\* Whatever has been sent, and whatever has raised: the elements are within their
\* frames, and the one that is scrolled has gone the asked way or not at all.
ScrollInv ==
    scroll.pc # "idle" =>
        /\ layout \in Layouts /\ position \in Positions(layout) /\ gliding \in [Inside(layout) -> Nat]
        /\ scroll.target \in Inside(layout)
        /\ scroll.pc # "solved" => scroll \in ScrollCalls /\ OnCourse(layout, position, scroll.target, scroll.direction)
        /\ scroll.pc = "solved" => \A n \in Inside(layout) : gliding[n] = 0
        /\ FindsWhatScrolls
        /\ GoesAllTheWay

LEMMA StartsAreOnCourse ==
    ASSUME NEW page \in Layouts
    PROVE  /\ IsPage(page)
           /\ page.start \in Positions(page)
           /\ \A n \in Inside(page), direction \in Compass : OnCourse(page, page.start, n, direction)
<1>1. IsPage(page)
  BY ScrollAssumption
<1>2. page.start \in Positions(page)
  BY <1>1 DEF IsPage, Positions, Ends
<1>3. ASSUME NEW n \in Inside(page), NEW direction \in Compass PROVE OnCourse(page, page.start, n, direction)
  <2>1. Axis(direction) \in Ends
    BY DEF Axis, Ends
  <2>2. page.start[n][Axis(direction)] \in Nat
    BY <1>1, <1>2, <2>1, PlacesTyped
  <2> QED
    BY <2>2 DEF OnCourse, Gone
<1> QED
  BY <1>1, <1>2, <1>3

LEMMA CallsKeepScrollInv ==
    ASSUME Calls
    PROVE  ScrollInv'
<1>1. ASSUME NEW p \in Layouts, NEW s \in Searches \ {"off"}, NEW d \in Directions \cup {"any"},
             NEW i \in {"builtin", "javascript"}, Solve(p, s, i, d)
      PROVE  ScrollInv'
  <2>1. s \in Strategies
    BY ScrollAssumption DEF Strategies
  <2>2. p.start \in Positions(p) /\ IsPage(p)
    BY StartsAreOnCourse
  <2>3. /\ SeleniumSolves(p, s, i, d) \in Inside(p)
        /\ i = "builtin" => SeleniumSolves(p, s, i, d) \in Scrollable(p, d) \/ Scrollable(p, d) = {}
    BY <2>1, <2>2, SearchesFind
  <2>4. /\ layout' = p /\ position' = p.start /\ gliding' = [n \in Inside(p) |-> 0]
        /\ scroll'.pc = "solved" /\ scroll'.target = SeleniumSolves(p, s, i, d) /\ scroll'.search = i
        /\ scroll'.direction = d
    BY <1>1 DEF Solve, Shows
  <2>5. FindsWhatScrolls' /\ GoesAllTheWay'
    BY <2>3, <2>4 DEF FindsWhatScrolls, GoesAllTheWay
  <2> QED
    BY <2>2, <2>3, <2>4, <2>5 DEF ScrollInv
<1>2. ASSUME NEW p \in Layouts, NEW e \in {"selenium", "playwright"}, NEW d \in Directions, NEW k \in Distances,
             NEW s \in Searches, NEW w \in Ways, ScrollElement(p, e, d, k, s, w)
      PROVE  ScrollInv'
  <2>1. s \in Strategies \cup {"off"} /\ d \in Compass /\ k \in Nat
    BY ScrollAssumption DEF Strategies, Compass
  <2>2. /\ p.start \in Positions(p) /\ IsPage(p)
        /\ \A n \in Inside(p), direction \in Compass : OnCourse(p, p.start, n, direction)
    BY StartsAreOnCourse
  <2> DEFINE found == IF s = "off" THEN 1
                      ELSE IF e = "selenium" THEN SeleniumSolves(p, s, "builtin", d)
                      ELSE PlaywrightSolves(p, s, "any")
  <2>3. /\ found \in Inside(p) /\ found \in Nat
        /\ e = "selenium" /\ s # "off" => found \in Scrollable(p, d) \/ Scrollable(p, d) = {}
    <3>1. 1 \in Inside(p) /\ Inside(p) \in SUBSET Nat
      BY <2>2, PageParts
    <3>2. s # "off" => /\ SeleniumSolves(p, s, "builtin", d) \in Inside(p)
                       /\ SeleniumSolves(p, s, "builtin", d) \in Scrollable(p, d) \/ Scrollable(p, d) = {}
      BY <2>1, <2>2, SearchesFind
    <3> QED
      BY <3>1, <3>2 DEF PlaywrightSolves
  <2>4. /\ layout' = p /\ position' = p.start /\ gliding' = [n \in Inside(p) |-> 0]
        /\ scroll' = [pc |-> IF Centers(e, w) THEN "center" ELSE "send",
                      engine |-> e, direction |-> d, distance |-> k, search |-> s, way |-> w,
                      keys |-> IF w = "keystrokes" THEN k ELSE 0, target |-> found]
    BY <1>2 DEF ScrollElement, Shows
  <2> HIDE DEF found
  <2>5. scroll' \in ScrollCalls
    BY <2>1, <2>3, <2>4, ScrollAssumption DEF ScrollCalls
  <2>6. /\ scroll'.pc \in {"center", "send"} /\ scroll'.target = found /\ scroll'.engine = e /\ scroll'.search = s
        /\ scroll'.direction = d
    BY <2>4
  <2>7. FindsWhatScrolls' /\ GoesAllTheWay'
    BY <2>3, <2>4, <2>6 DEF FindsWhatScrolls, GoesAllTheWay
  <2>8. OnCourse(p, p.start, found, d)
    BY <2>1, <2>2, <2>3
  <2> QED
    BY <2>2, <2>3, <2>4, <2>5, <2>6, <2>7, <2>8 DEF ScrollInv
<1> QED
  BY <1>1, <1>2 DEF Calls

\* How far the element of a call has gone is a number.
LEMMA GoneIsANumber ==
    ASSUME ScrollInv, scroll.pc \notin {"idle", "solved"}
    PROVE  Gone(layout, position, scroll.target, scroll.direction) \in Int
<1>1. /\ IsPage(layout) /\ position \in Positions(layout) /\ scroll.target \in Inside(layout)
      /\ Axis(scroll.direction) \in Ends
  BY ScrollAssumption DEF ScrollInv, Axis, Ends
<1>2. /\ position[scroll.target][Axis(scroll.direction)] \in Nat
      /\ layout.start[scroll.target][Axis(scroll.direction)] \in Nat
  BY <1>1, PlacesTyped
<1> QED
  BY <1>2 DEF Gone

\* What ScrollInv says of a call that has something left to send.
LEMMA UnderWay ==
    ASSUME ScrollInv, scroll.pc \in {"center", "send"}
    PROVE  /\ scroll \in ScrollCalls /\ gliding \in [Inside(layout) -> Nat]
           /\ scroll.target \in Inside(layout) /\ scroll.distance \in Nat /\ scroll.keys \in Nat
<1>1. scroll \in ScrollCalls /\ gliding \in [Inside(layout) -> Nat] /\ scroll.target \in Inside(layout)
  BY DEF ScrollInv
<1> QED
  BY <1>1 DEF ScrollCalls

\* A step of the call that leaves the page and the call's element alone, and asks
\* for the whole distance when JavaScript sends it.
LEMMA StepsKeepScrollInv ==
    ASSUME ScrollInv, scroll.pc \in {"center", "send"}, scroll' \in ScrollCalls, scroll'.pc # "idle",
           UNCHANGED <<layout, position>>,
           scroll'.engine = scroll.engine, scroll'.search = scroll.search, scroll'.target = scroll.target,
           scroll'.direction = scroll.direction,
           gliding' \in [Inside(layout) -> Nat],
           scroll'.pc = "done" /\ scroll'.way = "javascript" => gliding'[scroll.target] >= scroll'.distance
    PROVE  ScrollInv'
<1>1. /\ layout \in Layouts /\ scroll.target \in Inside(layout) /\ FindsWhatScrolls
      /\ OnCourse(layout, position, scroll.target, scroll.direction)
  BY DEF ScrollInv
<1>2. FindsWhatScrolls'
  BY <1>1 DEF FindsWhatScrolls
<1>3. Gone(layout, position, scroll.target, scroll.direction) \in Int
  BY GoneIsANumber
<1>4. GoesAllTheWay'
  <2> SUFFICES ASSUME scroll'.pc = "done", scroll'.way = "javascript"
               PROVE  Gone(layout, position, scroll.target, scroll.direction) + gliding'[scroll.target] >= scroll'.distance
    BY DEF GoesAllTheWay, Gone
  <2>1. Gone(layout, position, scroll.target, scroll.direction) >= 0
    BY <1>1 DEF OnCourse
  <2>2. gliding'[scroll.target] \in Nat /\ scroll'.distance \in Nat
    BY <1>1 DEF ScrollCalls
  <2> QED
    BY <1>3, <2>1, <2>2
<1>5. position' \in Positions(layout')
  BY DEF ScrollInv, Positions
<1>6. OnCourse(layout', position', scroll'.target, scroll'.direction)
  BY <1>1 DEF OnCourse, Gone
<1>7. scroll'.pc # "solved"
  BY DEF ScrollCalls
<1> QED
  BY <1>1, <1>2, <1>4, <1>5, <1>6, <1>7 DEF ScrollInv

LEMMA CenteringKeepsScrollInv ==
    ASSUME ScrollInv, CenterElementInView
    PROVE  ScrollInv'
<1>1. scroll.pc = "center" /\ scroll' = [scroll EXCEPT !.pc = "send"] /\ UNCHANGED <<layout, position, gliding>>
  BY DEF CenterElementInView
<1>2. scroll \in ScrollCalls /\ gliding \in [Inside(layout) -> Nat]
  BY <1>1, UnderWay
<1>3. /\ scroll' \in ScrollCalls /\ scroll'.pc = "send"
      /\ scroll'.engine = scroll.engine /\ scroll'.search = scroll.search /\ scroll'.target = scroll.target
      /\ scroll'.direction = scroll.direction
  BY <1>1, <1>2 DEF ScrollCalls
<1> QED
  BY <1>1, <1>2, <1>3, StepsKeepScrollInv

\* The containers that are moved to bring the element into view are not the element.
LEMMA ContainersKeepScrollInv ==
    ASSUME ScrollInv, ContainersMove
    PROVE  ScrollInv'
<1>1. UNCHANGED <<layout, gliding, scroll>>
  BY DEF ContainersMove
<1> SUFFICES ASSUME scroll.pc # "idle"
             PROVE  ScrollInv'
  BY <1>1 DEF ScrollInv
<1>2. /\ layout \in Layouts /\ IsPage(layout) /\ position \in Positions(layout)
      /\ scroll.target \in Inside(layout) /\ gliding \in [Inside(layout) -> Nat]
  BY ScrollAssumption DEF ScrollInv
<1>3. PICK moved \in SUBSET (Around(scroll.target) \ {scroll.target}), far \in BOOLEAN :
         position' = [n \in Inside(layout) |->
                         IF n \notin moved \/ layout.box[n].overflow = "visible" THEN position[n]
                         ELSE [a \in {"x", "y"} |-> IF far THEN layout.box[n].over[a] ELSE 0]]
  BY DEF ContainersMove
<1>4. ASSUME NEW n \in Inside(layout)
      PROVE  position'[n] \in [Ends -> Nat] /\ \A a \in Ends : position'[n][a] <= layout.box[n].over[a]
  <2>1. \A a \in Ends : /\ position[n][a] \in Nat /\ layout.box[n].over[a] \in Nat
                        /\ position[n][a] <= layout.box[n].over[a]
    BY <1>2, PlacesTyped
  <2>2. position[n] \in [Ends -> Nat]
    BY <1>2 DEF Positions
  <2>3. CASE n \notin moved \/ layout.box[n].overflow = "visible"
    BY <1>3, <2>1, <2>2, <2>3
  <2>4. CASE ~(n \notin moved \/ layout.box[n].overflow = "visible")
    <3>1. position'[n] = [a \in Ends |-> IF far THEN layout.box[n].over[a] ELSE 0]
      BY <1>3, <2>4 DEF Ends
    <3> QED
      BY <2>1, <3>1
  <2> QED
    BY <2>3, <2>4
<1>5. position' \in Positions(layout)
  <2>1. position' \in [Inside(layout) -> [Ends -> Nat]]
    <3>1. DOMAIN position' = Inside(layout) /\ position' = [n \in Inside(layout) |-> position'[n]]
      BY <1>3
    <3> QED
      BY <1>4, <3>1
  <2> QED
    BY <1>4, <2>1 DEF Positions
<1>6. position'[scroll.target] = position[scroll.target]
  BY <1>2, <1>3
<1>7. scroll.pc # "solved" => OnCourse(layout, position', scroll.target, scroll.direction)
  BY <1>6 DEF ScrollInv, OnCourse, Gone
<1>8. GoesAllTheWay'
  <2>1. GoesAllTheWay
    BY DEF ScrollInv
  <2> QED
    BY <1>1, <1>6, <2>1 DEF GoesAllTheWay, Gone, RoomAt
<1>9. FindsWhatScrolls'
  BY <1>1 DEF ScrollInv, FindsWhatScrolls
<1>10. /\ layout' \in Layouts /\ position' \in Positions(layout') /\ gliding' \in [Inside(layout') -> Nat]
       /\ scroll'.target \in Inside(layout')
       /\ scroll'.pc # "solved" => scroll' \in ScrollCalls /\ OnCourse(layout', position', scroll'.target, scroll'.direction)
       /\ scroll'.pc = "solved" => \A n \in Inside(layout') : gliding'[n] = 0
  BY <1>1, <1>2, <1>5, <1>7 DEF ScrollInv
<1> QED
  BY <1>8, <1>9, <1>10 DEF ScrollInv

\* Every step of a smooth scroll brings the element nearer to what was asked for.
LEMMA GlidingKeepsScrollInv ==
    ASSUME ScrollInv, Glide
    PROVE  ScrollInv'
<1>1. scroll.pc # "idle" /\ UNCHANGED <<layout, scroll>>
  BY DEF Glide
<1>2. PICK n \in Inside(layout) : /\ gliding[n] > 0 /\ gliding' = [gliding EXCEPT ![n] = @ - 1]
                                  /\ position' = Moved(n, scroll.direction, 1)
  BY DEF Glide
<1>3. /\ layout \in Layouts /\ IsPage(layout) /\ position \in Positions(layout)
      /\ scroll.target \in Inside(layout) /\ gliding \in [Inside(layout) -> Nat]
  BY <1>1, ScrollAssumption DEF ScrollInv
<1>4. scroll.pc # "solved"
  BY <1>1, <1>2 DEF ScrollInv
<1>5. /\ scroll \in ScrollCalls /\ scroll.direction \in Compass
      /\ OnCourse(layout, position, scroll.target, scroll.direction)
  BY <1>1, <1>4 DEF ScrollInv, ScrollCalls
<1>6. gliding' \in [Inside(layout) -> Nat]
  BY <1>2, <1>3
<1> DEFINE after == Moved(n, scroll.direction, 1)
<1>7. /\ after \in Positions(layout)
      /\ OnCourse(layout, after, scroll.target, scroll.direction)
      /\ \A m \in Inside(layout) \ {n} : after[m] = position[m]
      /\ \/ Gone(layout, after, n, scroll.direction) = Gone(layout, position, n, scroll.direction) + 1
         \/ RoomAt(layout, after, n, scroll.direction) = 0
      /\ RoomAt(layout, position, n, scroll.direction) = 0 => after = position
  BY <1>3, <1>5, MovingOne
<1>8. position' = after
  BY <1>2
<1> HIDE DEF after
<1>9. GoesAllTheWay'
  <2> SUFFICES ASSUME scroll.pc = "done", scroll.way = "javascript"
               PROVE  \/ Gone(layout, after, scroll.target, scroll.direction) + gliding'[scroll.target] >= scroll.distance
                      \/ RoomAt(layout, after, scroll.target, scroll.direction) = 0
    BY <1>1, <1>8 DEF GoesAllTheWay, Gone, RoomAt
  <2>1. \/ Gone(layout, position, scroll.target, scroll.direction) + gliding[scroll.target] >= scroll.distance
        \/ RoomAt(layout, position, scroll.target, scroll.direction) = 0
    BY <1>1 DEF ScrollInv, GoesAllTheWay
  <2>2. CASE scroll.target = n
    <3>1. gliding'[n] = gliding[n] - 1 /\ gliding[n] \in Nat
      BY <1>2, <1>3
    <3>2. Gone(layout, position, n, scroll.direction) \in Int /\ scroll.distance \in Nat
      BY <1>1, <1>4, <2>2, GoneIsANumber, <1>5 DEF ScrollCalls
    <3> QED
      BY <1>7, <2>1, <2>2, <3>1, <3>2
  <2>3. CASE scroll.target # n
    <3>1. gliding'[scroll.target] = gliding[scroll.target] /\ after[scroll.target] = position[scroll.target]
      BY <1>2, <1>3, <1>7, <2>3
    <3> QED
      BY <2>1, <3>1 DEF Gone, RoomAt
  <2> QED
    BY <2>2, <2>3
<1>10. FindsWhatScrolls'
  BY <1>1 DEF ScrollInv, FindsWhatScrolls
<1>11. /\ layout' \in Layouts /\ position' \in Positions(layout') /\ gliding' \in [Inside(layout') -> Nat]
       /\ scroll'.target \in Inside(layout') /\ scroll'.pc # "solved"
       /\ scroll' \in ScrollCalls /\ OnCourse(layout', position', scroll'.target, scroll'.direction)
  BY <1>1, <1>3, <1>4, <1>5, <1>6, <1>7, <1>8
<1> QED
  BY <1>9, <1>10, <1>11 DEF ScrollInv

LEMMA SendingKeepsScrollInv ==
    ASSUME ScrollInv,
           ScrollWithJavascript \/ ScrollWithActionChains \/ ScrollWithKeystrokes \/ ScrollRaises \/ PlaywrightScroll
    PROVE  ScrollInv'
<1>1. scroll.pc = "send" /\ UNCHANGED <<layout, position>>
  BY DEF ScrollWithJavascript, ScrollWithActionChains, ScrollWithKeystrokes, ScrollRaises, PlaywrightScroll, Sending
<1>2. /\ scroll \in ScrollCalls /\ gliding \in [Inside(layout) -> Nat]
      /\ scroll.target \in Inside(layout) /\ scroll.distance \in Nat /\ scroll.keys \in Nat
  BY <1>1, UnderWay
<1>3. ScrollBy(scroll.target, scroll.distance) =>
         gliding' \in [Inside(layout) -> Nat] /\ gliding'[scroll.target] >= scroll.distance
  BY <1>2 DEF ScrollBy
<1>4. ASSUME NEW n, NEW amount \in Nat
      PROVE  UserScrolls(n, scroll.direction, amount) \in [Inside(layout) -> Nat]
  BY <1>2, WheelsAsk
<1>5. Returns => /\ scroll' \in ScrollCalls /\ scroll'.pc = "done"
                 /\ scroll'.engine = scroll.engine /\ scroll'.search = scroll.search /\ scroll'.target = scroll.target
                 /\ scroll'.direction = scroll.direction /\ scroll'.way = scroll.way
                 /\ scroll'.distance = scroll.distance
  BY <1>2 DEF ScrollCalls, Returns
<1>6. CASE ScrollWithJavascript
  <2>1. ScrollBy(scroll.target, scroll.distance) /\ Returns
    BY <1>6 DEF ScrollWithJavascript
  <2> QED
    BY <1>1, <1>3, <1>5, <2>1, StepsKeepScrollInv
<1>7. CASE ScrollWithActionChains
  <2>1. /\ Returns /\ scroll.way # "javascript"
        /\ gliding' = gliding \/ \E n : gliding' = UserScrolls(n, scroll.direction, scroll.distance)
    BY <1>2, <1>7 DEF ScrollWithActionChains, Sending
  <2>2. gliding' \in [Inside(layout) -> Nat]
    BY <1>2, <1>4, <2>1
  <2> QED
    BY <1>1, <1>5, <2>1, <2>2, StepsKeepScrollInv
<1>8. CASE ScrollWithKeystrokes
  <2>1. CASE scroll.keys > 0
    <3>1. /\ gliding' = UserScrolls(scroll.target, scroll.direction, 1)
          /\ scroll' = [scroll EXCEPT !.keys = @ - 1]
      BY <1>8, <2>1 DEF ScrollWithKeystrokes
    <3>2. gliding' \in [Inside(layout) -> Nat]
      BY <1>2, <1>4, <3>1
    <3>3. scroll.keys - 1 \in Nat
      BY <1>2, <2>1
    <3>4. /\ scroll' \in ScrollCalls /\ scroll'.pc = "send"
          /\ scroll'.engine = scroll.engine /\ scroll'.search = scroll.search /\ scroll'.target = scroll.target
          /\ scroll'.direction = scroll.direction
      BY <1>1, <1>2, <3>1, <3>3 DEF ScrollCalls
    <3> QED
      BY <1>1, <3>2, <3>4, StepsKeepScrollInv
  <2>2. CASE ~(scroll.keys > 0)
    <3>1. Returns /\ gliding' = gliding /\ scroll.way = "keystrokes"
      BY <1>8, <2>2 DEF ScrollWithKeystrokes, Sending
    <3> QED
      BY <1>1, <1>2, <1>5, <3>1, StepsKeepScrollInv
  <2> QED
    BY <2>1, <2>2
<1>9. CASE ScrollRaises
  <2>1. /\ gliding' = gliding \/ gliding' = UserScrolls(scroll.target, scroll.direction, scroll.distance)
        /\ scroll' = IF scroll.way = "javascript" THEN [scroll EXCEPT !.pc = "failed"]
                     ELSE [scroll EXCEPT !.way = "javascript"]
    BY <1>9 DEF ScrollRaises
  <2>2. /\ scroll' \in ScrollCalls /\ scroll'.pc \in {"send", "failed"}
        /\ scroll'.engine = scroll.engine /\ scroll'.search = scroll.search /\ scroll'.target = scroll.target
        /\ scroll'.direction = scroll.direction
    BY <1>1, <1>2, <2>1 DEF ScrollCalls
  <2>3. gliding' \in [Inside(layout) -> Nat]
    BY <1>2, <1>4, <2>1
  <2> QED
    BY <1>1, <2>2, <2>3, StepsKeepScrollInv
<1>10. CASE PlaywrightScroll
  <2>1. CASE /\ IF scroll.way = "javascript" THEN ScrollBy(scroll.target, scroll.distance)
                ELSE gliding' = UserScrolls(scroll.target, scroll.direction, scroll.distance)
             /\ Returns
    <3>1. gliding' \in [Inside(layout) -> Nat]
      BY <1>2, <1>3, <1>4, <2>1
    <3>2. scroll.way = "javascript" => gliding'[scroll.target] >= scroll.distance
      BY <1>3, <2>1
    <3> QED
      BY <1>1, <1>5, <2>1, <3>1, <3>2, StepsKeepScrollInv
  <2>2. CASE scroll' = [scroll EXCEPT !.pc = "failed"] /\ gliding' = gliding
    <3>1. /\ scroll' \in ScrollCalls /\ scroll'.pc = "failed"
          /\ scroll'.engine = scroll.engine /\ scroll'.search = scroll.search /\ scroll'.target = scroll.target
          /\ scroll'.direction = scroll.direction
      BY <1>1, <1>2, <2>2 DEF ScrollCalls
    <3> QED
      BY <1>1, <1>2, <2>2, <3>1, StepsKeepScrollInv
  <2> QED
    BY <1>10, <2>1, <2>2 DEF PlaywrightScroll
<1> QED
  BY <1>6, <1>7, <1>8, <1>9, <1>10

LEMMA ScrollInvIsEnough ==
    ASSUME ScrollInv
    PROVE  ScrollsWhatScrolls
<1>1. ASSUME scroll.pc \notin {"idle", "failed"}, scroll.engine = "selenium", scroll.search \notin {"off", "javascript"}
      PROVE  LET moves == {n \in Inside(layout) : layout.box[n].overflow # "visible"
                                                 /\ \E a \in Axes(scroll.direction) : layout.box[n].over[a] > 0}
             IN  scroll.target \in moves \/ moves = {}
  <2>1. scroll.target \in Scrollable(layout, scroll.direction) \/ Scrollable(layout, scroll.direction) = {}
    BY <1>1 DEF ScrollInv, FindsWhatScrolls
  <2>2. Scrollable(layout, scroll.direction) =
           {n \in Inside(layout) : layout.box[n].overflow # "visible"
                                   /\ \E a \in Axes(scroll.direction) : layout.box[n].over[a] > 0}
    BY DEF Scrollable, ScrollsAlong
  <2> QED
    BY <2>1, <2>2
<1>2. ASSUME scroll.pc = "done"
      PROVE  LET before == layout.start[scroll.target]
                 place == position[scroll.target]
                 a == Axis(scroll.direction)
                 gone == IF scroll.direction \in {"Down", "Right"} THEN place[a] - before[a] ELSE before[a] - place[a]
             IN  /\ \A b \in {"x", "y"} \ {a} : place[b] = before[b]
                 /\ gone >= 0
                 /\ scroll.way = "javascript" /\ gliding[scroll.target] = 0 =>
                       gone >= scroll.distance \/ Room(scroll.target, scroll.direction) = 0
  <2>1. OnCourse(layout, position, scroll.target, scroll.direction) /\ GoesAllTheWay
    BY <1>2 DEF ScrollInv
  <2>3. Gone(layout, position, scroll.target, scroll.direction) \in Int
    BY <1>2, GoneIsANumber
  <2>2. Room(scroll.target, scroll.direction) = RoomAt(layout, position, scroll.target, scroll.direction)
    BY DEF Room, RoomAt
  <2> QED
    BY <1>2, <2>1, <2>2, <2>3 DEF OnCourse, Gone, GoesAllTheWay, Ends
<1> QED
  BY <1>1, <1>2 DEF ScrollsWhatScrolls

\* For every page, strategy, direction and distance: the search gives an element that
\* can be scrolled the asked way if there is one, and a scroll_element that returns
\* has moved its element the asked way only, all the way when JavaScript sent it
\* and the browser has come to rest.
THEOREM ScrollsAreRight == ScrollSpec => []ScrollsWhatScrolls
<1>1. ScrollInit => ScrollInv
  BY DEF ScrollInit, ScrollInv
<1>2. ScrollInv /\ [ScrollNext]_scrollVars => ScrollInv'
  <2> SUFFICES ASSUME ScrollInv, [ScrollNext]_scrollVars PROVE ScrollInv'
    OBVIOUS
  <2>1. CASE UNCHANGED scrollVars
    BY <2>1 DEF scrollVars, ScrollInv, FindsWhatScrolls, GoesAllTheWay
  <2>2. CASE ScrollNext
    BY <2>2, CallsKeepScrollInv, CenteringKeepsScrollInv, SendingKeepsScrollInv, ContainersKeepScrollInv,
       GlidingKeepsScrollInv DEF ScrollNext
  <2> QED
    BY <2>1, <2>2
<1>3. ScrollInv => ScrollsWhatScrolls
  BY ScrollInvIsEnough
<1> QED
  BY <1>1, <1>2, <1>3, PTL DEF ScrollSpec
=============================================================================
