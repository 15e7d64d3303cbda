------------------------------ MODULE BrowserTabs ------------------------------
(***************************************************************************)
(* The tabs of one browser as the two backends and the WebDriver over them *)
(* keep them: the open tabs, the driver's current tab, what each tab shows,*)
(* and the set of tabs that are reserved for monitors (_monitor_tabs).     *)
(*                                                                         *)
(* A tab's content is the text of the one element the monitors look at, or *)
(* Absent.  Handles are never reused.  A tab that appears later than the   *)
(* code waits for it is a SiteOpensTab step.                               *)
(***************************************************************************)
EXTENDS Naturals, Sequences, SequencesExt, FiniteSets

CONSTANTS Handles, Texts, Absent

VARIABLES
    engine,      \* "selenium" or "playwright", chosen when the driver is made
    tabs,        \* window_handles, in the order the backend lists them
    cur,         \* current_window_handle, which may be a closed tab
    used,        \* the handles given out so far
    shown,       \* what each tab shows
    watched,     \* WebDriver._monitor_tabs
    overwritten  \* history: watched tabs visit_url has navigated, and whether it was to spare them

tabVars == <<engine, tabs, cur, used, shown, watched, overwritten>>

Contents == Texts \cup {Absent}
Open == ToSet(tabs)
Fresh == Handles \ used
IsMonitorTab(h) == h \in watched
RegisterOnly(h) == watched' = {h}
RegisterMonitorTab(h) == watched' = watched \cup {h}
UnregisterMonitorTab(h) == watched' = watched \ {h}
ActionTabs == SelectSeq(tabs, LAMBDA h : ~IsMonitorTab(h))

TabsInit ==
    /\ engine \in {"selenium", "playwright"}
    /\ \E h \in Handles : tabs = <<h>> /\ cur = h /\ used = {h}
    /\ shown = [h \in Handles |-> Absent]
    /\ watched = {} /\ overwritten = {}

(* A page the backend has not seen gets a handle; window_handles lists it. *)
RegisterPage(h) == h \in Fresh /\ tabs' = Append(tabs, h) /\ used' = used \cup {h}

(* A new tab h shows c and is the current one. *)
OpensTab(h, c) == RegisterPage(h) /\ cur' = h /\ shown' = [shown EXCEPT ![h] = c]

Navigates(c) == cur \in Open /\ shown' = [shown EXCEPT ![cur] = c] /\ UNCHANGED <<tabs, cur, used>>

(* open_url of Selenium tries three ways to get a tab and falls back to    *)
(* the current one; Playwright's new_page gives a tab or raises.           *)
SeleniumOpenUrl(newTab, c) ==
    \/ newTab /\ \E h \in Fresh : OpensTab(h, c)
    \/ Navigates(c)

PlaywrightOpenUrl(newTab, c) ==
    IF newTab THEN \E h \in Fresh : OpensTab(h, c) ELSE Navigates(c)

OpenUrl(newTab, c) ==
    \/ engine = "selenium" /\ SeleniumOpenUrl(newTab, c)
    \/ engine = "playwright" /\ PlaywrightOpenUrl(newTab, c)

(* visit_url: forced into a new tab when the current one is monitored.     *)
NewTabForced(force) == force /\ IsMonitorTab(cur)

VisitUrl(force, c) ==
    /\ cur \in Open
    /\ OpenUrl(NewTabForced(force), c)
    /\ overwritten' = IF cur \in watched /\ cur' = cur
                      THEN overwritten \cup {[tab |-> cur, spared |-> force]} ELSE overwritten
    /\ UNCHANGED <<engine, watched>>

(* search opens the result page with open_url and never asks for a tab.    *)
Search(c) == engine = "selenium" /\ Navigates(c) /\ UNCHANGED <<engine, watched, overwritten>>

(* click: on an element that leads elsewhere the strategies may open a tab,*)
(* which becomes the current one; otherwise the click acts on the page.    *)
Click(c) ==
    /\ cur \in Open
    /\ \/ \E h \in Fresh : OpensTab(h, c)
       \/ Navigates(c)
    /\ UNCHANGED <<engine, watched, overwritten>>

(* A tab that closes leaves the list.                                      *)
ClosesTab(h) == \E i \in DOMAIN tabs : tabs[i] = h /\ tabs' = RemoveAt(tabs, i)

(* close: Selenium's driver stays on the closed tab, Playwright's backend  *)
(* goes on with the first page that is left.  The registry is not told.    *)
SeleniumClose == cur' = cur
PlaywrightClose == cur' = IF tabs' = <<>> THEN cur ELSE Head(tabs')

CloseTab ==
    /\ ClosesTab(cur)
    /\ IF engine = "selenium" THEN SeleniumClose ELSE PlaywrightClose
    /\ UNCHANGED <<engine, used, shown, watched, overwritten>>

SwitchesTo(h) == h \in Open /\ cur' = h

(* switch_to_action_tab, with a handle or with the first action tab.       *)
SwitchToActionTab ==
    /\ \/ \E h \in Handles : ~IsMonitorTab(h) /\ SwitchesTo(h)
       \/ ActionTabs # <<>> /\ SwitchesTo(Head(ActionTabs))
    /\ UNCHANGED <<engine, tabs, used, shown, watched, overwritten>>

(* The state setter: back to a remembered window, when it is still open.   *)
SetState(h) ==
    /\ h # cur /\ SwitchesTo(h)
    /\ UNCHANGED <<engine, tabs, used, shown, watched, overwritten>>

(* The pages and the user.                                                 *)
SiteOpensTab ==
    /\ tabs # <<>>
    /\ \E h \in Fresh : tabs' = Append(tabs, h) /\ used' = used \cup {h}
    /\ UNCHANGED <<engine, cur, shown, watched, overwritten>>

SiteChanges(h, c) ==
    /\ h \in Open /\ c # shown[h] /\ shown' = [shown EXCEPT ![h] = c]
    /\ UNCHANGED <<engine, tabs, cur, used, watched, overwritten>>

UserClosesTab(h) ==
    /\ ClosesTab(h)
    /\ UNCHANGED <<engine, cur, used, shown, watched, overwritten>>

TabsNext ==
    \/ \E force \in BOOLEAN, c \in Texts : VisitUrl(force, c)
    \/ \E c \in Texts : Search(c)
    \/ \E c \in Texts : Click(c)
    \/ CloseTab
    \/ SwitchToActionTab
    \/ \E h \in Handles : SetState(h)
    \/ SiteOpensTab
    \/ \E h \in Handles, c \in Contents : SiteChanges(h, c)
    \/ \E h \in Handles : UserClosesTab(h)
=============================================================================
