------------------------------ MODULE ActionMemory ------------------------------
(***************************************************************************)
(* WebDriver.__call__: what one action does to the memory of the window it *)
(* starts in.  The first action of a sequence records a base; follow-ups   *)
(* of the same action add snapshots that are compared with it.  An action  *)
(* may raise, may leave the driver on another tab, and may be skipped.     *)
(***************************************************************************)
EXTENDS Naturals, FiniteSets

CONSTANTS
    Windows,
    ActionConfigs   \* action name -> [kind, base, change, after, followUp]

VARIABLES
    windowInfos,    \* window -> [base: whose base it holds, last: last_action_type]
    openWindows,
    driverOn,       \* the driver's current window
    call,           \* the call in progress: [action, window, follow, element], or <<>>
    snapshot,       \* what the last step captured: [by, window, tab], or <<>>
    orphaned,       \* history: windows whose base was recorded by an action that then raised
    unset           \* history: windows whose last sequence has set no base, its target being empty
memoryVars == <<windowInfos, openWindows, driverOn, call, snapshot, orphaned, unset>>

Nobody == "nobody"
ActionNames == DOMAIN ActionConfigs
Config(a) == ActionConfigs[a]

(* The constraint WebAgentAction puts on the modes: without a base no      *)
(* changes are captured.                                                   *)
ASSUME MemoryAssumption ==
    /\ Windows # {}
    /\ \A a \in ActionNames : Config(a).base = "none" => Config(a).change = "none"

MemoryInit ==
    /\ windowInfos = [w \in Windows |-> [base |-> Nobody, last |-> Nobody]]
    /\ openWindows = Windows
    /\ driverOn \in {CHOOSE w \in Windows : TRUE}
    /\ call = <<>> /\ snapshot = <<>> /\ orphaned = {} /\ unset = {}

FollowsAnything(asked, a, w) == asked /\ Config(a).followUp /\ Config(a).kind = "element"

(* _should_treat_action_as_follow_up, and the kinds that never are.        *)
IsFollowUp(asked, a, w) ==
    asked /\ Config(a).followUp /\ windowInfos[w].last = a /\ Config(a).kind = "element"

(* _capture_base_memory.  A target of which nothing is left after cleaning *)
(* sets no base: the memory keeps the one it had.                          *)
CaptureBaseMemory(a, w) ==
    \/ /\ windowInfos' = [windowInfos EXCEPT ![w].base = IF Config(a).base = "none" THEN Nobody ELSE a]
       /\ orphaned' = orphaned \ {w} /\ unset' = unset \ {w}
    \/ /\ Config(a).base = "target" /\ unset' = unset \cup {w}
       /\ UNCHANGED <<windowInfos, orphaned>>

(* _capture_incremental_memory: of the page the driver is on now, or of    *)
(* the target unless it went stale; the mode "none" is refused when there  *)
(* is a base.                                                              *)
CaptureRefused(a) == Config(a).change = "none" /\ Config(a).base # "none"
Captures(a, w, tab) ==
    CASE Config(a).change = "full" -> {[by |-> a, window |-> w, tab |-> tab]}
      [] Config(a).change = "target" -> {<<>>, [by |-> a, window |-> w, tab |-> w]}
      [] OTHER -> {<<>>}

Raises == call' = <<>>

(* Up to execute_single_action.  Waiting, searching and composite actions  *)
(* keep no memory; a target that is not found raises or skips the action.  *)
BeginAction(a, asked) ==
    LET w == driverOn
        follow == IsFollowUp(asked, a, w)
    IN /\ call = <<>> /\ w \in openWindows
       /\ call' = [action |-> a, window |-> w, follow |-> follow, element |-> Config(a).kind = "element"]
       /\ IF Config(a).kind # "element" THEN snapshot' = <<>> /\ UNCHANGED <<windowInfos, orphaned, unset>>
          ELSE IF ~follow THEN CaptureBaseMemory(a, w) /\ snapshot' = <<>>
          ELSE /\ snapshot' \in IF Config(a).after THEN {<<>>} ELSE Captures(a, w, w)
               /\ ~Config(a).after => ~CaptureRefused(a)
               /\ UNCHANGED <<windowInfos, orphaned, unset>>
       /\ UNCHANGED <<openWindows, driverOn>>

BeginFails(a, asked) ==
    /\ call = <<>> /\ snapshot' = <<>>
    /\ UNCHANGED <<windowInfos, openWindows, driverOn, call, orphaned, unset>>
    /\ \/ driverOn \notin openWindows
       \/ Config(a).kind = "element"
       \/ IsFollowUp(asked, a, driverOn) /\ ~Config(a).after /\ CaptureRefused(a)

(* The action itself: done, done in a tab it opened, or an exception.      *)
ExecuteAction ==
    /\ call # <<>> /\ "executed" \notin DOMAIN call
    /\ call' = [action |-> call.action, window |-> call.window, follow |-> call.follow,
                element |-> call.element, executed |-> TRUE]
    /\ driverOn' \in openWindows /\ snapshot' = <<>>
    /\ UNCHANGED <<windowInfos, openWindows, orphaned, unset>>

OrphansBase == IF call.element /\ ~call.follow THEN orphaned \cup {call.window} ELSE orphaned

ActionRaises ==
    /\ call # <<>> /\ Raises /\ snapshot' = <<>>
    /\ orphaned' = OrphansBase
    /\ UNCHANGED <<windowInfos, openWindows, driverOn, unset>>

(* After the action: the snapshot of after-capture mode (unless there is   *)
(* no element to remember), and only then last_action_type, on the window  *)
(* the call started in.                                                    *)
FinishAction ==
    /\ call # <<>> /\ "executed" \in DOMAIN call
    /\ LET a == call.action
       IN IF Config(a).after /\ call.element
          THEN ~CaptureRefused(a) /\ snapshot' \in {<<>>} \cup Captures(a, call.window, driverOn)
          ELSE snapshot' = <<>>
    /\ windowInfos' = [windowInfos EXCEPT ![call.window].last = call.action]
    /\ call' = <<>>
    /\ UNCHANGED <<openWindows, driverOn, orphaned, unset>>

UserClosesWindow(w) ==
    /\ Cardinality(openWindows) > 1 /\ w \in openWindows /\ openWindows' = openWindows \ {w}
    /\ snapshot' = <<>> /\ UNCHANGED <<windowInfos, driverOn, call, orphaned, unset>>

MemoryNext ==
    \/ \E a \in ActionNames, asked \in BOOLEAN : BeginAction(a, asked) \/ BeginFails(a, asked)
    \/ ExecuteAction \/ ActionRaises \/ FinishAction
    \/ \E w \in Windows : UserClosesWindow(w)

MemorySpec == MemoryInit /\ [][MemoryNext]_memoryVars

(* A snapshot is compared with the base its own action recorded in that    *)
(* window: a change of action starts a new base, in every order of calls   *)
(* over several windows.  The code leaves two exceptions: an action that   *)
(* recorded its base and then raised, which leaves last_action_type to the *)
(* action before it, and one whose target was empty once cleaned, which    *)
(* leaves the base to the action before it.                                *)
ComparedWithOwnBase ==
    snapshot # <<>> =>
        \/ windowInfos[snapshot.window].base = snapshot.by
        \/ snapshot.window \in orphaned \cup unset
=============================================================================
