------------------------------ MODULE NewTabClick ------------------------------
(***************************************************************************)
(* One click_element call of the Selenium or the Playwright backend: the   *)
(* decision whether the element should be opened in a new tab, the         *)
(* strategies that try to get one, the waits, and the fallback to a normal *)
(* click when nothing happened.                                            *)
(*                                                                         *)
(* The page answers a click in its own time: a reaction (a tab, another    *)
(* URL, other text, other markup, nothing) happens at any moment after it, *)
(* before or after the code has looked.                                    *)
(***************************************************************************)
EXTENDS Naturals, Sequences, SequencesExt

CONSTANTS Orders      \* the strategy orders to try

VARIABLES
    clickPc,    \* "idle", "attempt", "restore", "check", "wait", "settle", "click", "done"
    job,        \* what the arguments and the element come to
    todo,       \* the attempts that are left
    armed,      \* reactions the page still owes
    changed,    \* what of the page differs from the state before the attempts
    newTabs,    \* tabs that are not in handles_before
    current,    \* "old" or "new": the tab the driver is on
    fellBack,   \* history: the fallback clicked
    overdue,    \* history: the last attempt clicked nothing while reactions to earlier ones were owed
    late        \* history: the looks a new tab came too late for ("check", "wait"), and
                \* "raised" when an attempt did something and raised instead of looking
clickVars == <<clickPc, job, todo, armed, changed, newTabs, current, fellBack, overdue, late>>

Elements == [tag : {"a", "button", "div"}, href : {"none", "hash", "same", "external"},
             onclick : {"none", "url", "code"}, attr : {"none", "jsname", "button", "link"}]
Modes == {"disabled", "enabled", "interactable", "non_same_page"}
Fallbacks == {"disabled", "text", "html"}

(* get_element_interaction_type: the first thing that classifies it.       *)
AttributeType(e) ==
    CASE e.attr = "none" -> "no_interaction"
      [] e.attr = "button" -> "same_page_interactable"
      [] e.attr = "link" -> "unknown_interactable"
      [] e.attr = "jsname" ->
            IF e.tag = "button" /\ e.onclick = "none" THEN "same_page_interactable" ELSE "unknown_interactable"

InteractionType(e) ==
    CASE e.href = "hash" -> "same_page_anchor"
      [] e.href \in {"same", "external"} -> e.href
      [] e.href = "none" /\ e.onclick = "url" -> "external"
      [] OTHER -> AttributeType(e)

(* Selenium resolves href="#" and data-url alike; Playwright reads the     *)
(* resolved href, which never starts with "#".                             *)
HasUrl(e) == e.href # "none" \/ e.onclick = "url"
NonSamePage(engine, e) ==
    IF engine = "selenium" THEN InteractionType(e) \in {"same", "external", "unknown_interactable"}
    ELSE e.href # "none"

TriesNewTab(engine, mode, e) ==
    \/ mode = "enabled"
    \/ mode = "interactable" /\ (engine = "selenium" => InteractionType(e) # "no_interaction")
    \/ mode = "non_same_page" /\ NonSamePage(engine, e)

(* The attempts a strategy comes to for this element.                      *)
Attempts(engine, e, strategy) ==
    CASE strategy = "url_extract" -> IF HasUrl(e) THEN <<"open">> ELSE <<>>
      [] strategy = "target_blank" -> IF e.tag = "a" THEN <<"blank">> ELSE <<>>
      [] strategy = "modifier_key" -> IF engine = "selenium" THEN <<"modified", "modified">> ELSE <<"modified">>
      [] strategy = "cdp" -> IF HasUrl(e) THEN <<"create">> ELSE <<>>
      [] strategy = "middle_click" -> <<"modified">>

ClickInit ==
    /\ clickPc = "idle" /\ job = <<>> /\ todo = <<>> /\ armed = 0 /\ changed = {}
    /\ newTabs = 0 /\ current = "old" /\ fellBack = FALSE /\ overdue = FALSE /\ late = {}

StartClick(engine, mode, e, fallback, order) ==
    /\ clickPc = "idle"
    /\ LET tries == TriesNewTab(engine, mode, e)
       IN /\ job' = [engine |-> engine, fallback |-> fallback, waits |-> NonSamePage(engine, e)]
          /\ clickPc' = IF tries THEN "attempt" ELSE "click"
          /\ todo' = IF tries THEN FlattenSeq([i \in DOMAIN order |-> Attempts(engine, e, order[i])]) ELSE <<>>
    /\ UNCHANGED <<armed, changed, newTabs, current, fellBack, overdue, late>>

(* _click_element: the implementations in order until one does not raise.  *)
(* Selenium goes on only when the click was intercepted, before it had any *)
(* effect; Playwright after any exception, a timeout that follows the      *)
(* click included.                                                         *)
Dispatches == IF job.engine = "selenium" THEN 0 .. 1 ELSE 0 .. 2

(* What an attempt does: it opens the URL (which may be blocked), or clicks *)
(* the element in a special way.                                           *)
Acts(attempt) ==
    CASE attempt = "open" /\ job.engine = "playwright" -> newTabs' = newTabs + 1 /\ UNCHANGED armed
      [] attempt = "blank" -> (\E n \in Dispatches : armed' = armed + n) /\ UNCHANGED newTabs
      [] OTHER -> armed' \in {armed, armed + 1} /\ UNCHANGED newTabs

(* One attempt.  Whatever raises in it, before or after the page was       *)
(* touched (the goto of the new page, a click that times out, the target   *)
(* that is set back), leads to the next strategy without a look.           *)
Attempt ==
    /\ clickPc = "attempt" /\ todo # <<>>
    /\ todo' = Tail(todo) /\ Acts(Head(todo))
    /\ \/ clickPc' = (IF Head(todo) = "blank" THEN "restore" ELSE "check") /\ UNCHANGED late
       \/ /\ clickPc' = "attempt"
          /\ late' = IF armed' # armed \/ newTabs' # newTabs THEN late \cup {"raised"} ELSE late
    /\ overdue' = (armed > 0 /\ armed' = armed)
    /\ UNCHANGED <<job, changed, current, fellBack>>

NoMoreAttempts ==
    /\ clickPc = "attempt" /\ todo = <<>> /\ clickPc' = "wait"
    /\ UNCHANGED <<job, todo, armed, changed, newTabs, current, fellBack, overdue, late>>

ChecksNothing ==
    /\ clickPc = "check" /\ clickPc' = "attempt"
    /\ UNCHANGED <<job, todo, armed, changed, newTabs, current, fellBack, overdue, late>>

(* The target of the link is set back: by Selenium before it looks, by     *)
(* Playwright in a finally after it has looked.  When this raises, the     *)
(* look is not taken, and what was seen is forgotten.                      *)
RestoreTarget ==
    /\ clickPc = "restore"
    /\ \/ clickPc' = "check" /\ UNCHANGED late
       \/ clickPc' = "attempt" /\ late' = late \cup {"raised"}
    /\ UNCHANGED <<job, todo, armed, changed, newTabs, current, fellBack, overdue>>

(* _check_new_tab: a new handle ends the strategies.                       *)
CheckNewTab ==
    /\ clickPc = "check"
    /\ IF newTabs > 0 THEN clickPc' = "done" /\ current' = "new" ELSE clickPc' = "attempt" /\ UNCHANGED current
    /\ UNCHANGED <<job, todo, armed, changed, newTabs, fellBack, overdue, late>>

(* The additional wait, when the element leads elsewhere, and one look at  *)
(* its end; Playwright looks once more in any case.                        *)
LooksAgain == job.waits \/ job.engine = "playwright"

Wait ==
    /\ clickPc = "wait"
    /\ \/ /\ newTabs > 0 /\ LooksAgain
          /\ clickPc' = "done" /\ current' = "new" /\ UNCHANGED late
       \/ /\ newTabs > 0 => ~LooksAgain
          /\ clickPc' = IF job.fallback = "disabled" THEN "done" ELSE "settle"
          /\ late' = IF newTabs > 0 THEN late \cup {"wait"} ELSE late
          /\ UNCHANGED current
    /\ UNCHANGED <<job, todo, armed, changed, newTabs, fellBack, overdue>>

Visible == IF job.fallback = "text" THEN {"url", "text"} ELSE {"url", "text", "html"}

(* The fallback: a normal click when URL and content are what they were.   *)
Compare ==
    /\ clickPc = "settle"
    /\ clickPc' = IF changed \cap Visible = {} THEN "click" ELSE "done"
    /\ fellBack' = (changed \cap Visible = {})
    /\ UNCHANGED <<job, todo, armed, changed, newTabs, current, overdue, late>>

NormalClick ==
    /\ clickPc = "click" /\ clickPc' = "done"
    /\ \E n \in Dispatches : armed' = armed + n
    /\ UNCHANGED <<job, todo, changed, newTabs, current, fellBack, overdue, late>>

(* The page: a reaction to one of the clicks so far.  A tab is late for    *)
(* the check when the check after its click is over, or when it may answer *)
(* a click before the one that is checked; it is late for the wait when    *)
(* that is over.                                                           *)
PageReacts ==
    /\ armed > 0 /\ armed' = armed - 1
    /\ \/ /\ newTabs' = newTabs + 1
          /\ late' = late \cup (IF clickPc \notin {"restore", "check"} \/ overdue \/ armed > 1 THEN {"check"} ELSE {})
                           \cup (IF clickPc \in {"settle", "click", "done"} THEN {"wait"} ELSE {})
          /\ UNCHANGED changed
       \/ /\ \E c \in {{}, {"html"}, {"html", "text"}, {"html", "text", "url"}} : changed' = changed \cup c
          /\ UNCHANGED <<newTabs, late>>
    /\ UNCHANGED <<clickPc, job, todo, current, fellBack, overdue>>

ClickNext ==
    \/ clickPc = "idle" /\ \E g \in {"selenium", "playwright"}, m \in Modes, e \in Elements, f \in Fallbacks, o \in Orders :
          StartClick(g, m, e, f, o)
    \/ Attempt \/ RestoreTarget \/ NoMoreAttempts \/ CheckNewTab \/ Wait \/ Compare \/ NormalClick \/ PageReacts

ClickSpec == ClickInit /\ [][ClickNext]_clickVars

(* A click gives the caller at most one new tab, and the fallback never    *)
(* clicks an element that has already opened one: another tab can only     *)
(* come from an answer that arrived after the code had looked for it, or   *)
(* after an attempt that raised when it had already touched the page.      *)
OneTabPerClick ==
    /\ newTabs > 1 => late \cap {"check", "raised"} # {}
    /\ fellBack /\ newTabs > 0 => "wait" \in late
=============================================================================
