---------------------------- MODULE KnowledgeConsole ----------------------------
(***************************************************************************)
(* The /kb-... commands: consoles (cli/client.py) ask over the control     *)
(* queue, the service's handlers (communication/message_handlers.py)       *)
(* answer over the one client control queue that all consoles read.  The   *)
(* answers carry no request number: a console takes the next one of the    *)
(* type it waits for and drops the others.                                 *)
(*                                                                         *)
(* The knowledge base itself is external: a piece is absent, active,       *)
(* inactive (deleted softly) or gone, and its space suggestion is none,    *)
(* pending, approved or rejected.                                          *)
(***************************************************************************)
EXTENDS Integers, Sequences, SequencesExt, FiniteSets

CONSTANTS
    Consoles, Pieces, InitialPieces,
    Matching,       \* the pieces that match the one query in use, best first
    Numbers,        \* numbers a user types to choose from a list
    MaxRequests     \* bound: requests in one behaviour

ASSUME KbAssumption == Matching \in Seq(Pieces) /\ Numbers \subseteq Int

VARIABLES
    control,    \* requests to the service
    replies,    \* the client control queue
    store,      \* the knowledge base
    console,    \* what each console waits for or shows
    asked,      \* requests sent so far
    listed,     \* history: pieces on a list that a user answered
    named,      \* history: pieces users have asked to delete, by number or by id
    removed     \* history: pieces that have been deleted
kbVars == <<control, replies, store, console, asked, listed, named, removed>>

AtPrompt == [pc |-> "prompt", waits |-> "none", list |-> <<>>]

KbInit ==
    /\ control = <<>> /\ replies = <<>> /\ asked = 0 /\ listed = {} /\ named = {} /\ removed = {}
    /\ store = [p \in Pieces |-> IF p \in InitialPieces THEN [state |-> "active", space |-> "none"]
                                 ELSE [state |-> "absent", space |-> "none"]]
    /\ console = [c \in Consoles |-> AtPrompt]

-----------------------------------------------------------------------------
(* Consoles *)

Request(type, how, pieces) == [type |-> type, how |-> how, pieces |-> pieces]

SendControl(c, msg) ==
    /\ asked < MaxRequests /\ asked' = asked + 1 /\ control' = Append(control, msg)
    /\ console' = [console EXCEPT ![c] = [AtPrompt EXCEPT !.pc = "waiting", !.waits = msg.type]]
    /\ UNCHANGED <<replies, store, removed>>

Asks(c, type, how, pieces) == console[c].pc = "prompt" /\ SendControl(c, Request(type, how, pieces)) /\ UNCHANGED <<listed, named>>

(* /kb-del --id, with or without --hard; /kb-del with a query.             *)
KbDelDirect(c, p, hard) ==
    /\ console[c].pc = "prompt" /\ SendControl(c, Request("kb_del", IF hard THEN "hard" ELSE "soft", {p}))
    /\ named' = named \cup {p} /\ UNCHANGED listed
KbDelSearch(c) == Asks(c, "kb_del", "search", {})

(* candidates[i - 1] for a number i that was typed: Python counts negative *)
(* indices from the end.                                                   *)
InList(list, i) == i - 1 \in -Len(list) .. Len(list) - 1
Chosen(list, i) == IF i > 0 THEN list[i] ELSE list[Len(list) + i]

ChoosesPieces(c, numbers) ==
    LET list == console[c].list
    IN /\ console[c].pc = "choosing" /\ \A i \in numbers : InList(list, i)
       /\ SendControl(c, Request("kb_del", "confirm", {Chosen(list, i) : i \in numbers}))
       /\ listed' = listed \cup ToSet(list)
       /\ named' = named \cup {list[i] : i \in numbers \cap DOMAIN list}

(* "cancel", the end of the input or something that is no choice.          *)
CancelsChoice(c) ==
    /\ console[c].pc = "choosing" /\ console' = [console EXCEPT ![c] = AtPrompt]
    /\ UNCHANGED <<control, replies, store, asked, listed, named, removed>>

KbRestore(c, p) == Asks(c, "kb_restore", "one", {p})
KbReviewSpaces(c, how, p) == Asks(c, "kb_review_spaces", how, {p})
RegisterKnowledge(c) == Asks(c, "register_knowledge", "text", {})
KbAdd(c) == Asks(c, "kb_add", "text", {})
KbUpdate(c) == Asks(c, "kb_update", "text", {})
KbGet(c) == Asks(c, "kb_get", "query", {})
KbList(c) == Asks(c, "kb_list", "all", {})

(* _wait_for_control_response, and what kb_del does with a list.           *)
WaitForControlResponse(c) ==
    /\ console[c].pc = "waiting" /\ replies # <<>> /\ replies' = Tail(replies)
    /\ console' = IF Head(replies).type # console[c].waits THEN console
                  ELSE [console EXCEPT ![c] = IF Head(replies).list # <<>> THEN [AtPrompt EXCEPT !.pc = "choosing", !.list = Head(replies).list]
                                              ELSE AtPrompt]
    /\ UNCHANGED <<control, store, asked, listed, named, removed>>

(* The timeout; the answer may come later.                                 *)
GivesUp(c) ==
    /\ console[c].pc = "waiting" /\ console' = [console EXCEPT ![c] = AtPrompt]
    /\ UNCHANGED <<control, replies, store, asked, listed, named, removed>>

-----------------------------------------------------------------------------
(* Handlers of the service *)

Answered(type, list) == replies' = Append(replies, [type |-> type, list |-> list])
Active(p) == store[p].state = "active"

(* Those of Matching that are active, in its order.                        *)
Candidates ==
    LET found == {i \in DOMAIN Matching : Active(Matching[i])}
        Rank(i) == Cardinality({j \in found : j <= i})
    IN [n \in 1 .. Cardinality(found) |-> Matching[CHOOSE i \in found : Rank(i) = n]]

(* dispatch answers for a handler that raised.                             *)
Raises(msg) == Answered(msg.type, <<>>) /\ UNCHANGED <<store, removed>>

(* Mutant of DeletedBy: the query is searched again.                       *)
SearchedAgain(msg) == IF msg.how = "confirm" THEN ToSet(Candidates) ELSE {p \in msg.pieces : Active(p)}

DeletedBy(msg) == {p \in msg.pieces : Active(p) \/ (msg.how = "hard" /\ store[p].state = "inactive")}

(* Each piece by itself; some may fail, or an exception end the rest.      *)
HandleKbDel(msg) ==
    IF msg.how = "search" THEN Answered("kb_del", Candidates) /\ UNCHANGED <<store, removed>>
    ELSE /\ Answered("kb_del", <<>>)
         /\ \E deleted \in SUBSET DeletedBy(msg) :
               /\ store' = [p \in Pieces |-> IF p \in deleted THEN [store[p] EXCEPT !.state = IF msg.how = "hard" THEN "gone" ELSE "inactive"]
                                             ELSE store[p]]
               /\ removed' = removed \cup deleted

HandleKbRestore(msg) ==
    /\ Answered("kb_restore", <<>>) /\ UNCHANGED removed
    /\ store' = [p \in Pieces |-> IF p \in msg.pieces /\ store[p].state = "inactive" THEN [store[p] EXCEPT !.state = "active"] ELSE store[p]]

(* A verdict is taken on any piece that is found, suggested or not.        *)
HandleKbReviewSpaces(msg) ==
    /\ Answered("kb_review_spaces", <<>>) /\ UNCHANGED removed
    /\ store' = [p \in Pieces |-> IF p \in msg.pieces /\ msg.how # "list" /\ store[p].state \in {"active", "inactive"}
                                  THEN [store[p] EXCEPT !.space = msg.how] ELSE store[p]]

(* The ingester makes at most one new piece here.                          *)
Ingests(msg) ==
    /\ Answered(msg.type, <<>>) /\ UNCHANGED removed
    /\ \/ UNCHANGED store
       \/ \E p \in Pieces : store[p].state = "absent" /\ store' = [store EXCEPT ![p] = [state |-> "active", space |-> "pending"]]
HandleRegisterKnowledge(msg) == Ingests(msg)
HandleKbAdd(msg) == Ingests(msg)

(* The updater changes what pieces say; reading changes nothing.           *)
HandleKbUpdate(msg) == Answered("kb_update", <<>>) /\ UNCHANGED <<store, removed>>
HandleKbGet(msg) == Answered("kb_get", <<>>) /\ UNCHANGED <<store, removed>>
HandleKbList(msg) == Answered("kb_list", <<>>) /\ UNCHANGED <<store, removed>>

Handle(msg) ==
    \/ msg.type = "kb_del" /\ HandleKbDel(msg)
    \/ msg.type = "kb_restore" /\ HandleKbRestore(msg)
    \/ msg.type = "kb_review_spaces" /\ HandleKbReviewSpaces(msg)
    \/ msg.type = "register_knowledge" /\ HandleRegisterKnowledge(msg)
    \/ msg.type = "kb_add" /\ HandleKbAdd(msg)
    \/ msg.type = "kb_update" /\ HandleKbUpdate(msg)
    \/ msg.type = "kb_get" /\ HandleKbGet(msg)
    \/ msg.type = "kb_list" /\ HandleKbList(msg)
    \/ Raises(msg)

DispatchKb ==
    /\ control # <<>> /\ control' = Tail(control) /\ Handle(Head(control))
    /\ UNCHANGED <<console, asked, listed, named>>

KbNext ==
    \/ DispatchKb
    \/ \E c \in Consoles :
          \/ KbDelSearch(c) \/ RegisterKnowledge(c) \/ KbAdd(c) \/ KbUpdate(c) \/ KbGet(c) \/ KbList(c)
          \/ CancelsChoice(c) \/ WaitForControlResponse(c) \/ GivesUp(c)
          \/ \E p \in Pieces :
                \/ \E hard \in BOOLEAN : KbDelDirect(c, p, hard)
                \/ KbRestore(c, p) \/ \E how \in {"list", "approved", "rejected"} : KbReviewSpaces(c, how, p)
          \/ \E numbers \in (SUBSET Numbers) \ {{}} : ChoosesPieces(c, numbers)

KbSpec == KbInit /\ [][KbNext]_kbVars

-----------------------------------------------------------------------------
(* Nothing is deleted that was not on a list a user answered or named by   *)
(* its id, whatever is added, restored or deleted by others between the    *)
(* list and the confirmation and whichever answer a console has taken.     *)
DeletesOnlyShown == removed \subseteq listed \cup named
=============================================================================
