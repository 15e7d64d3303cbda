------------------------------ MODULE TurnConsole ------------------------------
(***************************************************************************)
(* Turns of agents, as the consoles (cli/client.py) see them: a console    *)
(* sends a request to its session's input queue and polls the response     *)
(* queue, which the consoles of all sessions share, for the session's      *)
(* responses, until the turn is completed.  A question of the agent        *)
(* (PendingInput) names the kind of answer it takes.  Runs of an           *)
(* evaluation or a pipeline (the adapters in agents/) start a turn without *)
(* a console and poll for its end themselves.                              *)
(*                                                                         *)
(* The agent is external: it takes an input, says something or asks any    *)
(* number of questions, and completes the turn.                            *)
(***************************************************************************)
EXTENDS Naturals, Sequences, SequencesExt, FiniteSets

CONSTANTS
    Users,          \* the sessions
    RegularRuns,    \* those run by RegularAgentAdapter, on the shared queue
    MetaRuns,       \* those run by MetaAgentAdapter, with a response queue of their own
    Questions,      \* kinds of answers: records [mode, options, custom]
    MaxResponses,   \* bound: responses in one behaviour
    MaxInputs       \* bound: inputs in a queue at once

ASSUME TurnAssumption ==
    /\ RegularRuns \subseteq Users /\ MetaRuns \subseteq Users
    /\ Questions \subseteq [mode : {"free", "press", "exact", "single", "multiple"}, options : Nat, custom : BOOLEAN]

VARIABLES
    responses,  \* RESPONSE_QUEUE_ID
    inputs,     \* the input queue of each session
    own,        \* the response queues of MetaRuns
    user,       \* what each console or adapter is doing
    worker,     \* the agent of each session: "idle", "working" or the question it asks
    produced,   \* how many responses there have been
    seen,       \* history: the responses each console or adapter has taken as its own
    dropped,    \* history: responses that an adapter took and left, or an interrupted console
    brokenOff   \* history: sessions whose user has stopped waiting for a turn
turnVars == <<responses, own, inputs, user, worker, produced, seen, dropped, brokenOff>>

Idle == [mode |-> "idle", options |-> 0, custom |-> FALSE]
Working == [Idle EXCEPT !.mode = "working"]
NobodysResponse == [id |-> 0, session |-> "none", named |-> FALSE, flag |-> "none", question |-> Idle]
Runs == RegularRuns \cup MetaRuns
AtLine == [pc |-> "line", held |-> NobodysResponse, question |-> Idle]

TurnInit ==
    /\ responses = <<>> /\ inputs = [u \in Users |-> <<>>] /\ produced = 0
    /\ user = [u \in Users |-> AtLine] /\ worker = [u \in Users |-> Idle]
    /\ seen = [u \in Users |-> {}] /\ brokenOff = {} /\ dropped = {} /\ own = [u \in MetaRuns |-> <<>>]

-----------------------------------------------------------------------------
(* What a user types, and which of it answers a question.  "number" is the *)
(* number of an option, or one more for an answer of one's own.            *)

Typed(question) ==
    [kind : {"number"}, numbers : {{n} : n \in 0 .. question.options + 2} \cup {{1, question.options + 1}, {1, question.options}}]
        \cup [kind : {"word", "expected", "end", "command"}, numbers : {{}}]

Answer(kind, choices) == [kind |-> kind, choices |-> choices]
AsksAgain == Answer("again", {})

CollectExactString(typed) == IF typed.kind = "expected" THEN Answer("text", {}) ELSE AsksAgain

(* The end of the input counts as "1".                                     *)
NumbersOf(typed) == IF typed.kind = "end" THEN {1} ELSE typed.numbers

(* Mutant of CollectSingleChoice: one option too many.                     *)
OneOptionMore(question, typed) ==
    LET chosen == NumbersOf(typed) \cap (1 .. question.options + 1)
    IN IF chosen # {} THEN Answer("choice", chosen) ELSE AsksAgain

(* Not a number of an option: an answer of one's own, where one is allowed.*)
CollectSingleChoice(question, typed) ==
    LET numbers == NumbersOf(typed)
    IN IF numbers # {} /\ \A n \in numbers : Cardinality(numbers) = 1 /\ n \in 1 .. question.options THEN Answer("choice", numbers)
       ELSE IF question.custom /\ typed.kind # "end" THEN Answer("custom", {})
       ELSE AsksAgain

CollectMultipleChoices(question, typed) ==
    LET numbers == NumbersOf(typed)
        allowed == 1 .. (IF question.custom THEN question.options + 1 ELSE question.options)
    IN IF numbers = {} \/ ~(numbers \subseteq allowed) THEN AsksAgain
       ELSE IF question.options + 1 \in numbers THEN Answer("selections with custom", numbers \ {question.options + 1})
       ELSE Answer("selections", numbers)

CollectInput(question, typed) ==
    CASE question.mode = "press" -> Answer("empty", {})
      [] question.mode = "exact" -> CollectExactString(typed)
      [] question.mode = "single" -> CollectSingleChoice(question, typed)
      [] question.mode = "multiple" -> CollectMultipleChoices(question, typed)
      [] OTHER -> IF typed.kind = "command" THEN AsksAgain ELSE Answer(IF typed.kind = "end" THEN "empty" ELSE "text", {})

Fits(question, answer) ==
    CASE question.mode = "press" -> answer.kind = "empty"
      [] question.mode = "exact" -> answer.kind = "text"
      [] question.mode = "single" -> \/ answer.kind = "choice" /\ answer.choices \subseteq 1 .. question.options
                                     \/ question.custom /\ answer.kind = "custom"
      [] question.mode = "multiple" -> /\ answer.kind = "selections" \/ (question.custom /\ answer.kind = "selections with custom")
                                       /\ answer.choices \subseteq 1 .. question.options
      [] OTHER -> answer.kind \in {"text", "empty"}

-----------------------------------------------------------------------------
(* Consoles *)

Does(u, pc) == user' = [user EXCEPT ![u] = [AtLine EXCEPT !.pc = pc]]
PutsInput(u, answer) == Len(inputs[u]) < MaxInputs /\ inputs' = [inputs EXCEPT ![u] = Append(@, answer)]

SendAgentRequest(u) ==
    /\ u \notin Runs /\ user[u].pc = "line" /\ produced < MaxResponses /\ PutsInput(u, Answer("text", {})) /\ Does(u, "polling")
    /\ UNCHANGED <<responses, own, worker, produced, seen, dropped, brokenOff>>

(* A response that names no session passes for the reader's own.           *)
PassesFor(u, r) == r.named => r.session = u

(* _poll_responses takes whatever comes first.  A console that takes the   *)
(* end of another's turn, or a question, for its own stops waiting.        *)
TakeResponse(u) ==
    /\ u \notin Runs /\ user[u].pc = "polling" /\ responses # <<>> /\ responses' = Tail(responses)
    /\ LET r == Head(responses)
       IN IF ~PassesFor(u, r)
          THEN user' = [user EXCEPT ![u] = [AtLine EXCEPT !.pc = "holding", !.held = r]] /\ UNCHANGED <<seen, brokenOff>>
          ELSE /\ seen' = [seen EXCEPT ![u] = @ \cup {r.id}]
               /\ brokenOff' = IF r.session # u /\ r.flag # "none" THEN brokenOff \cup {u} ELSE brokenOff
               /\ user' = [user EXCEPT ![u] = [AtLine EXCEPT !.pc = CASE r.flag = "TurnCompleted" -> "line"
                                                                      [] r.flag = "PendingInput" -> "collecting"
                                                                      [] OTHER -> "polling",
                                                       !.question = IF r.flag = "PendingInput" THEN r.question ELSE Idle]]
    /\ UNCHANGED <<own, inputs, worker, produced, dropped>>

(* Mutant of PutBack: another session's response is passed over.           *)
PassOver(u) ==
    /\ user[u].pc = "holding" /\ responses' = responses /\ Does(u, "polling")
    /\ UNCHANGED <<own, inputs, worker, produced, seen, dropped, brokenOff>>

(* Another session's response goes to the end of the queue.                *)
PutBack(u) ==
    /\ user[u].pc = "holding" /\ responses' = Append(responses, user[u].held) /\ Does(u, "polling")
    /\ UNCHANGED <<own, inputs, worker, produced, seen, dropped, brokenOff>>

(* A command that the console knows is carried out, and asked again.       *)
HandlePendingInput(u, typed) ==
    /\ user[u].pc = "collecting"
    /\ LET answer == CollectInput(user[u].question, typed)
       IN answer # AsksAgain /\ PutsInput(u, answer) /\ Does(u, "polling")
    /\ UNCHANGED <<responses, own, worker, produced, seen, dropped, brokenOff>>

(* Ctrl-C, in the poll or at a question: what the console holds is lost.   *)
(* Bound: at most once in a console, while it is in its turn.              *)
Interrupt(u) ==
    /\ u \notin brokenOff \cup Runs /\ user[u].pc \in {"polling", "holding", "collecting"} /\ Does(u, "line") /\ brokenOff' = brokenOff \cup {u}
    /\ dropped' = IF user[u].pc = "holding" THEN dropped \cup {user[u].held.id} ELSE dropped
    /\ UNCHANGED <<responses, own, inputs, worker, produced, seen>>

-----------------------------------------------------------------------------
(* Runs *)

(* run: a session is made for it, with its agent in a thread of its own.   *)
RegularRun(u) ==
    /\ u \in RegularRuns /\ user[u].pc = "line" /\ PutsInput(u, Answer("text", {})) /\ Does(u, "polling")
    /\ UNCHANGED <<responses, own, worker, produced, seen, dropped, brokenOff>>
MetaRun(u) ==
    /\ u \in MetaRuns /\ user[u].pc = "line" /\ PutsInput(u, Answer("text", {})) /\ Does(u, "polling")
    /\ UNCHANGED <<responses, own, worker, produced, seen, dropped, brokenOff>>

TakesAsOwn(u, r) ==
    /\ seen' = [seen EXCEPT ![u] = @ \cup {r.id}] /\ dropped' = dropped
    /\ IF r.flag = "none" THEN UNCHANGED user ELSE Does(u, "ending")

(* _consume_agent_responses; a question ends the run like an answer does.  *)
RegularConsumes(u) ==
    /\ u \in RegularRuns /\ user[u].pc = "polling" /\ responses # <<>> /\ responses' = Tail(responses)
    /\ IF PassesFor(u, Head(responses)) THEN TakesAsOwn(u, Head(responses))
       ELSE dropped' = dropped \cup {Head(responses).id} /\ UNCHANGED <<user, seen>>
    /\ UNCHANGED <<own, inputs, worker, produced, brokenOff>>
MetaConsumes(u) ==
    /\ u \in MetaRuns /\ user[u].pc = "polling" /\ own[u] # <<>> /\ own' = [own EXCEPT ![u] = Tail(@)]
    /\ TakesAsOwn(u, Head(own[u])) /\ UNCHANGED <<responses, inputs, worker, produced, brokenOff>>

RunTimesOut(u) ==
    /\ u \in Runs /\ user[u].pc = "polling" /\ Does(u, "ending")
    /\ UNCHANGED <<responses, own, inputs, worker, produced, seen, dropped, brokenOff>>

(* An empty input lets an agent go that waits for one.                     *)
RunEnds(u) ==
    /\ u \in Runs /\ user[u].pc = "ending" /\ PutsInput(u, Answer("empty", {})) /\ Does(u, "done")
    /\ UNCHANGED <<responses, own, worker, produced, seen, dropped, brokenOff>>

-----------------------------------------------------------------------------
(* Agents *)

(* A response carries the session's name or, as nobody tells the agent's   *)
(* side of the queues which session it is of, does not.                    *)
Responds(u, flag, question) ==
    \E named \in IF u \in MetaRuns THEN {FALSE} ELSE BOOLEAN :
        LET r == [id |-> produced + 1, session |-> u, named |-> named, flag |-> flag, question |-> question]
        IN /\ produced < MaxResponses /\ produced' = produced + 1
           /\ IF u \in MetaRuns THEN own' = [own EXCEPT ![u] = Append(@, r)] /\ UNCHANGED responses
              ELSE responses' = Append(responses, r) /\ UNCHANGED own

AgentTakesInput(u) ==
    /\ worker[u] # Working /\ inputs[u] # <<>>
    /\ inputs' = [inputs EXCEPT ![u] = Tail(@)] /\ worker' = [worker EXCEPT ![u] = Working]
    /\ UNCHANGED <<responses, own, user, produced, seen, dropped, brokenOff>>

AgentResponds(u) ==
    /\ worker[u] = Working
    /\ \/ Responds(u, "none", Idle) /\ UNCHANGED worker
       \/ Responds(u, "TurnCompleted", Idle) /\ worker' = [worker EXCEPT ![u] = Idle]
       \/ \E q \in Questions : Responds(u, "PendingInput", q) /\ worker' = [worker EXCEPT ![u] = q]
    /\ UNCHANGED <<inputs, user, seen, dropped, brokenOff>>

TurnNext ==
    \E u \in Users :
        \/ SendAgentRequest(u) \/ TakeResponse(u) \/ PutBack(u) \/ Interrupt(u) \/ AgentTakesInput(u) \/ AgentResponds(u)
        \/ RegularRun(u) \/ MetaRun(u) \/ RegularConsumes(u) \/ MetaConsumes(u) \/ RunTimesOut(u) \/ RunEnds(u)
        \/ user[u].pc = "collecting" /\ \E typed \in Typed(user[u].question) : HandlePendingInput(u, typed)

TurnSpec == TurnInit /\ [][TurnNext]_turnVars

-----------------------------------------------------------------------------
(* However the consoles pass the responses of others on, none is taken     *)
(* twice, and none is lost but in the two ways that lose one: by an adapter*)
(* of the shared queue, which drops what others should have, and by Ctrl-C *)
(* in a console while it holds one.                                        *)
Waiting ==
    ToSet(responses) \cup (UNION {ToSet(own[u]) : u \in MetaRuns}) \cup {user[u].held : u \in {v \in Users : user[v].pc = "holding"}}
ResponsesReachTheirUser ==
    \A n \in 1 .. produced :
        Cardinality({r \in Waiting : r.id = n}) + Cardinality({u \in Users : n \in seen[u]}) + Cardinality({n} \cap dropped) = 1

(* What an agent takes as the answer to its question is an answer to that  *)
(* question, of a kind it allows, unless the user has broken off the wait, *)
(* by Ctrl-C or at a response of another session that names none: then the *)
(* next request is taken for the answer.                                   *)
AnswersItsQuestion ==
    \A u \in Users \ Runs :
        u \notin brokenOff /\ worker[u] \notin {Idle, Working} /\ inputs[u] # <<>> => Fits(worker[u], Head(inputs[u]))
=============================================================================
