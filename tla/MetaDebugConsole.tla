--------------------------- MODULE MetaDebugConsole ---------------------------
(***************************************************************************)
(* The consoles' /meta-debug and /meta commands (cli/client.py) and the    *)
(* service that carries them out.  All consoles put their commands on      *)
(* server_control and poll client_control, where all pipelines put their   *)
(* reports; what a poll does not know it puts back at the end.  Nothing    *)
(* says which console a message is for.                                    *)
(*                                                                         *)
(* The pipelines are those of PipelineGate, which StageGate implements.    *)
(* Progress messages, which every poll takes and prints, are left out.     *)
(***************************************************************************)
EXTENDS Naturals, Sequences, FiniteSets

CONSTANTS
    MetaConsoles, Debugs,   \* the debug pipelines
    Plains,                 \* the pipelines of /meta, which have no gates
    DebugStages,            \* the last stage (4 in the code)
    MaxDebugs,              \* the limit on debug sessions (5 in the code)
    MaxCommands             \* bound: the commands typed

ASSUME MetaAssumption ==
    /\ DebugStages \in Nat
    /\ Debugs \cap Plains = {} /\ "none" \notin Debugs \cup Plains

VARIABLES
    phase, reached, granted,    \* the pipelines, as in PipelineGate
    produces,   \* what each pipeline's thread does next: it puts a report or the final response, or retires
    registry,   \* _debug_sessions
    commands,   \* server_control
    handler,    \* the pipeline whose resume() the service is about to call, after its check
    client,     \* client_control
    at,         \* each console's command line or poll, and the message it is about to put back
    latest,     \* the last stage shown of each pipeline, 0 if none
    issued,     \* the number of commands typed
    typed,      \* history: the advances typed
    careless,   \* history: pipelines somebody typed another advance for than, once, the one after the stage shown
    refused,    \* history: pipelines an advance of which was refused as out of order
    displayed,  \* history: the reports and final responses that some console has shown
    lost        \* history: those that no console will show: passed over, or in its hands at Ctrl-C
metaVars == <<phase, reached, granted, produces, registry, commands, handler, client, at, latest, issued, typed, careless, refused, displayed, lost>>

Gate == INSTANCE PipelineGate WITH Runs <- Debugs, LastStage <- DebugStages

Pipelines == Debugs \cup Plains
Nobody == "none"
Message(type, r, k) == [type |-> type, run |-> r, stage |-> k]
Empty == Message("none", Nobody, 0)
Says(type, r, k) == client' = Append(client, Message(type, r, k))

MetaInit ==
    /\ phase = [r \in Pipelines |-> "unborn"] /\ reached = [r \in Pipelines |-> 0] /\ granted = [r \in Pipelines |-> {}]
    /\ produces = [r \in Pipelines |-> "nothing"] /\ registry = {} /\ commands = <<>> /\ handler = Nobody /\ client = <<>>
    /\ at = [c \in MetaConsoles |-> [poll |-> "line", held |-> Empty]] /\ latest = [r \in Pipelines |-> 0]
    /\ issued = 0 /\ typed = {} /\ careless = {} /\ refused = {} /\ displayed = {} /\ lost = {}

-----------------------------------------------------------------------------
(* Consoles *)

service == <<phase, reached, granted, produces, registry, handler, refused>>
Turns(c, poll, message) == at' = [at EXCEPT ![c] = [poll |-> poll, held |-> message]]

Issues(c, type, r, k, poll) ==
    /\ at[c].poll = "line" /\ issued < MaxCommands /\ issued' = issued + 1
    /\ commands' = Append(commands, Message(type, r, k)) /\ typed' = IF k = 0 THEN typed ELSE typed \cup {<<r, k>>}
    /\ Turns(c, poll, Empty) /\ UNCHANGED <<service, client, latest, displayed, lost>>

(* The session id comes with the report, on whichever console it is shown. *)
RunDebugCollect(c) == Issues(c, "collect", Nobody, 0, "stage") /\ UNCHANGED careless
RunDebugAdvance(c, r, k) ==
    /\ Issues(c, "advance", r, k, "stage")
    /\ careless' = IF latest[r] = k - 1 /\ <<r, k>> \notin typed THEN careless ELSE careless \cup {r}
RunDebugStatus(c, r) == Issues(c, "status", r, 0, "status") /\ UNCHANGED careless
RunDebugAbort(c, r) == Issues(c, "abort", r, 0, "line") /\ UNCHANGED careless
RunMetaAgent(c) == Issues(c, "meta", Nobody, 0, "started") /\ UNCHANGED careless

Polls(c, poll) ==
    /\ at[c].poll = poll /\ at[c].held = Empty /\ client # <<>> /\ client' = Tail(client)
    /\ UNCHANGED <<service, commands, issued, typed, careless>>
With(S, m) == IF m.type \in {"report", "final"} THEN S \cup {m} ELSE S
Prints(c, m, poll) == Turns(c, poll, Empty) /\ displayed' = With(displayed, m) /\ UNCHANGED lost
Loses(c, m, poll) == Turns(c, poll, Empty) /\ lost' = With(lost, m) /\ UNCHANGED displayed
HoldsBack(c, m) == Turns(c, at[c].poll, m) /\ UNCHANGED <<displayed, lost>>

(* After VALIDATE it waits for the final response, which it takes to come  *)
(* next.                                                                   *)
PollDebugStageResponses(c) ==
    /\ Polls(c, "stage")
    /\ LET m == Head(client)
       IN /\ latest' = IF m.type = "report" THEN [latest EXCEPT ![m.run] = m.stage] ELSE latest
          /\ CASE m.type = "created" -> Prints(c, m, "stage")
               [] m.type = "report" -> Prints(c, m, IF m.stage = DebugStages THEN "stage" ELSE "line")
               [] m.type \in {"final", "error"} -> Prints(c, m, "line")
               [] OTHER -> HoldsBack(c, m)

PollStatus(c) ==
    /\ Polls(c, "status") /\ UNCHANGED latest
    /\ LET m == Head(client)
       IN IF m.type \in {"status", "error"} THEN Prints(c, m, "line") ELSE HoldsBack(c, m)

(* The wait for "started" passes over everything else and puts none back.  *)
WaitStarted(c) ==
    /\ Polls(c, "started") /\ UNCHANGED latest
    /\ IF Head(client).type = "started" THEN Prints(c, Head(client), "meta") ELSE Loses(c, Head(client), "started")

PollMetaAgentResponses(c) ==
    /\ Polls(c, "meta") /\ UNCHANGED latest
    /\ LET m == Head(client) IN IF m.type = "final" THEN Prints(c, m, "line") ELSE HoldsBack(c, m)

PutsMessageBack(c) ==
    /\ at[c].held # Empty /\ client' = Append(client, at[c].held) /\ Turns(c, at[c].poll, Empty)
    /\ UNCHANGED <<service, commands, latest, issued, typed, careless, displayed, lost>>

(* The deadline of the poll, or Ctrl-C while it sleeps.                    *)
StopsWaiting(c) ==
    /\ at[c].poll # "line" /\ at[c].held = Empty /\ Turns(c, "line", Empty)
    /\ UNCHANGED <<service, commands, client, latest, issued, typed, careless, displayed, lost>>

(* Ctrl-C after a get: what was taken, or is about to go back, is lost.    *)
Breaks(c) ==
    /\ at[c].poll # "line" /\ UNCHANGED <<service, commands, latest, issued, typed, careless>>
    /\ \/ at[c].held # Empty /\ Loses(c, at[c].held, "line") /\ UNCHANGED client
       \/ at[c].held = Empty /\ client # <<>> /\ client' = Tail(client) /\ Loses(c, Head(client), "line")

Console(c) ==
    \/ RunDebugCollect(c) \/ RunDebugStatus(c, Nobody) \/ RunMetaAgent(c)
    \/ \E r \in {d \in Debugs : phase[d] # "unborn"} :
          \/ RunDebugAbort(c, r) \/ RunDebugStatus(c, r)
          \/ \E k \in 2 .. DebugStages : RunDebugAdvance(c, r, k)
    \/ PollDebugStageResponses(c) \/ PollStatus(c) \/ WaitStarted(c) \/ PollMetaAgentResponses(c)
    \/ PutsMessageBack(c) \/ StopsWaiting(c) \/ Breaks(c)

-----------------------------------------------------------------------------
(* The service *)

consoles == <<at, latest, issued, typed, careless, displayed, lost>>
Acks(type) == Says(type, Nobody, 0) /\ UNCHANGED <<phase, reached, granted, registry, handler>>
Gets(type) ==
    /\ handler = Nobody /\ commands # <<>> /\ Head(commands).type = type /\ commands' = Tail(commands)
    /\ UNCHANGED <<produces, consoles>>

HandleDebugCollect ==
    /\ Gets("collect") /\ UNCHANGED refused
    /\ IF Cardinality(registry) >= MaxDebugs THEN Acks("error")
       ELSE \E r \in Debugs : Gate!Start(r) /\ registry' = registry \cup {r} /\ Says("created", r, 0) /\ UNCHANGED handler

(* next_expected_command *)
Expects(r, k) == reached[r] \in 1 .. DebugStages - 1 /\ k = reached[r] + 1

HandleDebugAdvance ==
    /\ Gets("advance")
    /\ LET r == Head(commands).run
           k == Head(commands).stage
       IN IF r \in registry /\ Expects(r, k)
          THEN handler' = r /\ UNCHANGED <<phase, reached, granted, registry, client, refused>>
          ELSE Acks("error") /\ refused' = IF r \in registry THEN refused \cup {r} ELSE refused

(* resume() is for the stage reached by then; it fails when the pipeline   *)
(* is done, which it is before it leaves the registry.                     *)
Resumes ==
    /\ handler # Nobody /\ handler' = Nobody
    /\ \/ handler \in registry /\ Gate!Grant(handler) /\ UNCHANGED client
       \/ phase[handler] = "over" /\ Says("error", Nobody, 0) /\ UNCHANGED <<phase, reached, granted>>
    /\ UNCHANGED <<produces, registry, commands, refused, consoles>>

(* What an abort does is one of the ends of PipelineGate.                  *)
HandleDebugAbort ==
    /\ Gets("abort") /\ UNCHANGED refused
    /\ IF Head(commands).run \in registry THEN UNCHANGED <<phase, reached, granted, registry, handler, client>>
       ELSE Acks("error")

HandleDebugStatus ==
    /\ Gets("status") /\ UNCHANGED refused
    /\ Acks(IF Head(commands).run \in registry \cup {Nobody} THEN "status" ELSE "error")

HandleRunMetaAgent ==
    /\ Gets("meta") /\ Says("started", Nobody, 0)
    /\ \E p \in Plains : phase[p] = "unborn" /\ phase' = [phase EXCEPT ![p] = "working"]
    /\ UNCHANGED <<reached, granted, registry, handler, refused>>

-----------------------------------------------------------------------------
(* Pipeline threads *)

Thinks(r) == produces[r] = "nothing" /\ UNCHANGED <<registry, commands, handler, client, refused, consoles>>
Produces(r, what) == produces' = [produces EXCEPT ![r] = what]

(* Mutant of PassesGate: nobody waits for a command.                      *)
PassesAnyway(r) ==
    /\ Thinks(r) /\ phase[r] = "gated" /\ reached[r] < DebugStages /\ phase' = [phase EXCEPT ![r] = "working"]
    /\ UNCHANGED <<reached, granted, produces>>

ReachesStage(r) == Thinks(r) /\ Gate!Reach(r) /\ Produces(r, "report")
PassesGate(r) == Thinks(r) /\ Gate!Pass(r) /\ UNCHANGED produces
EndsPipeline(r) == Thinks(r) /\ Gate!End(r) /\ Produces(r, "final")
EndsPlain(p) ==
    /\ Thinks(p) /\ phase[p] = "working" /\ phase' = [phase EXCEPT ![p] = "over"] /\ Produces(p, "final")
    /\ UNCHANGED <<reached, granted>>

(* _send_state_message, the final response, and the end of the session.    *)
SendsStateMessage(r) == produces[r] = "report" /\ Says("report", r, reached[r]) /\ Produces(r, "nothing") /\ UNCHANGED registry
SendsResponse(r) == produces[r] = "final" /\ Says("final", r, 0) /\ Produces(r, "retire") /\ UNCHANGED registry
Retires(r) == produces[r] = "retire" /\ registry' = registry \ {r} /\ Produces(r, "gone") /\ UNCHANGED client

Thread(r) ==
    \/ r \in Debugs /\ (ReachesStage(r) \/ PassesGate(r) \/ EndsPipeline(r))
    \/ r \in Plains /\ EndsPlain(r)
    \/ /\ SendsStateMessage(r) \/ SendsResponse(r) \/ Retires(r)
       /\ UNCHANGED <<phase, reached, granted, commands, handler, refused, consoles>>

MetaNext ==
    \/ \E c \in MetaConsoles : Console(c)
    \/ HandleDebugCollect \/ HandleDebugAdvance \/ Resumes \/ HandleDebugAbort \/ HandleDebugStatus \/ HandleRunMetaAgent
    \/ \E r \in Pipelines : Thread(r)

MetaSpec == MetaInit /\ [][MetaNext]_metaVars

-----------------------------------------------------------------------------
(* Where a report or a response is, once it has been put.                  *)
Queued(m) == \E i \in DOMAIN client : client[i] = m
Held(m) == \E c \in MetaConsoles : at[c].held = m
NotDoubled(m) ==
    /\ \A i, j \in DOMAIN client : client[i] = m /\ client[j] = m => i = j
    /\ \A c, d \in MetaConsoles : at[c].held = m /\ at[d].held = m => c = d
    /\ ~(Queued(m) /\ Held(m)) /\ ~(m \in displayed \cup lost /\ (Queued(m) \/ Held(m))) /\ m \notin displayed \cap lost
Once(m) == (Queued(m) \/ Held(m) \/ m \in displayed \cup lost) /\ NotDoubled(m)

(* Whoever polls what, in whatever order messages are put back: a command  *)
(* that is sent once, for the stage after the one that some console has    *)
(* shown of a pipeline, is not refused as out of order; and no report and  *)
(* no final response is shown twice, or lost but in the two ways that lose *)
(* one: a console that waits for an acknowledgement passes over whatever   *)
(* else it gets, and Ctrl-C loses what the console has in hand.            *)
CommandsMatchReports ==
    /\ refused \subseteq careless
    /\ \A r \in Pipelines :
          /\ \A k \in 1 .. reached[r] : Once(Message("report", r, k)) \/ (k = reached[r] /\ produces[r] = "report")
          /\ produces[r] \in {"retire", "gone"} => Once(Message("final", r, 0))
=============================================================================
