----------------------------- MODULE GatewayNode -----------------------------
(***************************************************************************)
(* The sidecar's connection to the Gateway: connect with its handshake,    *)
(* the receive loop that handles one node.invoke.request at a time, the    *)
(* reconnection that the receive loop starts, and disconnect.              *)
(*                                                                         *)
(* All of it runs on one event loop, so an action is the code between two  *)
(* awaits.  A connector is a task that executes connect(): the start-up    *)
(* task, which tries once, or a _reconnect() task.  Every socket gets a    *)
(* number; the Gateway may close it, with or without a proper close frame, *)
(* at any time.  What an invocation does to the browser is BrowserTools.   *)
(***************************************************************************)
EXTENDS Naturals, Sequences

CONSTANTS Invokes,      \* node.invoke.request messages of the Gateway
          Connectors,   \* connector tasks
          None,
          MaxSockets,   \* bound on the sockets opened
          MaxAttempts   \* config.max_reconnect_attempts

ASSUME NodeAssumption ==
    /\ None \notin Invokes \cup Connectors
    /\ MaxSockets \in Nat /\ MaxAttempts \in Nat \ {0}

Sockets == 1..MaxSockets

VARIABLES
    shouldRun,   \* _should_run
    connected,   \* _connected
    ws,          \* _ws, 0 for None
    receiver,    \* _receive_task: the socket it was created for, 0 for None
    phase,       \* where each connector is
    attempt,     \* attempts a _reconnect() has made
    mine,        \* the socket a connector is shaking hands on
    link,        \* the state of each socket
    loop,        \* the receive loop of each socket
    inbox,       \* invocations sent to the node on each socket
    current,     \* the invocation a receive loop handles
    origin,      \* the socket an invocation was sent on, 0 if it was not sent
    results,     \* the sockets on which an invocation's results went out
    stop,        \* where disconnect() is
    left         \* history: a connector was active when disconnect() began

node == <<shouldRun, connected, ws, receiver>>
tasks == <<phase, attempt, mine>>
traffic == <<inbox, current, origin, results>>
ending == <<stop, left>>
vars == <<node, tasks, link, loop, traffic, ending>>

Idle == {"free", "failed", "gave_up", "connected"}
Active(t) == phase[t] \notin Idle
Opened == {n \in Sockets : link[n] # "unused"}

Init ==
    /\ shouldRun = FALSE /\ connected = FALSE /\ ws = 0 /\ receiver = 0
    /\ \E startup \in Connectors :
         phase = [t \in Connectors |-> IF t = startup THEN "startup" ELSE "free"]
    /\ attempt = [t \in Connectors |-> 0]
    /\ mine = [t \in Connectors |-> 0]
    /\ link = [n \in Sockets |-> "unused"]
    /\ loop = [n \in Sockets |-> "none"]
    /\ inbox = [n \in Sockets |-> <<>>]
    /\ current = [n \in Sockets |-> None]
    /\ origin = [i \in Invokes |-> 0]
    /\ results = [i \in Invokes |-> <<>>]
    /\ stop = "running" /\ left = FALSE

Move(t, label) == phase' = [phase EXCEPT ![t] = label]

-----------------------------------------------------------------------------
(* connect(), for the start-up task or a reconnection. *)

\* Sets _should_run and dials.  A reconnection has attempt # 0 here.
StartConnect(t) ==
    /\ phase[t] \in {"startup", "slept"}
    /\ shouldRun' = TRUE
    /\ Move(t, "dialling")
    /\ UNCHANGED <<connected, ws, receiver, attempt, mine, link, loop, traffic, ending>>

\* Mutant of ConnectFailed: a reconnection stops at its first failure.
FirstFailureIsFinal(t) ==
    /\ Move(t, "failed")
    /\ mine' = [mine EXCEPT ![t] = 0]

\* connect() returns FALSE: the start-up task only logs it, a reconnection
\* goes on to its next attempt.
ConnectFailed(t) ==
    /\ Move(t, IF attempt[t] = 0 THEN "failed" ELSE "check")
    /\ mine' = [mine EXCEPT ![t] = 0]

Dial(t) ==
    /\ phase[t] = "dialling"
    /\ \E n \in Sockets \ Opened :
         /\ \A k \in 1..(n - 1) : k \in Opened
         /\ link' = [link EXCEPT ![n] = "open"]
         /\ ws' = n
         /\ mine' = [mine EXCEPT ![t] = n]
    /\ Move(t, "challenge")
    /\ UNCHANGED <<shouldRun, connected, receiver, attempt, loop, traffic, ending>>

DialFails(t) ==
    /\ phase[t] = "dialling"
    /\ connected' = FALSE
    /\ ConnectFailed(t)
    /\ UNCHANGED <<shouldRun, ws, receiver, attempt, link, loop, traffic, ending>>

\* The challenge arrives; the connect request goes out on self._ws.
Challenge(t) ==
    /\ phase[t] = "challenge"
    /\ link[mine[t]] = "open" /\ ws = mine[t]
    /\ Move(t, "response")
    /\ UNCHANGED <<node, attempt, mine, link, loop, traffic, ending>>

\* The handshake ends otherwise: a wrong or missing answer, a rejection, a
\* timeout, a socket that is gone.  Some of the paths close what self._ws holds.
HandshakeFails(t) ==
    /\ phase[t] \in {"challenge", "response"}
    /\ connected' = FALSE
    /\ \/ UNCHANGED link
       \/ ws # 0 /\ link' = [link EXCEPT ![ws] = "closed"]
    /\ ConnectFailed(t)
    /\ UNCHANGED <<shouldRun, ws, receiver, attempt, loop, traffic, ending>>

\* The Gateway accepts: the receive loop is created.
Accepted(t) ==
    /\ phase[t] = "response"
    /\ link[mine[t]] = "open"
    /\ connected' = TRUE
    /\ receiver' = mine[t]
    /\ loop' = [loop EXCEPT ![mine[t]] = "created"]
    /\ Move(t, "connected")
    /\ mine' = [mine EXCEPT ![t] = 0]
    /\ UNCHANGED <<shouldRun, ws, attempt, link, traffic, ending>>

-----------------------------------------------------------------------------
(* _reconnect(). *)

Reconnect(t) ==
    /\ phase[t] = "check"
    /\ Move(t, IF attempt[t] = MaxAttempts THEN "gave_up"
               ELSE IF shouldRun THEN "asleep" ELSE "gave_up")
    /\ attempt' = [attempt EXCEPT ![t] = IF @ < MaxAttempts /\ shouldRun THEN @ + 1 ELSE @]
    /\ UNCHANGED <<node, mine, link, loop, traffic, ending>>

WakeUp(t) ==
    /\ phase[t] = "asleep"
    /\ Move(t, "slept")
    /\ UNCHANGED <<node, attempt, mine, link, loop, traffic, ending>>

-----------------------------------------------------------------------------
(* The receive loop of socket n. *)

\* The loop ended with an exception: _connected is reset and, unless the node
\* is to stop, a reconnection started.
LoopBreaks(n) ==
    /\ loop' = [loop EXCEPT ![n] = "none"]
    /\ connected' = FALSE
    /\ IF shouldRun
       THEN \E t \in Connectors :
              /\ ~Active(t)
              /\ Move(t, "check")
              /\ attempt' = [attempt EXCEPT ![t] = 0]
       ELSE UNCHANGED <<phase, attempt>>

\* "async for" binds self._ws when the task first runs.
LoopStarts(n) ==
    /\ loop[n] = "created"
    /\ IF ws = n
       THEN loop' = [loop EXCEPT ![n] = "waiting"] /\ UNCHANGED <<connected, phase, attempt>>
       ELSE LoopBreaks(n)
    /\ UNCHANGED <<shouldRun, ws, receiver, mine, link, traffic, ending>>

Receive(n) ==
    /\ loop[n] = "waiting" /\ inbox[n] # <<>>
    /\ current' = [current EXCEPT ![n] = Head(inbox[n])]
    /\ inbox' = [inbox EXCEPT ![n] = Tail(@)]
    /\ loop' = [loop EXCEPT ![n] = "handling"]
    /\ UNCHANGED <<node, tasks, link, origin, results, ending>>

\* Mutant of SendResult: a failed send raises, and is answered with an error.
AnswersAgain(n) ==
    /\ loop[n] = "handling"
    /\ LET i == current[n]
       IN  results' = IF connected /\ ws # 0 /\ link[ws] = "open"
                      THEN [results EXCEPT ![i] = @ \o <<ws, ws>>]
                      ELSE results
    /\ current' = [current EXCEPT ![n] = None]
    /\ loop' = [loop EXCEPT ![n] = "waiting"]
    /\ UNCHANGED <<node, tasks, link, inbox, origin, ending>>

\* Mutant of SendResult: a result that cannot be sent starts a reconnection.
ReconnectsOnSend(n) ==
    /\ loop[n] = "handling"
    /\ current' = [current EXCEPT ![n] = None]
    /\ loop' = [loop EXCEPT ![n] = "waiting"]
    /\ IF link[ws] = "open"
       THEN /\ results' = [results EXCEPT ![current[n]] = Append(@, ws)]
            /\ UNCHANGED tasks
       ELSE /\ \E t \in Connectors : ~Active(t) /\ Move(t, "check")
            /\ UNCHANGED <<results, attempt, mine>>
    /\ UNCHANGED <<node, link, inbox, origin, ending>>

\* The browser command is done, well or not; the result goes to self._ws.
SendResult(n) ==
    /\ loop[n] = "handling"
    /\ LET i == current[n]
       IN  results' = IF connected /\ ws # 0 /\ link[ws] = "open"
                      THEN [results EXCEPT ![i] = Append(@, ws)]
                      ELSE results
    /\ current' = [current EXCEPT ![n] = None]
    /\ loop' = [loop EXCEPT ![n] = "waiting"]
    /\ UNCHANGED <<node, tasks, link, inbox, origin, ending>>

\* The Gateway closed the connection with a close frame: "async for" ends.
LoopEnds(n) ==
    /\ loop[n] = "waiting" /\ inbox[n] = <<>> /\ link[n] = "closed"
    /\ loop' = [loop EXCEPT ![n] = "none"]
    /\ UNCHANGED <<node, tasks, link, traffic, ending>>

\* The connection was lost: "async for" raises.
LoopSeesLoss(n) ==
    /\ loop[n] = "waiting" /\ inbox[n] = <<>> /\ link[n] = "lost"
    /\ LoopBreaks(n)
    /\ UNCHANGED <<shouldRun, ws, receiver, mine, link, traffic, ending>>

-----------------------------------------------------------------------------
(* disconnect(), called once, by on_cleanup. *)

\* Mutant of Disconnect: the receive task is not cancelled.
DisconnectsOnly ==
    /\ stop = "running"
    /\ shouldRun' = FALSE /\ connected' = FALSE
    /\ link' = IF ws = 0 THEN link ELSE [link EXCEPT ![ws] = "closed"]
    /\ left' = \E t \in Connectors : Active(t)
    /\ stop' = IF ws = 0 THEN "stopped" ELSE "closing"
    /\ UNCHANGED <<ws, receiver, tasks, loop, traffic>>

\* The flags are reset, the receive task is cancelled wherever it waits, and
\* the socket begins to close.
Disconnect ==
    /\ stop = "running"
    /\ shouldRun' = FALSE /\ connected' = FALSE
    /\ loop' = IF receiver = 0 THEN loop ELSE [loop EXCEPT ![receiver] = "none"]
    /\ current' = IF receiver = 0 THEN current ELSE [current EXCEPT ![receiver] = None]
    /\ link' = IF ws = 0 THEN link ELSE [link EXCEPT ![ws] = "closed"]
    /\ left' = \E t \in Connectors : Active(t)
    /\ stop' = IF ws = 0 THEN "stopped" ELSE "closing"
    /\ UNCHANGED <<ws, receiver, tasks, inbox, origin, results>>

Disconnected ==
    /\ stop = "closing"
    /\ ws' = 0
    /\ stop' = "stopped"
    /\ UNCHANGED <<shouldRun, connected, receiver, tasks, link, loop, traffic, left>>

-----------------------------------------------------------------------------
(* The Gateway. *)

GatewaySends(n, i) ==
    /\ link[n] = "open" /\ receiver = n /\ origin[i] = 0
    /\ origin' = [origin EXCEPT ![i] = n]
    /\ inbox' = [inbox EXCEPT ![n] = Append(@, i)]
    /\ UNCHANGED <<node, tasks, link, loop, current, results, ending>>

GatewayDrops(n) ==
    /\ link[n] = "open"
    /\ \E how \in {"closed", "lost"} : link' = [link EXCEPT ![n] = how]
    /\ UNCHANGED <<node, tasks, loop, traffic, ending>>

-----------------------------------------------------------------------------
Connector(t) ==
    \/ StartConnect(t) \/ Dial(t) \/ DialFails(t) \/ Challenge(t) \/ HandshakeFails(t)
    \/ Accepted(t) \/ Reconnect(t) \/ WakeUp(t)

ReceiveLoop(n) == LoopStarts(n) \/ Receive(n) \/ SendResult(n) \/ LoopEnds(n) \/ LoopSeesLoss(n)

Next ==
    \/ \E t \in Connectors : Connector(t)
    \/ \E n \in Sockets :
         ReceiveLoop(n) \/ GatewayDrops(n) \/ \E i \in Invokes : GatewaySends(n, i)
    \/ Disconnect \/ Disconnected

Spec == Init /\ [][Next]_vars

\* The event loop runs its tasks, every await of a connector has a timeout, and
\* a browser command ends; the Gateway owes nothing, and nobody has to
\* disconnect.
FairSpec ==
    /\ Spec
    /\ \A t \in Connectors : WF_vars(Connector(t))
    /\ \A n \in Sockets : WF_vars(ReceiveLoop(n))
    /\ WF_vars(Disconnected)

-----------------------------------------------------------------------------
Phases == Idle \cup {"startup", "dialling", "challenge", "response", "check", "asleep", "slept"}

\* Every variable has its type; a loop handles an invocation of its own socket.
TypeOK ==
    /\ shouldRun \in BOOLEAN /\ connected \in BOOLEAN /\ left \in BOOLEAN
    /\ ws \in 0..MaxSockets /\ receiver \in 0..MaxSockets
    /\ phase \in [Connectors -> Phases]
    /\ attempt \in [Connectors -> 0..MaxAttempts]
    /\ mine \in [Connectors -> 0..MaxSockets]
    /\ \A t \in Connectors : mine[t] # 0 <=> phase[t] \in {"challenge", "response"}
    /\ link \in [Sockets -> {"unused", "open", "closed", "lost"}]
    /\ loop \in [Sockets -> {"none", "created", "waiting", "handling"}]
    /\ inbox \in [Sockets -> Seq(Invokes)]
    /\ \A n \in Sockets :
         IF loop[n] = "handling" THEN current[n] \in Invokes /\ origin[current[n]] = n
                                 ELSE current[n] = None
    /\ origin \in [Invokes -> 0..MaxSockets]
    /\ results \in [Invokes -> Seq(Sockets)]
    /\ stop \in {"running", "closing", "stopped"}

\* gateway_node.py:156, 193-208, 481-494: one task at most is connecting or
\* receiving, so two never share _ws and _connected.
OneTaskOwnsTheConnection ==
    /\ \A s, t \in Connectors : Active(s) /\ Active(t) => s = t
    /\ \A m, n \in Sockets : loop[m] # "none" /\ loop[n] # "none" => m = n
    /\ \A t \in Connectors, n \in Sockets : ~(Active(t) /\ loop[n] # "none")

\* gateway_node.py:442-479: the result of an invocation goes out at most once,
\* and on the connection the invocation came from: after a reconnection the
\* Gateway does not get the result of an invocation of the old connection.
ResultOnItsConnection ==
    \A i \in Invokes : results[i] \in {<<>>, <<origin[i]>>}

\* gateway_node.py:175-191: once disconnect has finished, nothing is connected
\* and nothing is received, unless a connector was on its way when it began:
\* connect() sets _should_run again.
DisconnectIsFinal ==
    stop = "stopped" /\ ~left =>
        ~connected /\ ws = 0 /\ \A n \in Sockets : loop[n] = "none"

\* gateway_node.py:204-208, 481-494: after a loss the node connects again, or
\* uses up its attempts, or is told to stop.
LossIsRepaired ==
    \A n \in Sockets :
        loop[n] # "none" /\ link[n] = "lost" ~>
            \/ connected /\ ws # n
            \/ \E t \in Connectors : phase[t] = "gave_up"
            \/ stop # "running"
=============================================================================
