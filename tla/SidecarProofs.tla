---------------------------- MODULE SidecarProofs ----------------------------
(* Proofs about the sidecar, for every value of the constants: GatewayNode, *)
(* its connection to the Gateway, and its two ways of signing in,           *)
(* RemoteAuth and OAuthCodes.                                               *)
EXTENDS GatewayNode, RemoteAuth, OAuthCodes, TLAPS

-----------------------------------------------------------------------------
(* GatewayNode. *)

\* The types of the variables, one equation each.
Types ==
    /\ shouldRun \in BOOLEAN /\ connected \in BOOLEAN /\ left \in BOOLEAN
    /\ ws \in 0..MaxSockets /\ receiver \in 0..MaxSockets
    /\ phase \in [Connectors -> Phases]
    /\ attempt \in [Connectors -> 0..MaxAttempts]
    /\ mine \in [Connectors -> 0..MaxSockets]
    /\ link \in [Sockets -> {"unused", "open", "closed", "lost"}]
    /\ loop \in [Sockets -> {"none", "created", "waiting", "handling"}]
    /\ inbox \in [Sockets -> Seq(Invokes)]
    /\ current \in [Sockets -> Invokes \cup {None}]
    /\ origin \in [Invokes -> 0..MaxSockets]
    /\ results \in [Invokes -> Seq(Sockets)]
    /\ stop \in {"running", "closing", "stopped"}

\* A connector has a socket exactly during its handshake.
HandshakeInv ==
    \A t \in Connectors : mine[t] # 0 <=> phase[t] \in {"challenge", "response"}

TypeInv == Types /\ HandshakeInv

\* The exception path of a receive loop.
LEMMA BreakTypes ==
    ASSUME TypeInv, NEW n \in Sockets, LoopBreaks(n), UNCHANGED mine
    PROVE  /\ phase' \in [Connectors -> Phases]
           /\ attempt' \in [Connectors -> 0..MaxAttempts]
           /\ connected' \in BOOLEAN
           /\ loop' \in [Sockets -> {"none", "created", "waiting", "handling"}]
           /\ HandshakeInv'
<1> USE NodeAssumption DEF TypeInv, Types, HandshakeInv, LoopBreaks
<1>1. CASE shouldRun
  <2>1. PICK t \in Connectors :
           /\ ~Active(t)
           /\ Move(t, "check")
           /\ attempt' = [attempt EXCEPT ![t] = 0]
    BY <1>1
  <2>2. phase' \in [Connectors -> Phases] /\ attempt' \in [Connectors -> 0..MaxAttempts]
    BY <2>1 DEF Move, Phases, Idle
  <2>3. HandshakeInv'
    BY <2>1 DEF Move, Active, Idle
  <2> QED
    BY <2>2, <2>3
<1>2. CASE ~shouldRun
  BY <1>2
<1> QED
  BY <1>1, <1>2

LEMMA TypesHold == Spec => []TypeInv
<1> USE NodeAssumption DEF Sockets
<1>1. Init => TypeInv
  <2> SUFFICES ASSUME Init PROVE TypeInv
    OBVIOUS
  <2>1. phase \in [Connectors -> {"startup", "free"}]
    BY DEF Init
  <2>2. Types
    <3>1. inbox \in [Sockets -> Seq(Invokes)] /\ results \in [Invokes -> Seq(Sockets)]
      BY DEF Init
    <3>2. phase \in [Connectors -> Phases]
      BY <2>1 DEF Phases, Idle
    <3>3. mine \in [Connectors -> 0..MaxSockets] /\ attempt \in [Connectors -> 0..MaxAttempts]
      BY DEF Init
    <3>4. origin \in [Invokes -> 0..MaxSockets] /\ ws \in 0..MaxSockets /\ receiver \in 0..MaxSockets
      BY DEF Init
    <3> QED
      BY <3>1, <3>2, <3>3, <3>4 DEF Init, Types
  <2>3. HandshakeInv
    BY <2>1 DEF Init, HandshakeInv
  <2> QED
    BY <2>2, <2>3 DEF TypeInv
<1>2. TypeInv /\ [Next]_vars => TypeInv'
  <2> SUFFICES ASSUME TypeInv, [Next]_vars PROVE TypeInv'
    OBVIOUS
  <2> USE DEF TypeInv, Types, HandshakeInv
  <2>1. ASSUME NEW t \in Connectors, Connector(t) PROVE TypeInv'
    <3>1. CASE StartConnect(t)
      BY <3>1 DEF StartConnect, Move, Phases, Idle, traffic, ending
    <3>2. CASE Dial(t)
      BY <3>2 DEF Dial, Move, Phases, Idle, traffic, ending
    <3>3. CASE DialFails(t)
      BY <3>3 DEF DialFails, ConnectFailed, Move, Phases, Idle, traffic, ending
    <3>4. CASE Challenge(t)
      BY <3>4 DEF Challenge, Move, Phases, Idle, node, traffic, ending
    <3>5. CASE HandshakeFails(t)
      <4>1. link' \in [Sockets -> {"unused", "open", "closed", "lost"}]
        BY <3>5 DEF HandshakeFails
      <4>2. phase' \in [Connectors -> Phases] /\ mine' \in [Connectors -> 0..MaxSockets] /\ HandshakeInv'
        BY <3>5 DEF HandshakeFails, ConnectFailed, Move, Phases, Idle
      <4> QED
        BY <3>5, <4>1, <4>2 DEF HandshakeFails, traffic, ending
    <3>6. CASE Accepted(t)
      BY <3>6 DEF Accepted, Move, Phases, Idle, traffic, ending
    <3>7. CASE Reconnect(t)
      BY <3>7 DEF Reconnect, Move, Phases, Idle, node, traffic, ending
    <3>8. CASE WakeUp(t)
      BY <3>8 DEF WakeUp, Move, Phases, Idle, node, traffic, ending
    <3> QED
      BY <2>1, <3>1, <3>2, <3>3, <3>4, <3>5, <3>6, <3>7, <3>8 DEF Connector
  <2>2. ASSUME NEW n \in Sockets, ReceiveLoop(n) PROVE TypeInv'
    <3>1. CASE LoopStarts(n)
      <4>1. loop' \in [Sockets -> {"none", "created", "waiting", "handling"}]
        BY <3>1 DEF LoopStarts, LoopBreaks
      <4>2. CASE UNCHANGED <<connected, phase, attempt>>
        BY <3>1, <4>1, <4>2 DEF LoopStarts, traffic, ending
      <4>3. CASE LoopBreaks(n)
        BY <3>1, <4>1, <4>3, BreakTypes DEF LoopStarts, traffic, ending
      <4> QED
        BY <3>1, <4>2, <4>3 DEF LoopStarts
    <3>2. CASE Receive(n)
      <4>1. /\ Head(inbox[n]) \in Invokes
            /\ Tail(inbox[n]) \in Seq(Invokes)
        BY <3>2 DEF Receive
      <4>2. inbox' \in [Sockets -> Seq(Invokes)] /\ current' \in [Sockets -> Invokes \cup {None}]
        BY <3>2, <4>1 DEF Receive
      <4> QED
        BY <3>2, <4>2 DEF Receive, node, tasks, ending
    <3>3. CASE SendResult(n)
      <4>1. current' \in [Sockets -> Invokes \cup {None}]
        BY <3>3 DEF SendResult
      <4>2. loop' \in [Sockets -> {"none", "created", "waiting", "handling"}]
        BY <3>3 DEF SendResult
      <4>3. results' \in [Invokes -> Seq(Sockets)]
        <5>1. CASE connected /\ ws # 0 /\ link[ws] = "open" /\ current[n] \in Invokes
          <6>1. Append(results[current[n]], ws) \in Seq(Sockets)
            BY <5>1
          <6> QED
            BY <3>3, <5>1, <6>1 DEF SendResult
        <5>2. CASE ~(connected /\ ws # 0 /\ link[ws] = "open")
          BY <3>3, <5>2 DEF SendResult
        <5>3. CASE current[n] \notin Invokes
          BY <3>3, <5>3 DEF SendResult
        <5> QED
          BY <5>1, <5>2, <5>3
      <4> QED
        BY <3>3, <4>1, <4>2, <4>3 DEF SendResult, node, tasks, ending
    <3>4. CASE LoopEnds(n)
      BY <3>4 DEF LoopEnds, node, tasks, traffic, ending
    <3>5. CASE LoopSeesLoss(n)
      BY <3>5, BreakTypes DEF LoopSeesLoss, traffic, ending
    <3> QED
      BY <2>2, <3>1, <3>2, <3>3, <3>4, <3>5 DEF ReceiveLoop
  <2>3. ASSUME NEW n \in Sockets, GatewayDrops(n) PROVE TypeInv'
    BY <2>3 DEF GatewayDrops, node, tasks, traffic, ending
  <2>4. ASSUME NEW n \in Sockets, NEW i \in Invokes, GatewaySends(n, i) PROVE TypeInv'
    BY <2>4 DEF GatewaySends, node, tasks, ending
  <2>5. CASE Disconnect
    BY <2>5 DEF Disconnect, tasks
  <2>6. CASE Disconnected
    BY <2>6 DEF Disconnected, tasks, traffic
  <2>7. CASE UNCHANGED vars
    BY <2>7 DEF vars, node, tasks, traffic, ending
  <2> QED
    BY <2>1, <2>2, <2>3, <2>4, <2>5, <2>6, <2>7 DEF Next
<1> QED
  BY <1>1, <1>2, PTL DEF Spec

-----------------------------------------------------------------------------
\* The loop that runs is the one of the receive task; self._ws is its socket,
\* or the socket of the handshake, or None.
OwnerInv ==
    /\ OneTaskOwnsTheConnection
    /\ \A n \in Sockets : loop[n] # "none" => receiver = n /\ ws \in {0, n}
    /\ \A t \in Connectors : phase[t] \in {"challenge", "response"} => ws \in {0, mine[t]}

LEMMA OwnerInit == Init => OwnerInv
<1> SUFFICES ASSUME Init PROVE OwnerInv
  OBVIOUS
<1>1. PICK startup \in Connectors :
        phase = [t \in Connectors |-> IF t = startup THEN "startup" ELSE "free"]
  BY DEF Init
<1> QED
  BY <1>1 DEF Init, OwnerInv, OneTaskOwnsTheConnection, Active, Idle

LEMMA OwnerStep == TypeInv /\ OwnerInv /\ [Next]_vars => OwnerInv'
<1> SUFFICES ASSUME TypeInv, OwnerInv, [Next]_vars PROVE OwnerInv'
  OBVIOUS
<1> USE DEF TypeInv, Types, HandshakeInv, OwnerInv, OneTaskOwnsTheConnection, Active, Idle
<1>1. ASSUME NEW t \in Connectors, Connector(t) PROVE OwnerInv'
  <2>0. Active(t) /\ \A n \in Sockets : loop[n] = "none"
    BY <1>1 DEF Connector, StartConnect, Dial, DialFails, Challenge, HandshakeFails,
                Accepted, Reconnect, WakeUp
  <2>1. CASE StartConnect(t)
    BY <2>0, <2>1 DEF StartConnect, Move
  <2>2. CASE Dial(t)
    <3>1. /\ phase' = [phase EXCEPT ![t] = "challenge"]
          /\ ws' = mine'[t]
          /\ UNCHANGED <<receiver, loop>>
      BY <2>2 DEF Dial, Move
    <3>2. \A s \in Connectors : s # t => ~Active(s)
      BY <2>0
    <3>3. \A s \in Connectors : s # t => phase'[s] = phase[s]
      BY <3>1
    <3> QED
      BY <2>0, <3>1, <3>2, <3>3
  <2>3. CASE DialFails(t)
    BY <2>0, <2>3 DEF DialFails, ConnectFailed, Move
  <2>4. CASE Challenge(t)
    BY <2>0, <2>4 DEF Challenge, Move, node
  <2>5. CASE HandshakeFails(t)
    BY <2>0, <2>5 DEF HandshakeFails, ConnectFailed, Move
  <2>6. CASE Accepted(t)
    <3>1. /\ phase' = [phase EXCEPT ![t] = "connected"]
          /\ receiver' = mine[t] /\ ws' = ws /\ ws \in {0, mine[t]}
          /\ loop' = [loop EXCEPT ![mine[t]] = "created"]
      BY <2>6 DEF Accepted, Move
    <3>2. \A s \in Connectors : phase'[s] \in {"free", "failed", "gave_up", "connected"}
      BY <2>0, <3>1
    <3>3. \A n \in Sockets : loop'[n] # "none" => n = mine[t]
      BY <2>0, <3>1
    <3> QED
      BY <3>1, <3>2, <3>3
  <2>7. CASE Reconnect(t)
    BY <2>0, <2>7 DEF Reconnect, Move, node
  <2>8. CASE WakeUp(t)
    BY <2>0, <2>8 DEF WakeUp, Move, node
  <2> QED
    BY <1>1, <2>1, <2>2, <2>3, <2>4, <2>5, <2>6, <2>7, <2>8 DEF Connector
<1>2. ASSUME NEW n \in Sockets, LoopBreaks(n), loop[n] # "none", UNCHANGED <<ws, receiver, mine>>
      PROVE OwnerInv'
  <2>1. \A t \in Connectors : ~Active(t)
    BY <1>2
  <2>2. \A m \in Sockets : loop'[m] = "none"
    BY <1>2 DEF LoopBreaks
  <2>3. CASE shouldRun
    <3>1. PICK t \in Connectors : Move(t, "check")
      BY <1>2, <2>3 DEF LoopBreaks
    <3>2. \A s \in Connectors : s # t => ~Active(s)' /\ phase'[s] = phase[s]
      BY <2>1, <3>1 DEF Move
    <3>3. phase'[t] = "check"
      BY <3>1 DEF Move
    <3> QED
      BY <1>2, <2>1, <2>2, <3>2, <3>3
  <2>4. CASE ~shouldRun
    BY <1>2, <2>1, <2>2, <2>4 DEF LoopBreaks
  <2> QED
    BY <2>3, <2>4
<1>3. ASSUME NEW n \in Sockets, ReceiveLoop(n) PROVE OwnerInv'
  <2>1. CASE LoopStarts(n)
    <3>1. CASE ws = n
      <4>1. \A m \in Sockets : loop'[m] # "none" => loop[m] # "none"
        BY <2>1, <3>1 DEF LoopStarts
      <4>2. UNCHANGED <<phase, ws, receiver, mine>>
        BY <2>1, <3>1 DEF LoopStarts
      <4> QED
        BY <4>1, <4>2
    <3>2. CASE ws # n
      BY <1>2, <2>1, <3>2 DEF LoopStarts
    <3> QED
      BY <3>1, <3>2
  <2>2. CASE Receive(n)
    BY <2>2 DEF Receive, node, tasks
  <2>3. CASE SendResult(n)
    <3>1. \A m \in Sockets : loop'[m] # "none" => loop[m] # "none"
      BY <2>3 DEF SendResult
    <3>2. UNCHANGED <<phase, ws, receiver, mine>>
      BY <2>3 DEF SendResult, node, tasks
    <3> QED
      BY <3>1, <3>2
  <2>4. CASE LoopEnds(n)
    BY <2>4 DEF LoopEnds, node, tasks
  <2>5. CASE LoopSeesLoss(n)
    BY <1>2, <2>5 DEF LoopSeesLoss
  <2> QED
    BY <1>3, <2>1, <2>2, <2>3, <2>4, <2>5 DEF ReceiveLoop
<1>4. ASSUME NEW n \in Sockets, GatewayDrops(n) PROVE OwnerInv'
  BY <1>4 DEF GatewayDrops, node, tasks
<1>5. ASSUME NEW n \in Sockets, NEW i \in Invokes, GatewaySends(n, i) PROVE OwnerInv'
  BY <1>5 DEF GatewaySends, node, tasks
<1>6. CASE Disconnect
  <2>1. \A n \in Sockets : loop'[n] = "none"
    BY <1>6 DEF Disconnect, Sockets
  <2> QED
    BY <1>6, <2>1 DEF Disconnect, tasks
<1>7. CASE Disconnected
  BY <1>7 DEF Disconnected, tasks
<1>8. CASE UNCHANGED vars
  BY <1>8 DEF vars, node, tasks
<1> QED
  BY <1>1, <1>3, <1>4, <1>5, <1>6, <1>7, <1>8 DEF Next

\* Whatever the bounds: never two tasks at the connection, be they connectors
\* or receive loops.
THEOREM OneTaskHolds == Spec => []OneTaskOwnsTheConnection
<1>1. OwnerInv => OneTaskOwnsTheConnection
  BY DEF OwnerInv
<1> QED
  BY <1>1, TypesHold, OwnerInit, OwnerStep, PTL DEF Spec

-----------------------------------------------------------------------------
\* Once disconnect() has begun with no connector active, no task is left that
\* could undo it.
StopInv ==
    /\ stop # "running" /\ ~left =>
         /\ \A t \in Connectors : ~Active(t)
         /\ \A n \in Sockets : loop[n] = "none"
         /\ ~connected
    /\ stop = "stopped" /\ ~left => ws = 0

LEMMA StopStep == TypeInv /\ OwnerInv /\ StopInv /\ [Next]_vars => StopInv'
<1> SUFFICES ASSUME TypeInv, OwnerInv, StopInv, [Next]_vars PROVE StopInv'
  OBVIOUS
<1> USE DEF TypeInv, Types, OwnerInv, StopInv
<1>1. ASSUME NEW t \in Connectors, Connector(t) PROVE StopInv'
  <2>1. Active(t) /\ UNCHANGED <<stop, left>>
    BY <1>1 DEF Connector, StartConnect, Dial, DialFails, Challenge, HandshakeFails,
                Accepted, Reconnect, WakeUp, Active, Idle, ending
  <2> QED
    BY <2>1
<1>2. ASSUME NEW n \in Sockets, ReceiveLoop(n) PROVE StopInv'
  <2>1. loop[n] # "none" /\ UNCHANGED <<stop, left>>
    BY <1>2 DEF ReceiveLoop, LoopStarts, Receive, SendResult, LoopEnds, LoopSeesLoss, ending
  <2> QED
    BY <2>1
<1>3. ASSUME NEW n \in Sockets, GatewayDrops(n) PROVE StopInv'
  BY <1>3 DEF GatewayDrops, node, tasks, ending, Active
<1>4. ASSUME NEW n \in Sockets, NEW i \in Invokes, GatewaySends(n, i) PROVE StopInv'
  BY <1>4 DEF GatewaySends, node, tasks, ending, Active
<1>5. CASE Disconnect
  <2>1. \A n \in Sockets : loop'[n] = "none"
    BY <1>5 DEF Disconnect, Sockets
  <2>2. ~left' => \A t \in Connectors : ~Active(t)'
    BY <1>5 DEF Disconnect, tasks, Active
  <2> QED
    BY <1>5, <2>1, <2>2 DEF Disconnect
<1>6. CASE Disconnected
  BY <1>6 DEF Disconnected, tasks, Active
<1>7. CASE UNCHANGED vars
  BY <1>7 DEF vars, node, tasks, ending, Active
<1> QED
  BY <1>1, <1>2, <1>3, <1>4, <1>5, <1>6, <1>7 DEF Next

\* disconnect() is final whenever no connector was on its way: the cancelled
\* loop is the only task that could have connected again.
THEOREM DisconnectIsFinalHolds == Spec => []DisconnectIsFinal
<1>1. Init => StopInv
  BY DEF Init, StopInv
<1>2. StopInv => DisconnectIsFinal
  BY DEF StopInv, DisconnectIsFinal
<1> QED
  BY <1>1, <1>2, TypesHold, OwnerInit, OwnerStep, StopStep, PTL DEF Spec

-----------------------------------------------------------------------------
\* Where an invocation is: waiting on its socket, once; being handled by its
\* socket's loop; or past that.  No result goes out before the end.
WaitingInv ==
    \A n \in Sockets : \A k \in 1..Len(inbox[n]) :
        origin[inbox[n][k]] = n /\ results[inbox[n][k]] = <<>>

DistinctInv ==
    \A n \in Sockets : \A k, l \in 1..Len(inbox[n]) : inbox[n][k] = inbox[n][l] => k = l

HandlingInv ==
    \A n \in Sockets :
        IF loop[n] = "handling"
        THEN /\ current[n] \in Invokes
             /\ origin[current[n]] = n
             /\ results[current[n]] = <<>>
             /\ \A k \in 1..Len(inbox[n]) : inbox[n][k] # current[n]
        ELSE current[n] = None

UnsentInv == \A i \in Invokes : origin[i] = 0 => results[i] = <<>>

DeliveryInv == WaitingInv /\ DistinctInv /\ HandlingInv /\ UnsentInv /\ ResultOnItsConnection

LEMMA DeliveryInit == Init => DeliveryInv
BY DEF Init, DeliveryInv, WaitingInv, DistinctInv, HandlingInv, UnsentInv,
       ResultOnItsConnection, Sockets

\* Steps that touch no message keep the invariant, when no loop starts or
\* stops to handle one.
LEMMA QuietStep ==
    ASSUME DeliveryInv, UNCHANGED <<inbox, current, origin, results>>,
           \A n \in Sockets : loop'[n] = "handling" <=> loop[n] = "handling"
    PROVE  DeliveryInv'
BY DEF DeliveryInv, WaitingInv, DistinctInv, HandlingInv, UnsentInv, ResultOnItsConnection

LEMMA DeliveryStep == TypeInv /\ OwnerInv /\ DeliveryInv /\ [Next]_vars => DeliveryInv'
<1> SUFFICES ASSUME TypeInv, OwnerInv, DeliveryInv, [Next]_vars PROVE DeliveryInv'
  OBVIOUS
<1> USE DEF TypeInv, Types, traffic
<1>1. ASSUME NEW t \in Connectors, Connector(t) PROVE DeliveryInv'
  <2>1. UNCHANGED <<inbox, current, origin, results>>
    BY <1>1 DEF Connector, StartConnect, Dial, DialFails, Challenge, HandshakeFails,
                Accepted, Reconnect, WakeUp
  <2>2. \A n \in Sockets : loop[n] = "none"
    BY <1>1 DEF OwnerInv, OneTaskOwnsTheConnection, Active, Idle, Connector, StartConnect, Dial,
                DialFails, Challenge, HandshakeFails, Accepted, Reconnect, WakeUp
  <2>3. \A n \in Sockets : loop'[n] \in {"none", "created"}
    BY <1>1, <2>2 DEF Connector, StartConnect, Dial, DialFails, Challenge, HandshakeFails,
                Accepted, Reconnect, WakeUp, node
  <2> QED
    BY <2>1, <2>2, <2>3, QuietStep
<1>2. ASSUME NEW n \in Sockets, LoopStarts(n) \/ LoopEnds(n) \/ LoopSeesLoss(n) PROVE DeliveryInv'
  <2>1. UNCHANGED <<inbox, current, origin, results>>
    BY <1>2 DEF LoopStarts, LoopEnds, LoopSeesLoss
  <2>2. loop[n] # "handling" /\ \E l \in {"none", "waiting"} : loop' = [loop EXCEPT ![n] = l]
    BY <1>2 DEF LoopStarts, LoopEnds, LoopSeesLoss, LoopBreaks
  <2> QED
    BY <2>1, <2>2, QuietStep
<1>3. ASSUME NEW n \in Sockets, Receive(n) PROVE DeliveryInv'
  <2>1. /\ inbox[n] # <<>> /\ inbox[n] \in Seq(Invokes)
        /\ inbox' = [inbox EXCEPT ![n] = Tail(inbox[n])]
        /\ current' = [current EXCEPT ![n] = inbox[n][1]]
        /\ loop' = [loop EXCEPT ![n] = "handling"]
        /\ UNCHANGED <<origin, results>>
    BY <1>3 DEF Receive
  <2>2. /\ Len(inbox'[n]) = Len(inbox[n]) - 1
        /\ \A k \in 1..Len(inbox'[n]) : k + 1 \in 1..Len(inbox[n]) /\ inbox'[n][k] = inbox[n][k + 1]
        /\ inbox[n][1] \in Invokes /\ 1 \in 1..Len(inbox[n])
    BY <2>1
  <2>3. \A m \in Sockets : m # n => inbox'[m] = inbox[m] /\ current'[m] = current[m] /\ loop'[m] = loop[m]
    BY <2>1
  <2>4. \A k \in 1..Len(inbox'[n]) : inbox'[n][k] # inbox[n][1]
    BY <2>2 DEF DeliveryInv, DistinctInv
  <2>5. current'[n] = inbox[n][1] /\ loop'[n] = "handling"
    BY <2>1
  <2>6. WaitingInv'
    <3>1. ASSUME NEW k \in 1..Len(inbox'[n])
          PROVE  origin[inbox'[n][k]] = n /\ results[inbox'[n][k]] = <<>>
      <4>1. k + 1 \in 1..Len(inbox[n]) /\ inbox'[n][k] = inbox[n][k + 1]
        BY <2>2
      <4>2. origin[inbox[n][k + 1]] = n /\ results[inbox[n][k + 1]] = <<>>
        BY <4>1 DEF DeliveryInv, WaitingInv
      <4> QED
        BY <4>1, <4>2
    <3>2. ASSUME NEW m \in Sockets, m # n
          PROVE  \A k \in 1..Len(inbox'[m]) : origin[inbox'[m][k]] = m /\ results[inbox'[m][k]] = <<>>
      <4>1. inbox'[m] = inbox[m]
        BY <2>3, <3>2
      <4>2. \A k \in 1..Len(inbox[m]) : origin[inbox[m][k]] = m /\ results[inbox[m][k]] = <<>>
        BY DEF DeliveryInv, WaitingInv
      <4> QED
        BY <4>1, <4>2
    <3> QED
      BY <2>1, <3>1, <3>2 DEF WaitingInv
  <2>7. DistinctInv'
    <3>1. ASSUME NEW k \in 1..Len(inbox'[n]), NEW l \in 1..Len(inbox'[n]),
                 inbox'[n][k] = inbox'[n][l]
          PROVE  k = l
      <4>1. inbox[n][k + 1] = inbox[n][l + 1]
        BY <2>2, <3>1
      <4>2. k + 1 = l + 1
        BY <2>2, <4>1 DEF DeliveryInv, DistinctInv
      <4> HIDE DEF TypeInv
      <4> QED
        BY <4>2
    <3>2. \A m \in Sockets : m # n =>
            \A k, l \in 1..Len(inbox'[m]) : inbox'[m][k] = inbox'[m][l] => k = l
      BY <2>3 DEF DeliveryInv, DistinctInv
    <3> QED
      BY <3>1, <3>2 DEF DistinctInv
  <2>8. HandlingInv'
    <3>1. origin[inbox[n][1]] = n /\ results[inbox[n][1]] = <<>>
      BY <2>2 DEF DeliveryInv, WaitingInv
    <3>2. \A m \in Sockets : m # n =>
            IF loop'[m] = "handling"
            THEN /\ current'[m] \in Invokes
                 /\ origin[current'[m]] = m
                 /\ results[current'[m]] = <<>>
                 /\ \A k \in 1..Len(inbox'[m]) : inbox'[m][k] # current'[m]
            ELSE current'[m] = None
      BY <2>3 DEF DeliveryInv, HandlingInv
    <3> QED
      BY <2>1, <2>2, <2>4, <2>5, <3>1, <3>2 DEF HandlingInv
  <2>9. UnsentInv' /\ ResultOnItsConnection'
    BY <2>1 DEF DeliveryInv, UnsentInv, ResultOnItsConnection
  <2> QED
    BY <2>6, <2>7, <2>8, <2>9 DEF DeliveryInv
<1>4. ASSUME NEW n \in Sockets, SendResult(n) PROVE DeliveryInv'
  <2> DEFINE i == current[n]
  <2>1. /\ i \in Invokes /\ origin[i] = n /\ results[i] = <<>> /\ loop[n] = "handling"
        /\ \A k \in 1..Len(inbox[n]) : inbox[n][k] # i
        /\ \A m \in Sockets : m # n => loop[m] = "none"
        /\ ws \in {0, n}
    BY <1>4 DEF SendResult, DeliveryInv, HandlingInv, OwnerInv, OneTaskOwnsTheConnection
  <2>2. /\ UNCHANGED <<inbox, origin>>
        /\ loop' = [loop EXCEPT ![n] = "waiting"]
        /\ current' = [current EXCEPT ![n] = None]
    BY <1>4 DEF SendResult
  <2>3. /\ results'[i] \in {<<>>, <<n>>}
        /\ \A j \in Invokes : j # i => results'[j] = results[j]
    <3>1. CASE connected /\ ws # 0 /\ link[ws] = "open"
      <4>1. results' = [results EXCEPT ![i] = Append(results[i], n)]
        BY <1>4, <2>1, <3>1 DEF SendResult
      <4>2. Append(results[i], n) = <<n>>
        BY <2>1
      <4> QED
        BY <2>1, <4>1, <4>2
    <3>2. CASE ~(connected /\ ws # 0 /\ link[ws] = "open")
      BY <1>4, <2>1, <3>2 DEF SendResult
    <3> QED
      BY <3>1, <3>2
  <2>4. \A m \in Sockets : \A k \in 1..Len(inbox[m]) : inbox[m][k] \in Invokes /\ inbox[m][k] # i
    <3> SUFFICES ASSUME NEW m \in Sockets, NEW k \in 1..Len(inbox[m])
                 PROVE  inbox[m][k] \in Invokes /\ inbox[m][k] # i
      OBVIOUS
    <3>1. inbox[m] \in Seq(Invokes)
      OBVIOUS
    <3>2. inbox[m][k] \in Invokes /\ origin[inbox[m][k]] = m
      BY <3>1 DEF DeliveryInv, WaitingInv
    <3> QED
      BY <2>1, <3>2
  <2>5. WaitingInv'
    BY <2>2, <2>3, <2>4 DEF DeliveryInv, WaitingInv
  <2>6. DistinctInv'
    BY <2>2 DEF DeliveryInv, DistinctInv
  <2>7. HandlingInv'
    <3>1. \A m \in Sockets : loop'[m] # "handling"
      BY <2>1, <2>2
    <3>2. \A m \in Sockets : current'[m] = None
      BY <2>1, <2>2 DEF DeliveryInv, HandlingInv
    <3> QED
      BY <3>1, <3>2 DEF HandlingInv
  <2>8. UnsentInv'
    BY <2>1, <2>2, <2>3 DEF DeliveryInv, UnsentInv, Sockets
  <2>9. ResultOnItsConnection'
    BY <2>1, <2>2, <2>3 DEF DeliveryInv, ResultOnItsConnection
  <2> QED
    BY <2>5, <2>6, <2>7, <2>8, <2>9 DEF DeliveryInv
<1>5. ASSUME NEW n \in Sockets, GatewayDrops(n) PROVE DeliveryInv'
  BY <1>5, QuietStep DEF GatewayDrops
<1>6. ASSUME NEW n \in Sockets, NEW i \in Invokes, GatewaySends(n, i) PROVE DeliveryInv'
  <2>1. /\ origin[i] = 0 /\ results[i] = <<>>
        /\ origin' = [origin EXCEPT ![i] = n]
        /\ inbox' = [inbox EXCEPT ![n] = Append(inbox[n], i)]
        /\ UNCHANGED <<loop, current, results>>
    BY <1>6 DEF GatewaySends, DeliveryInv, UnsentInv
  <2>2. \A m \in Sockets : \A k \in 1..Len(inbox[m]) : inbox[m][k] \in Invokes /\ inbox[m][k] # i
    <3> SUFFICES ASSUME NEW m \in Sockets, NEW k \in 1..Len(inbox[m])
                 PROVE  inbox[m][k] \in Invokes /\ inbox[m][k] # i
      OBVIOUS
    <3>1. inbox[m] \in Seq(Invokes) /\ m # 0
      <4>1. inbox[m] \in Seq(Invokes)
        OBVIOUS
      <4>2. m # 0
        BY NodeAssumption DEF Sockets
      <4> QED
        BY <4>1, <4>2
    <3>2. inbox[m][k] \in Invokes /\ origin[inbox[m][k]] = m
      BY <3>1 DEF DeliveryInv, WaitingInv
    <3> QED
      BY <2>1, <3>1, <3>2
  <2>3. /\ inbox[n] \in Seq(Invokes) /\ Len(inbox[n]) \in Nat
        /\ Len(inbox'[n]) = Len(inbox[n]) + 1
        /\ \A k \in 1..Len(inbox[n]) : inbox'[n][k] = inbox[n][k]
        /\ inbox'[n][Len(inbox[n]) + 1] = i
    BY <2>1
  <2>4. \A k \in 1..Len(inbox'[n]) : k \in 1..Len(inbox[n]) \/ k = Len(inbox[n]) + 1
    <3> HIDE DEF TypeInv
    <3> QED BY <2>3
  <2>5. \A m \in Sockets : m # n => inbox'[m] = inbox[m]
    BY <2>1
  <2>6. \A m \in Sockets : loop[m] = "handling" => current[m] # i
    BY <2>1 DEF DeliveryInv, HandlingInv, Sockets
  <2>7. WaitingInv'
    <3>1. ASSUME NEW k \in 1..Len(inbox'[n])
          PROVE  origin'[inbox'[n][k]] = n /\ results'[inbox'[n][k]] = <<>>
      <4>1. CASE k \in 1..Len(inbox[n])
        <5>1. inbox'[n][k] = inbox[n][k] /\ inbox[n][k] \in Invokes /\ inbox[n][k] # i
          BY <2>2, <2>3, <4>1
        <5>2. origin[inbox[n][k]] = n /\ results[inbox[n][k]] = <<>>
          BY <4>1 DEF DeliveryInv, WaitingInv
        <5> QED
          BY <2>1, <5>1, <5>2
      <4>2. CASE k = Len(inbox[n]) + 1
        BY <2>1, <2>3, <4>2
      <4> QED
        BY <2>4, <4>1, <4>2
    <3>2. ASSUME NEW m \in Sockets, m # n, NEW k \in 1..Len(inbox'[m])
          PROVE  origin'[inbox'[m][k]] = m /\ results'[inbox'[m][k]] = <<>>
      <4>1. inbox'[m] = inbox[m] /\ inbox[m][k] \in Invokes /\ inbox[m][k] # i
        BY <2>2, <2>5, <3>2
      <4>2. origin[inbox[m][k]] = m /\ results[inbox[m][k]] = <<>>
        BY <3>2, <4>1 DEF DeliveryInv, WaitingInv
      <4> QED
        BY <2>1, <4>1, <4>2
    <3> QED
      BY <3>1, <3>2 DEF WaitingInv
  <2>8. DistinctInv'
    <3>1. \A k, l \in 1..Len(inbox'[n]) : inbox'[n][k] = inbox'[n][l] => k = l
      <4> HIDE DEF TypeInv, Types
      <4> QED
        BY <2>2, <2>3, <2>4 DEF DeliveryInv, DistinctInv
    <3> QED
      BY <2>5, <3>1 DEF DeliveryInv, DistinctInv
  <2>9. HandlingInv'
    <3> SUFFICES ASSUME NEW m \in Sockets
                 PROVE  IF loop[m] = "handling"
                        THEN /\ current[m] \in Invokes
                             /\ origin'[current[m]] = m
                             /\ results[current[m]] = <<>>
                             /\ \A k \in 1..Len(inbox'[m]) : inbox'[m][k] # current[m]
                        ELSE current[m] = None
      BY <2>1 DEF HandlingInv
    <3>1. CASE loop[m] = "handling"
      <4>1. current[m] \in Invokes /\ current[m] # i /\ origin'[current[m]] = m
        BY <2>1, <2>6, <3>1 DEF DeliveryInv, HandlingInv
      <4>2. \A k \in 1..Len(inbox[m]) : inbox[m][k] # current[m]
        BY <3>1 DEF DeliveryInv, HandlingInv
      <4>3. \A k \in 1..Len(inbox'[m]) : inbox'[m][k] # current[m]
        <5>1. CASE m = n
          BY <2>3, <2>4, <4>1, <4>2, <5>1
        <5>2. CASE m # n
          BY <2>5, <4>2, <5>2
        <5> QED
          BY <5>1, <5>2
      <4> QED
        BY <3>1, <4>1, <4>3 DEF DeliveryInv, HandlingInv
    <3>2. CASE loop[m] # "handling"
      BY <3>2 DEF DeliveryInv, HandlingInv
    <3> QED
      BY <3>1, <3>2
  <2>10. UnsentInv' /\ ResultOnItsConnection'
    BY <2>1 DEF DeliveryInv, UnsentInv, ResultOnItsConnection, Sockets
  <2> QED
    BY <2>7, <2>8, <2>9, <2>10 DEF DeliveryInv
<1>7. CASE Disconnect
  <2>1. \A n \in Sockets : loop'[n] = "none"
    BY <1>7 DEF Disconnect, OwnerInv, Sockets
  <2>2. \A n \in Sockets : current'[n] = None
    BY <1>7 DEF Disconnect, OwnerInv, DeliveryInv, HandlingInv, Sockets
  <2>3. UNCHANGED <<inbox, origin, results>>
    BY <1>7 DEF Disconnect
  <2> QED
    BY <2>1, <2>2, <2>3 DEF DeliveryInv, WaitingInv, DistinctInv, HandlingInv, UnsentInv,
                            ResultOnItsConnection
<1>8. CASE Disconnected
  BY <1>8, QuietStep DEF Disconnected
<1>9. CASE UNCHANGED vars
  BY <1>9, QuietStep DEF vars
<1> QED
  BY <1>1, <1>2, <1>3, <1>4, <1>5, <1>6, <1>7, <1>8, <1>9 DEF Next, ReceiveLoop

\* A result goes out at most once, on the connection of its invocation,
\* however often the connection is lost and made again.
THEOREM ResultOnItsConnectionHolds == Spec => []ResultOnItsConnection
<1>1. DeliveryInv => ResultOnItsConnection
  BY DEF DeliveryInv
<1> QED
  BY <1>1, TypesHold, OwnerInit, OwnerStep, DeliveryInit, DeliveryStep, PTL DEF Spec

\* Type correctness, with the part that needs the deliveries.
THEOREM NodeTypeOKHolds == Spec => []TypeOK
<1>1. TypeInv /\ DeliveryInv => TypeOK
  BY DEF TypeInv, Types, HandshakeInv, DeliveryInv, HandlingInv, TypeOK
<1> QED
  BY <1>1, TypesHold, OwnerInit, OwnerStep, DeliveryInit, DeliveryStep, PTL DEF Spec

-----------------------------------------------------------------------------
(* RemoteAuth.  Once a call goes for the lock, the cookies of its session   *)
(* are settled: nobody can submit others.  While it holds the lock, nobody  *)
(* else touches the browser.                                                *)

AuthRecords ==
    [listed : BOOLEAN, status : {"none", "pending", "completed", "expired"}, expires : Nat, cookies : Nat, completedAt : Nat]

RelayRecords ==
    [pc : {"closed", "checking", "ready", "sending", "done", "error"}, session : AuthSessions \cup {"none"}, cookies : Nat]

Holding == {"domain", "cookies", "target", "answering"}
Injecting == Holding \cup {"lock"}

CallRecords ==
    [pc : Injecting \cup {"idle", "polling", "done"}, session : AuthSessions \cup {"none"}, start : Nat, cleared : BOOLEAN, arrived : BOOLEAN,
     answer : {"none", "not_found", "bad_request", "cookies", "server_error", "gone", "timeout", "ok"}]

Pages == {Elsewhere} \cup (AuthSessions \X {"domain", "target"})
BrowserRecords == [page : Pages, jar : SUBSET AuthSessions]

SessionTypes == auth \in [AuthSessions -> AuthRecords]
CallTypes == calls \in [AuthClients -> CallRecords]
RelayTypes == relay \in RelayRecords /\ (relay.pc # "closed" => relay.session \in AuthSessions)
AuthTypes == now \in Nat /\ SessionTypes /\ RelayTypes /\ CallTypes /\ browser \in BrowserRecords

\* Cookies come before the session expires.
InTime ==
    \A s \in AuthSessions :
      /\ auth[s].completedAt <= auth[s].expires
      /\ auth[s].status = "none" => auth[s].completedAt = 0

\* Nobody changes the cookies of such a session any more.
Settled(s) == auth[s].status = "completed" \/ (auth[s].status = "expired" /\ now > auth[s].expires)

CallInv ==
    \A c \in AuthClients :
      /\ calls[c].pc = "polling" => calls[c].session \in AuthSessions
      /\ calls[c].pc \in Injecting => calls[c].session \in AuthSessions /\ Settled(calls[c].session)
      /\ calls[c].pc \in Holding => requestLock = c

PageInv ==
    \A c \in AuthClients :
      /\ calls[c].pc \in {"target", "answering"} /\ calls[c].cleared => browser.jar \cap SameDomain(calls[c].session) \subseteq {calls[c].session}
      /\ calls[c].pc = "answering" /\ calls[c].arrived => browser.page = <<calls[c].session, "target">>

AuthInv == AuthTypes /\ InTime /\ CallInv /\ PageInv

\* What a step may do to the sessions.
SessionsMove ==
    /\ SessionTypes' /\ InTime'
    /\ \A s \in AuthSessions : Settled(s) => Settled(s)' /\ auth'[s].cookies = auth[s].cookies

LEMMA LookupMoves ==
    ASSUME AuthTypes, InTime, now' = now, NEW s \in AuthSessions, auth' = GetSession(s)
    PROVE  SessionsMove /\ (auth'[s].status = "completed" => Settled(s)')
BY DEF AuthTypes, SessionTypes, AuthRecords, InTime, Settled, SessionsMove, GetSession, Expired

LEMMA CreateMoves ==
    ASSUME AuthTypes, InTime, now' = now, NEW s \in AuthSessions, NEW ttl \in Lifetimes,
           auth[s].status = "none", auth' = CreateSession(s, ttl)
    PROVE  SessionsMove
<1>1. CleanupExpired(auth) \in [AuthSessions -> AuthRecords]
  BY DEF AuthTypes, SessionTypes, AuthRecords, CleanupExpired
<1>2. \A t \in AuthSessions : /\ CleanupExpired(auth)[t].status = auth[t].status
                              /\ CleanupExpired(auth)[t].expires = auth[t].expires
                              /\ CleanupExpired(auth)[t].cookies = auth[t].cookies
                              /\ CleanupExpired(auth)[t].completedAt = auth[t].completedAt
  BY DEF AuthTypes, SessionTypes, AuthRecords, CleanupExpired
<1> DEFINE cleaned == CleanupExpired(auth)
<1>3. auth' = [cleaned EXCEPT ![s].listed = TRUE, ![s].status = "pending", ![s].expires = now + ttl]
  BY DEF CreateSession
<1> HIDE DEF cleaned
<1>4. now + ttl \in Nat
  BY AuthAssumption DEF AuthTypes
<1>5. SessionTypes'
  BY <1>1, <1>3, <1>4 DEF SessionTypes, AuthRecords, cleaned
<1>6. InTime'
  BY <1>1, <1>2, <1>3, <1>4 DEF InTime, AuthRecords, cleaned
<1>7. \A t \in AuthSessions : Settled(t) => Settled(t)' /\ auth'[t].cookies = auth[t].cookies
  BY <1>1, <1>2, <1>3 DEF Settled, AuthRecords, cleaned
<1> QED
  BY <1>5, <1>6, <1>7 DEF SessionsMove

LEMMA CompleteMoves ==
    ASSUME AuthTypes, InTime, now' = now, NEW s \in AuthSessions, NEW cookies \in Nat, auth' = CompleteSession(s, cookies)
    PROVE  SessionsMove
<1>1. CASE auth' = GetSession(s)
  BY <1>1, LookupMoves
<1>2. CASE /\ Accepts(s) /\ auth[s].status # "completed"
           /\ auth' = [auth EXCEPT ![s].status = "completed", ![s].cookies = cookies, ![s].completedAt = now]
  <2> DEFINE completed == [auth[s] EXCEPT !.status = "completed", !.cookies = cookies, !.completedAt = now]
  <2>0. /\ completed \in AuthRecords /\ completed.status = "completed" /\ completed.completedAt = now
        /\ completed.expires = auth[s].expires /\ auth' = [auth EXCEPT ![s] = completed]
    BY <1>2 DEF AuthTypes, SessionTypes, AuthRecords
  <2> HIDE DEF completed
  <2>1. /\ SessionTypes' /\ \A t \in AuthSessions \ {s} : auth'[t] = auth[t]
        /\ auth'[s].status = "completed" /\ auth'[s].completedAt = now /\ auth'[s].expires = auth[s].expires
    BY <2>0 DEF AuthTypes, SessionTypes
  <2>2. InTime'
    BY <1>2, <2>1 DEF Accepts, Expired, AuthTypes, SessionTypes, AuthRecords, InTime
  <2>3. ~Settled(s)
    BY <1>2 DEF Accepts, Expired, Settled
  <2> QED
    BY <2>1, <2>2, <2>3 DEF Settled, SessionsMove
<1> QED
  BY <1>1, <1>2 DEF CompleteSession

\* A step that leaves the calls, the lock and the browser alone.
LEMMA SessionStep ==
    ASSUME AuthInv, SessionsMove, now' = now, RelayTypes', UNCHANGED <<calls, requestLock, browser>>
    PROVE  AuthInv'
<1>1. AuthTypes' /\ InTime'
  BY DEF AuthInv, AuthTypes, SessionsMove, CallTypes
<1>2. CallInv'
  BY DEF AuthInv, CallInv, SessionsMove
<1>3. PageInv'
  BY DEF AuthInv, CallInv, PageInv, SessionsMove, Injecting, Holding
<1> QED
  BY <1>1, <1>2, <1>3 DEF AuthInv

\* A call that ends or does not inject yet: the lock and the browser stay.
LEMMA CallStep ==
    ASSUME AuthInv, SessionsMove, now' = now, UNCHANGED <<relay, requestLock, browser>>,
           NEW c \in AuthClients, NEW call \in CallRecords, calls' = [calls EXCEPT ![c] = call],
           call.pc = "polling" => call.session \in AuthSessions,
           call.pc \in Injecting => call.pc = "lock" /\ call.session \in AuthSessions /\ Settled(call.session)'
    PROVE  AuthInv'
<1>1. AuthTypes' /\ InTime'
  BY DEF AuthInv, AuthTypes, SessionsMove, CallTypes, RelayTypes
<1>2. calls'[c] = call /\ \A d \in AuthClients \ {c} : calls'[d] = calls[d]
  BY DEF AuthInv, AuthTypes, CallTypes
<1>3. CallInv'
  BY <1>2 DEF AuthInv, CallInv, SessionsMove, Injecting, Holding
<1>4. PageInv'
  BY <1>2 DEF AuthInv, CallInv, PageInv, SessionsMove, Injecting, Holding
<1> QED
  BY <1>1, <1>3, <1>4 DEF AuthInv

LEMMA AnswerCall ==
    ASSUME NEW answer \in {"none", "not_found", "bad_request", "cookies", "server_error", "gone", "timeout", "ok"}
    PROVE  LET call == [NoCall EXCEPT !.pc = "done", !.answer = answer] IN call \in CallRecords /\ call.pc = "done"
BY DEF NoCall, CallRecords, Injecting, Holding

LEMMA NewCallRecord ==
    ASSUME AuthTypes, NEW s \in AuthSessions, NEW pc \in {"lock", "polling"}
    PROVE  LET call == [NoCall EXCEPT !.pc = pc, !.session = s, !.start = now]
           IN call \in CallRecords /\ call.pc = pc /\ call.session = s
BY DEF NoCall, CallRecords, Injecting, Holding, AuthTypes
\* The holder of the lock goes on: to pc, or it has answered and lets go.
LEMMA HolderStep ==
    ASSUME AuthInv, UNCHANGED <<now, auth, relay>>, NEW c \in AuthClients, NEW call \in CallRecords,
           calls[c].pc \in Holding, calls' = [calls EXCEPT ![c] = call],
           call.pc \in Holding \cup {"done"}, call.session = calls[c].session \/ call.pc = "done",
           requestLock' = c \/ call.pc = "done",
           browser' \in BrowserRecords,
           call.pc \in {"target", "answering"} /\ call.cleared => browser'.jar \cap SameDomain(call.session) \subseteq {call.session},
           call.pc = "answering" /\ call.arrived => browser'.page = <<call.session, "target">>
    PROVE  AuthInv'
<1>1. AuthTypes' /\ InTime'
  BY DEF AuthInv, AuthTypes, SessionTypes, CallTypes, RelayTypes, InTime
<1>2. calls'[c] = call /\ \A d \in AuthClients \ {c} : calls'[d] = calls[d] /\ calls'[d].pc \notin Holding
  BY DEF AuthInv, AuthTypes, CallTypes, CallInv
<1>3. CallInv'
  BY <1>2 DEF AuthInv, CallInv, Settled, Injecting, Holding
<1>4. PageInv'
  BY <1>2 DEF PageInv, Holding
<1> QED
  BY <1>1, <1>3, <1>4 DEF AuthInv

LEMMA AuthInitInv == AuthInit => AuthInv
BY DEF AuthInit, AuthInv, AuthTypes, SessionTypes, AuthRecords, RelayTypes, RelayRecords, CallTypes, CallRecords, NoCall,
       BrowserRecords, Pages, InTime, CallInv, PageInv, Injecting, Holding

LEMMA TickKeepsAuthInv == AuthInv /\ Tick => AuthInv'
<1> SUFFICES ASSUME AuthInv, Tick PROVE AuthInv'
  OBVIOUS
<1>1. AuthTypes' /\ InTime' /\ now' = now + 1 /\ now \in Nat
  BY DEF AuthInv, AuthTypes, SessionTypes, RelayTypes, CallTypes, InTime, Tick
<1>2. \A s \in AuthSessions : Settled(s) => Settled(s)'
  BY <1>1 DEF Settled, Tick, AuthInv, AuthTypes, SessionTypes, AuthRecords
<1>3. CallInv' /\ PageInv'
  BY <1>2 DEF AuthInv, CallInv, PageInv, Tick
<1> QED
  BY <1>1, <1>3 DEF AuthInv

\* The sessions' own requests, and the relay page.
LEMMA SessionsKeepAuthInv ==
    ASSUME AuthInv, NEW s \in AuthSessions,
           \/ \E ttl \in Lifetimes : AuthRequest(s, ttl)
           \/ AuthStatus(s) \/ OpenRelay(s)
           \/ \E cookies \in Nat : SubmitCookies(s, cookies)
    PROVE  AuthInv'
<1>1. AuthTypes /\ InTime /\ now' = now /\ UNCHANGED <<calls, requestLock, browser>>
  BY DEF AuthInv, AuthRequest, AuthStatus, OpenRelay, SubmitCookies
<1>2. SessionsMove
  BY <1>1, LookupMoves, CreateMoves, CompleteMoves DEF AuthRequest, AuthStatus, OpenRelay, SubmitCookies
<1>3. RelayTypes'
  BY <1>1 DEF AuthTypes, RelayTypes, RelayRecords, AuthRequest, AuthStatus, OpenRelay, SubmitCookies
<1> QED
  BY <1>1, <1>2, <1>3, SessionStep

LEMMA RelayGoesOn ==
    ASSUME AuthInv, relay.pc # "closed", NEW pc \in {"ready", "done", "error"}, RelayGoes(pc)
    PROVE  RelayTypes' /\ now' = now /\ UNCHANGED <<calls, requestLock, browser>>
BY DEF AuthInv, AuthTypes, RelayTypes, RelayRecords, RelayGoes

LEMMA RelayKeepsAuthInv ==
    ASSUME AuthInv, RelayChecks \/ RelaySent \/ \E cookies \in 0 .. Submissions : RelayCaptures(cookies)
    PROVE  AuthInv'
<1>1. AuthTypes /\ InTime
  BY DEF AuthInv
<1>2. CASE RelayChecks
  <2>1. relay.pc # "closed" /\ relay.session \in AuthSessions /\ auth' = GetSession(relay.session)
    BY <1>1, <1>2 DEF RelayChecks, AuthTypes, RelayTypes
  <2>2. \E pc \in {"ready", "done", "error"} : RelayGoes(pc)
    BY <1>2 DEF RelayChecks
  <2> QED
    BY <1>1, <2>1, <2>2, RelayGoesOn, LookupMoves, SessionStep
<1>3. CASE RelaySent
  <2>1. relay.pc # "closed" /\ relay.session \in AuthSessions /\ relay.cookies \in Nat
    BY <1>1, <1>3 DEF RelaySent, AuthTypes, RelayTypes, RelayRecords
  <2>2. \E pc \in {"ready", "done", "error"} : RelayGoes(pc)
    BY <1>3 DEF RelaySent
  <2>3. RelayTypes' /\ now' = now /\ UNCHANGED <<calls, requestLock, browser>>
    BY <2>1, <2>2, RelayGoesOn, <1>3 DEF RelaySent
  <2>4. SessionsMove
    <3>1. CASE auth' = auth
      BY <3>1, <1>1, <2>3 DEF AuthTypes, SessionTypes, InTime, Settled, SessionsMove
    <3>2. CASE auth' = CompleteSession(relay.session, relay.cookies)
      BY <3>2, <1>1, <2>1, <2>3, CompleteMoves
    <3> QED
      BY <3>1, <3>2, <1>3 DEF RelaySent
  <2> QED
    BY <2>3, <2>4, SessionStep
<1>4. CASE \E cookies \in 0 .. Submissions : RelayCaptures(cookies)
  <2>1. PICK cookies \in Nat : RelayCaptures(cookies)
    BY <1>4, AuthAssumption
  <2>2. RelayTypes' /\ UNCHANGED <<now, auth, calls, requestLock, browser>>
    BY <1>1, <2>1 DEF RelayCaptures, AuthTypes, RelayTypes, RelayRecords
  <2>3. SessionsMove
    BY <1>1, <2>2 DEF AuthTypes, SessionTypes, InTime, Settled, SessionsMove
  <2> QED
    BY <2>2, <2>3, SessionStep
<1> QED
  BY <1>2, <1>3, <1>4

\* The handlers up to the lock.
LEMMA HandlersKeepAuthInv ==
    ASSUME AuthInv, NEW c \in AuthClients, NEW s \in AuthSessions,
           AuthInject(c, s) \/ InjectWithBrowser(c, s) \/ PollAndInject(c, s)
    PROVE  AuthInv'
<1>1. AuthTypes /\ InTime /\ now' = now /\ UNCHANGED <<relay, requestLock, browser>> /\ auth' = GetSession(s)
  BY DEF AuthInv, AuthInject, InjectWithBrowser, PollAndInject
<1>2. SessionsMove /\ (auth'[s].status = "completed" => Settled(s)')
  BY <1>1, LookupMoves
<1>3. CASE \E answer \in {"not_found", "bad_request", "cookies"} : Answers(c, answer)
  <2>1. PICK answer \in {"not_found", "bad_request", "cookies"} : Answers(c, answer)
    BY <1>3
  <2> DEFINE call == [NoCall EXCEPT !.pc = "done", !.answer = answer]
  <2>2. call \in CallRecords /\ call.pc = "done"
    BY AnswerCall
  <2>3. calls' = [calls EXCEPT ![c] = call]
    BY <2>1 DEF Answers, Calls
  <2> HIDE DEF call
  <2> QED
    BY <1>1, <1>2, <2>2, <2>3, CallStep DEF Injecting, Holding
<1>4. CASE \E pc \in {"lock", "polling"} : NewCall(c, s, pc) /\ (pc = "lock" => auth'[s].status = "completed")
  <2>1. PICK pc \in {"lock", "polling"} : NewCall(c, s, pc) /\ (pc = "lock" => auth'[s].status = "completed")
    BY <1>4
  <2> DEFINE call == [NoCall EXCEPT !.pc = pc, !.session = s, !.start = now]
  <2>2. call \in CallRecords /\ call.pc = pc /\ call.session = s
    BY <1>1, NewCallRecord
  <2>3. calls' = [calls EXCEPT ![c] = call]
    BY <2>1 DEF NewCall, Calls
  <2> HIDE DEF call
  <2> QED
    BY <1>1, <1>2, <2>1, <2>2, <2>3, CallStep DEF Injecting, Holding
<1> QED
  BY <1>3, <1>4 DEF AuthInject, InjectWithBrowser, PollAndInject

LEMMA GoesRecord ==
    ASSUME AuthTypes, NEW c \in AuthClients, NEW pc \in Injecting, Goes(c, pc)
    PROVE  LET call == [calls[c] EXCEPT !.pc = pc, !.start = 0]
           IN /\ call \in CallRecords /\ call.pc = pc /\ call.session = calls[c].session
              /\ calls' = [calls EXCEPT ![c] = call]
BY DEF AuthTypes, CallTypes, CallRecords, Goes

LEMMA PollKeepsAuthInv ==
    ASSUME AuthInv, NEW c \in AuthClients, PollAgain(c)
    PROVE  AuthInv'
<1> PICK s \in AuthSessions : s = calls[c].session
  BY DEF AuthInv, CallInv, PollAgain
<1>1. /\ AuthTypes /\ InTime /\ now' = now /\ UNCHANGED <<relay, requestLock, browser>>
      /\ auth' = GetSession(s) /\ PollLoop(c, s, auth'[s], auth[s].listed)
  BY DEF AuthInv, CallInv, PollAgain
<1>2. SessionsMove /\ (auth'[s].status = "completed" => Settled(s)')
  BY <1>1, LookupMoves
<1>3. \/ \E answer \in {"server_error", "gone", "timeout"} : Answers(c, answer)
      \/ auth'[s].status = "completed" /\ Goes(c, "lock")
      \/ UNCHANGED calls
  BY <1>1 DEF PollLoop
<1>4. CASE \E answer \in {"server_error", "gone", "timeout"} : Answers(c, answer)
  <2>1. PICK answer \in {"server_error", "gone", "timeout"} : Answers(c, answer)
    BY <1>4
  <2> DEFINE call == [NoCall EXCEPT !.pc = "done", !.answer = answer]
  <2>2. call \in CallRecords /\ call.pc = "done"
    BY AnswerCall
  <2>3. calls' = [calls EXCEPT ![c] = call]
    BY <2>1 DEF Answers, Calls
  <2> HIDE DEF call
  <2> QED
    BY <1>1, <1>2, <2>2, <2>3, CallStep DEF Injecting, Holding
<1>5. CASE auth'[s].status = "completed" /\ Goes(c, "lock")
  <2>1. PICK call \in CallRecords : call.pc = "lock" /\ call.session = s /\ calls' = [calls EXCEPT ![c] = call]
    <3> DEFINE call == [calls[c] EXCEPT !.pc = "lock", !.start = 0]
    <3>1. call \in CallRecords /\ call.pc = "lock" /\ call.session = s /\ calls' = [calls EXCEPT ![c] = call]
      BY <1>1, <1>5, GoesRecord DEF Injecting
    <3> HIDE DEF call
    <3> QED
      BY <3>1
  <2> QED
    BY <1>1, <1>2, <1>5, <2>1, CallStep DEF Injecting, Holding
<1>6. CASE UNCHANGED calls
  BY <1>1, <1>2, <1>6, SessionStep DEF AuthTypes, RelayTypes
<1> QED
  BY <1>3, <1>4, <1>5, <1>6

\* The lock is free, so nobody holds it.
LEMMA LockKeepsAuthInv ==
    ASSUME AuthInv, NEW c \in AuthClients, TakeLock(c)
    PROVE  AuthInv'
<1> DEFINE call == [calls[c] EXCEPT !.pc = "domain", !.start = 0]
<1>1. call \in CallRecords /\ call.pc = "domain" /\ call.session = calls[c].session /\ calls' = [calls EXCEPT ![c] = call]
  BY GoesRecord DEF AuthInv, TakeLock, Injecting, Holding
<1> HIDE DEF call
<1>2. /\ UNCHANGED <<now, auth, relay, browser>> /\ requestLock' = c /\ calls[c].pc = "lock"
      /\ \A d \in AuthClients : calls[d].pc \notin Holding
  BY AuthAssumption DEF TakeLock, AuthInv, CallInv
<1>3. AuthTypes' /\ InTime'
  BY <1>1, <1>2 DEF AuthInv, AuthTypes, SessionTypes, RelayTypes, CallTypes, InTime
<1>4. calls'[c] = call /\ \A d \in AuthClients \ {c} : calls'[d] = calls[d]
  BY <1>1 DEF AuthInv, AuthTypes, CallTypes
<1>5. CallInv'
  BY <1>1, <1>2, <1>4 DEF AuthInv, CallInv, Settled, Injecting
<1>6. PageInv'
  BY <1>1, <1>2, <1>4 DEF PageInv, Holding
<1> QED
  BY <1>3, <1>5, <1>6 DEF AuthInv

\* What the holder of the lock does to the browser is its own session's.
LEMMA InjectionKeepsAuthInv ==
    ASSUME AuthInv, NEW c \in AuthClients,
           NavigateToDomain(c) \/ ReplaceCookies(c) \/ NavigateToTarget(c) \/ AnswerInjected(c) \/ BreaksOff(c)
    PROVE  AuthInv'
<1> DEFINE s == calls[c].session
<1>1. /\ AuthTypes /\ UNCHANGED <<now, auth, relay>> /\ calls[c].pc \in Holding
      /\ s \in AuthSessions /\ requestLock = c /\ auth[s].cookies \in Nat
  BY DEF AuthInv, AuthTypes, SessionTypes, AuthRecords, CallInv, Injecting, Holding,
         NavigateToDomain, ReplaceCookies, NavigateToTarget, AnswerInjected, BreaksOff
<1>2. CASE NavigateToDomain(c)
  <2> DEFINE call == [calls[c] EXCEPT !.pc = "cookies", !.start = 0]
  <2>1. call \in CallRecords /\ call.pc = "cookies" /\ call.session = s /\ calls' = [calls EXCEPT ![c] = call]
    BY <1>1, <1>2, GoesRecord DEF NavigateToDomain, Injecting, Holding
  <2> HIDE DEF call
  <2>2. browser' \in BrowserRecords /\ requestLock' = c
    BY <1>1, <1>2 DEF NavigateToDomain, AuthTypes, BrowserRecords, Pages
  <2> QED
    BY <1>1, <2>1, <2>2, HolderStep DEF Holding
<1>21. ASSUME InjectionFails(c), browser' \in BrowserRecords PROVE AuthInv'
  <2> DEFINE call == [NoCall EXCEPT !.pc = "done", !.answer = "server_error"]
  <2>1. call \in CallRecords /\ call.pc = "done"
    BY AnswerCall
  <2>2. calls' = [calls EXCEPT ![c] = call]
    BY <1>21 DEF InjectionFails, Answers, Calls
  <2> HIDE DEF call
  <2> QED
    BY <1>1, <1>21, <2>1, <2>2, HolderStep DEF Holding
<1>3. CASE ReplaceCookies(c)
  <2>1. PICK deleted \in {CookiesOf(browser.page), AuthSessions}, set \in SUBSET {t \in {s} : auth[t].cookies # 0} :
            /\ browser' = [browser EXCEPT !.jar = (@ \ deleted) \cup set]
            /\ \/ calls' = [calls EXCEPT ![c].pc = "target", ![c].cleared = SameDomain(s) \subseteq deleted]
                  /\ UNCHANGED requestLock
               \/ InjectionFails(c)
    BY <1>3 DEF ReplaceCookies
  <2>2. browser' \in BrowserRecords /\ browser'.jar = (browser.jar \ deleted) \cup set
    BY <1>1, <2>1 DEF AuthTypes, BrowserRecords
  <2>3. CASE InjectionFails(c)
    BY <1>21, <2>2, <2>3
  <2>4. CASE /\ calls' = [calls EXCEPT ![c].pc = "target", ![c].cleared = SameDomain(s) \subseteq deleted]
             /\ UNCHANGED requestLock
    <3> DEFINE cleared == SameDomain(s) \subseteq deleted
               call == [calls[c] EXCEPT !.pc = "target", !.cleared = cleared]
    <3>1. cleared \in BOOLEAN
      OBVIOUS
    <3>2. calls' = [calls EXCEPT ![c] = call]
      BY <1>1, <2>4 DEF AuthTypes, CallTypes
    <3>3. call \in CallRecords /\ call.pc = "target" /\ call.session = s /\ call.cleared = cleared
      <4> HIDE DEF cleared
      <4> QED
        BY <1>1, <3>1 DEF AuthTypes, CallTypes, CallRecords, Injecting, Holding
    <3>4. cleared => browser'.jar \cap SameDomain(s) \subseteq {s}
      BY <2>2
    <3> HIDE DEF cleared, call
    <3> QED
      BY <1>1, <2>2, <2>4, <3>2, <3>3, <3>4, HolderStep DEF Holding
  <2> QED
    BY <2>1, <2>3, <2>4
<1>4. CASE NavigateToTarget(c)
  <2>1. PICK arrives \in BOOLEAN :
          /\ calls' = [calls EXCEPT ![c].pc = "answering", ![c].arrived = arrives]
          /\ browser' = IF arrives THEN [browser EXCEPT !.page = <<s, "target">>] ELSE browser
    BY <1>4 DEF NavigateToTarget
  <2> DEFINE call == [calls[c] EXCEPT !.pc = "answering", !.arrived = arrives]
  <2>2. /\ call \in CallRecords /\ call.pc = "answering" /\ call.session = s /\ call.arrived = arrives
        /\ calls' = [calls EXCEPT ![c] = call]
    BY <1>1, <2>1 DEF AuthTypes, CallTypes, CallRecords, Injecting, Holding
  <2> HIDE DEF call
  <2>3. /\ browser' \in BrowserRecords /\ requestLock' = c /\ browser'.jar = browser.jar /\ call.cleared = calls[c].cleared
        /\ arrives => browser'.page = <<s, "target">>
    BY <1>1, <1>4, <2>1 DEF NavigateToTarget, AuthTypes, CallTypes, CallRecords, BrowserRecords, Pages, call
  <2>4. calls[c].cleared => browser.jar \cap SameDomain(s) \subseteq {s}
    BY <1>4 DEF NavigateToTarget, AuthInv, PageInv
  <2> QED
    BY <1>1, <2>2, <2>3, <2>4, HolderStep DEF Holding
<1>5. CASE AnswerInjected(c)
  <2> DEFINE call == [NoCall EXCEPT !.pc = "done", !.answer = "ok"]
  <2>1. call \in CallRecords /\ call.pc = "done"
    BY AnswerCall
  <2>2. calls' = [calls EXCEPT ![c] = call] /\ browser' = browser
    BY <1>5 DEF AnswerInjected, Answers, Calls
  <2> HIDE DEF call
  <2> QED
    BY <1>1, <2>1, <2>2, HolderStep DEF AuthTypes, Holding
<1>6. CASE BreaksOff(c)
  BY <1>1, <1>6, <1>21 DEF BreaksOff, AuthTypes
<1> QED
  BY <1>2, <1>3, <1>4, <1>5, <1>6

\* Nobody holds the lock.
LEMMA OthersKeepAuthInv == AuthInv /\ OtherRequest => AuthInv'
<1> SUFFICES ASSUME AuthInv, OtherRequest PROVE AuthInv'
  OBVIOUS
<1>1. UNCHANGED <<now, auth, relay, calls, requestLock>> /\ \A c \in AuthClients : calls[c].pc \notin Holding
  BY AuthAssumption DEF OtherRequest, AuthInv, CallInv
<1>2. AuthTypes' /\ InTime'
  BY <1>1 DEF OtherRequest, AuthInv, AuthTypes, SessionTypes, RelayTypes, CallTypes, InTime, BrowserRecords, Pages
<1>3. CallInv' /\ PageInv'
  BY <1>1 DEF AuthInv, CallInv, PageInv, Settled, Holding
<1> QED
  BY <1>2, <1>3 DEF AuthInv

LEMMA AuthInvHolds == AuthSpec => []AuthInv
<1>1. ASSUME AuthInv, [AuthNext]_authVars PROVE AuthInv'
  <2>1. CASE AuthNext
    BY <1>1, <2>1, TickKeepsAuthInv, SessionsKeepAuthInv, RelayKeepsAuthInv, HandlersKeepAuthInv, PollKeepsAuthInv,
       LockKeepsAuthInv, InjectionKeepsAuthInv, OthersKeepAuthInv, AuthAssumption DEF AuthNext
  <2>2. CASE UNCHANGED authVars
    BY <1>1, <2>2 DEF authVars, AuthInv, AuthTypes, SessionTypes, RelayTypes, CallTypes, InTime, CallInv, PageInv, Settled
  <2> QED
    BY <1>1, <2>1, <2>2
<1> QED
  BY AuthInitInv, <1>1, PTL DEF AuthSpec

\* When an injection is answered, the browser has no cookies of another session
\* for that domain, if it could be brought there, and is on the target, if that
\* could be reached: injections do not mix, for any number of calls.
THEOREM InjectionsDoNotMix == AuthSpec => []InjectsItsSession
<1>1. AuthInv => InjectsItsSession
  BY DEF AuthInv, InTime, CallInv, PageInv, Injecting, Holding, InjectsItsSession
<1> QED
  BY AuthInvHolds, <1>1, PTL

-----------------------------------------------------------------------------
(* OAuthCodes.  Whoever is told of a success, or is about to be, was given  *)
(* a token or an answer without one; and only such an answer takes a token *)
(* away.  A handler that exchanges a code is not a poll, so a poll that     *)
(* ends has looked at its session's token at that very moment.             *)

Statuses == {"none", "pending", "expired", "token_acquired", "error"}
Pcs == {"idle", "exchange", "cloud_id", "polling", "done"}
Kinds == {"none", "callback", "submit", "poll"}
ReplyKinds == {"none", "ok", "server_error", "gone", "timeout"}

OAuthRecords == [status : Statuses, expires : Nat, token : Codes \cup {"none"}]

HandlerRecords ==
    [pc : Pcs, kind : Kinds, session : OAuthSessions \cup {"none"}, start : Nat,
     code : Codes \cup {"none"}, answer : ReplyKinds]

OAuthTypes ==
    /\ clock \in Nat
    /\ oauth \in [OAuthSessions -> OAuthRecords]
    /\ tokenless \in SUBSET OAuthSessions
    /\ handlers \in [OAuthClients -> HandlerRecords]

\* Exchanges and polls are different calls; a poll that waits has a session.
KindInv ==
    \A c \in OAuthClients :
      /\ handlers[c].pc \in {"exchange", "cloud_id"} => handlers[c].kind # "poll"
      /\ handlers[c].pc = "polling" => handlers[c].kind = "poll"
      /\ handlers[c].pc \in {"exchange", "polling"} => handlers[c].session \in OAuthSessions
      /\ handlers[c].pc = "exchange" => handlers[c].code \in Codes

Granted(h) == h.kind \in {"callback", "submit"} /\ (h.pc = "cloud_id" \/ h.answer = "ok")
HasToken(s) == s \in tokenless \/ oauth[s].token # "none"
GrantedOK(c) == Granted(handlers[c]) => handlers[c].session \in OAuthSessions /\ HasToken(handlers[c].session)
TokenInv == \A c \in OAuthClients : GrantedOK(c)

OAuthInv == OAuthTypes /\ KindInv /\ TokenInv

\* A poll that ends looks at its session's token.
PollSeesToken(c) ==
    handlers'[c].kind = "poll" /\ handlers'[c].answer # handlers[c].answer /\ oauth[handlers'[c].session].token # "none"
        => handlers'[c].answer = "ok"

\* Tokens stay, but for an answer without one.
TokensStay == \A s \in OAuthSessions : HasToken(s) => HasToken(s)'

USE DEF Statuses, Pcs, Kinds, ReplyKinds

\* A session that is looked up may expire; its token stays.
LEMMA LookupKeepsToken ==
    ASSUME OAuthTypes, NEW s \in OAuthSessions
    PROVE  /\ GetOauthSession(s) \in [OAuthSessions -> OAuthRecords]
           /\ \A t \in OAuthSessions : GetOauthSession(s)[t].token = oauth[t].token
BY DEF OAuthTypes, OAuthRecords, GetOauthSession

\* One handler's record changes.
LEMMA HandlerTypes ==
    ASSUME OAuthTypes, NEW c \in OAuthClients, NEW h \in HandlerRecords, Handles(c, h)
    PROVE  /\ handlers' \in [OAuthClients -> HandlerRecords]
           /\ handlers'[c] = h
           /\ \A d \in OAuthClients \ {c} : handlers'[d] = handlers[d]
BY DEF OAuthTypes, Handles

\* A handler replies.
LEMMA ReplyTypes ==
    ASSUME OAuthTypes, NEW c \in OAuthClients, NEW answer \in ReplyKinds, Replies(c, answer)
    PROVE  /\ handlers' \in [OAuthClients -> HandlerRecords]
           /\ handlers'[c].pc = "done" /\ handlers'[c].answer = answer
           /\ handlers'[c].kind = handlers[c].kind /\ handlers'[c].session = handlers[c].session
           /\ \A d \in OAuthClients \ {c} : handlers'[d] = handlers[d]
BY DEF OAuthTypes, Replies, HandlerRecords

LEMMA ReplyAtOnceTypes ==
    ASSUME OAuthTypes, NEW c \in OAuthClients, NEW s \in OAuthSessions, NEW kind \in Kinds,
           NEW answer \in ReplyKinds, RepliesAtOnce(c, s, kind, answer)
    PROVE  /\ handlers' \in [OAuthClients -> HandlerRecords]
           /\ handlers'[c].pc = "done" /\ handlers'[c].answer = answer
           /\ handlers'[c].kind = kind /\ handlers'[c].session = s
           /\ \A d \in OAuthClients \ {c} : handlers'[d] = handlers[d]
<1> DEFINE h == [NoHandler EXCEPT !.pc = "done", !.kind = kind, !.session = s, !.answer = answer]
<1>1. h \in HandlerRecords /\ h.pc = "done" /\ h.answer = answer /\ h.kind = kind /\ h.session = s
  BY DEF HandlerRecords, NoHandler
<1>2. Handles(c, h)
  BY DEF RepliesAtOnce
<1> HIDE DEF h
<1> QED
  BY <1>1, <1>2, HandlerTypes

LEMMA ExchangeTypes ==
    ASSUME OAuthTypes, NEW c \in OAuthClients, NEW s \in OAuthSessions, NEW kind \in Kinds,
           NEW code \in Codes, Exchanges(c, s, kind, code)
    PROVE  /\ handlers' \in [OAuthClients -> HandlerRecords]
           /\ handlers'[c].pc = "exchange" /\ handlers'[c].kind = kind
           /\ handlers'[c].session = s /\ handlers'[c].code = code
           /\ \A d \in OAuthClients \ {c} : handlers'[d] = handlers[d]
<1> DEFINE h == [NoHandler EXCEPT !.pc = "exchange", !.kind = kind, !.session = s, !.code = code]
<1>1. /\ h \in HandlerRecords /\ h.pc = "exchange" /\ h.kind = kind /\ h.session = s /\ h.code = code
  BY DEF HandlerRecords, NoHandler
<1>2. Handles(c, h)
  BY DEF Exchanges
<1> HIDE DEF h
<1> QED
  BY <1>1, <1>2, HandlerTypes

-----------------------------------------------------------------------------
\* What a step of a handler does to the invariant and to the answer of a poll.
StepOK(c) ==
    /\ OAuthTypes' /\ KindInv'
    /\ PollSeesToken(c)
    /\ TokensStay /\ GrantedOK(c)'
    /\ \A d \in OAuthClients \ {c} : handlers'[d] = handlers[d]

LEMMA ExchangingIsOK ==
    ASSUME OAuthInv, NEW c \in OAuthClients, NEW s \in OAuthSessions, NEW code \in Codes,
           Callback(c, s, code) \/ SubmitCode(c, s, code)
    PROVE  StepOK(c)
<1> USE DEF OAuthInv, StepOK, GrantedOK
<1>1. clock' = clock /\ oauth' \in [OAuthSessions -> OAuthRecords] /\ tokenless' = tokenless /\ TokensStay
  BY LookupKeepsToken DEF Callback, SubmitCode, OAuthTypes, TokensStay, HasToken
<1>2. CASE \E kind \in {"callback", "submit"} : Exchanges(c, s, kind, code)
  <2>1. PICK kind \in {"callback", "submit"} : Exchanges(c, s, kind, code)
    BY <1>2
  <2>2. /\ handlers' \in [OAuthClients -> HandlerRecords]
        /\ handlers'[c].pc = "exchange" /\ handlers'[c].kind = kind
        /\ handlers'[c].session = s /\ handlers'[c].code = code
        /\ \A d \in OAuthClients \ {c} : handlers'[d] = handlers[d]
    BY <2>1, ExchangeTypes
  <2>3. ~Granted(handlers'[c])
    BY <2>1, <2>2 DEF Exchanges, Handles, NoHandler, Granted, OAuthTypes
  <2> QED
    BY <1>1, <2>2, <2>3 DEF OAuthTypes, KindInv, PollSeesToken
<1>3. CASE oauth[s].token # "none" /\ RepliesAtOnce(c, s, "submit", "ok")
  <2>1. /\ handlers' \in [OAuthClients -> HandlerRecords]
        /\ handlers'[c].pc = "done" /\ handlers'[c].kind = "submit" /\ handlers'[c].session = s
        /\ \A d \in OAuthClients \ {c} : handlers'[d] = handlers[d]
    BY <1>3, ReplyAtOnceTypes
  <2> QED
    BY <1>1, <1>3, <2>1 DEF OAuthTypes, KindInv, PollSeesToken, TokensStay, HasToken
<1> QED
  BY <1>2, <1>3 DEF Callback, SubmitCode

\* A handler that goes on to the cloud id, or replies, keeps its kind and session.
LEMMA ExchangeIsOK ==
    ASSUME OAuthInv, NEW c \in OAuthClients, ExchangeCode(c)
    PROVE  StepOK(c)
<1> USE DEF OAuthInv, StepOK, GrantedOK
<1> DEFINE s == handlers[c].session
           code == handlers[c].code
<1>1. /\ handlers[c].pc = "exchange" /\ clock' = clock /\ handlers[c].kind # "poll"
      /\ s \in OAuthSessions /\ code \in Codes
  BY DEF ExchangeCode, KindInv
<1>2. PICK token \in {"none"} \cup ({code} \ redeemed) :
        /\ tokenless' = IF token = "none" THEN tokenless \cup {s} ELSE tokenless
        /\ \/ /\ oauth' = [oauth EXCEPT ![s].status = "token_acquired", ![s].token = token]
              /\ handlers' = [handlers EXCEPT ![c].pc = "cloud_id"]
           \/ oauth' = [oauth EXCEPT ![s].status = "error", ![s].token = token] /\ Replies(c, "server_error")
  BY DEF ExchangeCode
<1>3. token \in Codes \cup {"none"}
  BY <1>1
<1>4. PICK status \in Statuses : oauth' = [oauth EXCEPT ![s].status = status, ![s].token = token]
  BY <1>2
<1>5. /\ oauth' \in [OAuthSessions -> OAuthRecords] /\ oauth'[s].token = token
      /\ \A t \in OAuthSessions \ {s} : oauth'[t] = oauth[t]
  <2> DEFINE new == [oauth[s] EXCEPT !.status = status, !.token = token]
  <2>1. new \in OAuthRecords /\ new.token = token
    BY <1>1, <1>3 DEF OAuthTypes, OAuthRecords
  <2>2. oauth' = [oauth EXCEPT ![s] = new]
    BY <1>1, <1>4 DEF OAuthTypes
  <2> HIDE DEF new
  <2> QED
    BY <1>1, <2>1, <2>2 DEF OAuthTypes
<1>6. tokenless' \in SUBSET OAuthSessions /\ TokensStay /\ (s \in tokenless' \/ oauth'[s].token # "none")
  <2>1. tokenless' \in SUBSET OAuthSessions /\ tokenless \subseteq tokenless' /\ (s \in tokenless' \/ oauth'[s].token # "none")
    BY <1>1, <1>2, <1>5 DEF OAuthTypes
  <2> HIDE DEF s
  <2>2. ASSUME NEW t \in OAuthSessions, HasToken(t) PROVE HasToken(t)'
    BY <1>5, <2>1, <2>2 DEF HasToken
  <2> QED
    BY <2>1, <2>2 DEF TokensStay
<1>7. CASE handlers' = [handlers EXCEPT ![c].pc = "cloud_id"]
  <2>1. /\ handlers' \in [OAuthClients -> HandlerRecords]
        /\ handlers'[c].pc = "cloud_id" /\ handlers'[c].kind = handlers[c].kind /\ handlers'[c].session = s
        /\ \A d \in OAuthClients \ {c} : handlers'[d] = handlers[d]
    BY <1>7 DEF OAuthTypes, HandlerRecords
  <2> QED
    BY <1>1, <1>5, <1>6, <2>1 DEF OAuthTypes, KindInv, PollSeesToken, HasToken
<1>8. CASE Replies(c, "server_error")
  <2>1. /\ handlers' \in [OAuthClients -> HandlerRecords]
        /\ handlers'[c].pc = "done" /\ handlers'[c].kind = handlers[c].kind /\ handlers'[c].session = s
        /\ \A d \in OAuthClients \ {c} : handlers'[d] = handlers[d]
    BY <1>8, ReplyTypes
  <2> QED
    BY <1>1, <1>5, <1>6, <2>1 DEF OAuthTypes, KindInv, PollSeesToken, HasToken
<1> QED
  BY <1>2, <1>7, <1>8

LEMMA FailureIsOK ==
    ASSUME OAuthInv, NEW c \in OAuthClients, ExchangeFails(c)
    PROVE  StepOK(c)
<1> USE DEF OAuthInv, StepOK, GrantedOK
<1> DEFINE s == handlers[c].session
<1>1. /\ handlers[c].pc = "exchange" /\ UNCHANGED <<clock, tokenless>> /\ handlers[c].kind # "poll" /\ s \in OAuthSessions
      /\ oauth' = [oauth EXCEPT ![s].status = "error"]
  BY DEF ExchangeFails, Failed, KindInv
<1>2. oauth' \in [OAuthSessions -> OAuthRecords] /\ \A t \in OAuthSessions : oauth'[t].token = oauth[t].token
  BY <1>1 DEF OAuthTypes, OAuthRecords
<1>3. TokensStay
  BY <1>1, <1>2 DEF TokensStay, HasToken
<1>4. /\ handlers' \in [OAuthClients -> HandlerRecords]
      /\ handlers'[c].pc = "done" /\ handlers'[c].kind = handlers[c].kind /\ handlers'[c].answer = "server_error"
      /\ \A d \in OAuthClients \ {c} : handlers'[d] = handlers[d]
  BY ReplyTypes DEF ExchangeFails
<1> QED
  BY <1>1, <1>2, <1>3, <1>4 DEF OAuthTypes, KindInv, PollSeesToken, Granted

LEMMA FetchIsOK ==
    ASSUME OAuthInv, NEW c \in OAuthClients, FetchCloudId(c)
    PROVE  StepOK(c)
<1> USE DEF OAuthInv, StepOK, GrantedOK
<1>1. /\ handlers' \in [OAuthClients -> HandlerRecords]
      /\ handlers'[c].pc = "done" /\ handlers'[c].kind = handlers[c].kind /\ handlers'[c].session = handlers[c].session
      /\ \A d \in OAuthClients \ {c} : handlers'[d] = handlers[d]
  BY ReplyTypes DEF FetchCloudId
<1>2. handlers[c].kind # "poll" /\ handlers[c].pc = "cloud_id" /\ UNCHANGED <<clock, oauth, tokenless>>
  BY DEF FetchCloudId, KindInv
<1> QED
  BY <1>1, <1>2 DEF OAuthTypes, KindInv, PollSeesToken, TokenInv, TokensStay, HasToken, Granted

\* The result of a session that is not waited for any more.
LEMMA ResultWithToken ==
    ASSUME NEW session
    PROVE  /\ OauthResult(session) \in {"ok", "server_error", "gone"}
           /\ session.token # "none" => OauthResult(session) = "ok"
BY DEF OauthResult

LEMMA PollIsOK ==
    ASSUME OAuthInv, NEW c \in OAuthClients, NEW s \in OAuthSessions, OauthPoll(c, s)
    PROVE  StepOK(c)
<1> USE DEF OAuthInv, StepOK, GrantedOK
<1>1. /\ clock' = clock /\ oauth' \in [OAuthSessions -> OAuthRecords]
      /\ \A t \in OAuthSessions : oauth'[t].token = oauth[t].token
      /\ tokenless' = tokenless /\ TokensStay
  BY LookupKeepsToken DEF OauthPoll, TokensStay, HasToken
<1> DEFINE h == [NoHandler EXCEPT !.pc = "polling", !.kind = "poll", !.session = s, !.start = clock]
<1>2. CASE OauthWaits(oauth'[s]) /\ Handles(c, h)
  <2>1. h \in HandlerRecords /\ h.pc = "polling" /\ h.session = s /\ h.kind = "poll"
    BY DEF HandlerRecords, NoHandler, OAuthTypes
  <2> HIDE DEF h
  <2>2. /\ handlers' \in [OAuthClients -> HandlerRecords] /\ handlers'[c] = h
        /\ \A d \in OAuthClients \ {c} : handlers'[d] = handlers[d]
    BY <1>2, <2>1, HandlerTypes
  <2>3. oauth[s].token = "none"
    BY <1>1, <1>2 DEF OauthWaits
  <2> QED
    BY <1>1, <2>1, <2>2, <2>3 DEF OAuthTypes, KindInv, PollSeesToken, Granted
<1>3. CASE RepliesAtOnce(c, s, "poll", OauthResult(oauth'[s]))
  <2>1. OauthResult(oauth'[s]) \in ReplyKinds
        /\ (oauth[s].token # "none" => OauthResult(oauth'[s]) = "ok")
    BY <1>1, ResultWithToken
  <2>2. /\ handlers' \in [OAuthClients -> HandlerRecords]
        /\ handlers'[c].pc = "done" /\ handlers'[c].answer = OauthResult(oauth'[s])
        /\ handlers'[c].session = s /\ handlers'[c].kind = "poll"
        /\ \A d \in OAuthClients \ {c} : handlers'[d] = handlers[d]
    BY <1>3, <2>1, ReplyAtOnceTypes
  <2> QED
    BY <1>1, <2>1, <2>2 DEF OAuthTypes, KindInv, PollSeesToken, Granted
<1> QED
  BY <1>2, <1>3 DEF OauthPoll

LEMMA PollAgainIsOK ==
    ASSUME OAuthInv, NEW c \in OAuthClients, OauthPollAgain(c)
    PROVE  StepOK(c)
<1> USE DEF OAuthInv, StepOK, GrantedOK
<1>1. /\ handlers[c].pc = "polling" /\ UNCHANGED <<clock, oauth, tokenless>>
      /\ handlers[c].session \in OAuthSessions /\ handlers[c].kind = "poll"
  BY DEF OauthPollAgain, KindInv
<1>2. PICK answer \in ReplyKinds :
        /\ Replies(c, answer)
        /\ oauth[handlers[c].session].token # "none" => answer = "ok"
  <2>1. CASE /\ ~OauthWaits(oauth[handlers[c].session])
             /\ Replies(c, OauthResult(oauth[handlers[c].session]))
    BY <2>1, ResultWithToken
  <2>2. CASE OauthWaits(oauth[handlers[c].session]) /\ Replies(c, "timeout")
    BY <2>2 DEF OauthWaits
  <2> QED
    BY <2>1, <2>2 DEF OauthPollAgain
<1>3. /\ handlers' \in [OAuthClients -> HandlerRecords]
      /\ handlers'[c].pc = "done" /\ handlers'[c].answer = answer
      /\ handlers'[c].session = handlers[c].session /\ handlers'[c].kind = handlers[c].kind
      /\ \A d \in OAuthClients \ {c} : handlers'[d] = handlers[d]
  BY <1>2, ReplyTypes
<1>4. OAuthTypes' /\ KindInv' /\ TokensStay /\ ~Granted(handlers'[c])
  BY <1>1, <1>3 DEF OAuthTypes, KindInv, TokensStay, HasToken, Granted
<1>5. PollSeesToken(c)
  BY <1>2, <1>3 DEF PollSeesToken
<1> QED
  BY <1>3, <1>4, <1>5

-----------------------------------------------------------------------------
LEMMA EveryStep ==
    ASSUME OAuthInv, [OAuthNext]_oauthVars
    PROVE  OAuthInv' /\ \A c \in OAuthClients : PollSeesToken(c)
<1> USE DEF OAuthInv, GrantedOK
<1>1. ASSUME NEW c \in OAuthClients, StepOK(c)
      PROVE  OAuthInv' /\ \A d \in OAuthClients : PollSeesToken(d)
  <2>1. TokenInv'
    BY <1>1 DEF StepOK, TokenInv, TokensStay, HasToken
  <2> QED
    BY <1>1, <2>1 DEF StepOK, PollSeesToken
<1>2. CASE OAuthTick
  BY <1>2 DEF OAuthTick, OAuthTypes, KindInv, TokenInv, HasToken, PollSeesToken
<1>3. ASSUME NEW s \in OAuthSessions, NEW ttl \in OAuthLifetimes, CreateAuthSession(s, ttl)
      PROVE  OAuthInv' /\ \A c \in OAuthClients : PollSeesToken(c)
  <2>1. oauth[s] \in OAuthRecords /\ clock + ttl \in Nat
    BY LifetimesAreTimes DEF OAuthTypes
  <2>2. [oauth[s] EXCEPT !.status = "pending", !.expires = clock + ttl] \in OAuthRecords
    BY <2>1 DEF OAuthRecords
  <2>3. oauth' = [oauth EXCEPT ![s] = [oauth[s] EXCEPT !.status = "pending", !.expires = clock + ttl]]
    BY <1>3 DEF CreateAuthSession, OAuthTypes
  <2>4. oauth' \in [OAuthSessions -> OAuthRecords] /\ \A t \in OAuthSessions : oauth'[t].token = oauth[t].token
    BY <2>1, <2>2, <2>3 DEF OAuthTypes, OAuthRecords
  <2> QED
    BY <1>3, <2>4 DEF CreateAuthSession, OAuthTypes, KindInv, TokenInv, HasToken, PollSeesToken
<1>4. CASE UNCHANGED oauthVars
  BY <1>4 DEF oauthVars, OAuthTypes, KindInv, TokenInv, HasToken, PollSeesToken
<1> QED
  BY <1>1, <1>2, <1>3, <1>4, ExchangingIsOK, ExchangeIsOK, FailureIsOK, FetchIsOK, PollIsOK, PollAgainIsOK
     DEF OAuthNext

LEMMA OAuthInvHolds == OAuthSpec => []OAuthInv
<1>1. OAuthInit => OAuthInv
  BY DEF OAuthInit, OAuthInv, OAuthTypes, KindInv, TokenInv, GrantedOK, Granted, OAuthRecords, HandlerRecords, NoHandler
<1>2. OAuthInv /\ [OAuthNext]_oauthVars => OAuthInv'
  BY EveryStep
<1> QED
  BY <1>1, <1>2, PTL DEF OAuthSpec

\* Once somebody was told that the sign-in succeeded, polls end with the token,
\* however callbacks, posted codes, failed exchanges and expiry are interleaved,
\* unless the authorization server has answered an exchange without a token.
THEOREM SuccessIsSeen == OAuthSpec => PollsSeeSuccess
<1>1. ASSUME OAuthInv, NEW c \in OAuthClients, PollSeesToken(c) PROVE PollSeesSuccess(c)
  <2>1. SUFFICES ASSUME ToldOfSuccess(handlers'[c].session), handlers'[c].session \notin tokenless
                 PROVE  oauth[handlers'[c].session].token # "none"
    BY <1>1, <2>1 DEF PollSeesToken, PollSeesSuccess
  <2> QED
    BY <1>1, <2>1 DEF OAuthInv, TokenInv, GrantedOK, ToldOfSuccess, Granted, HasToken
<1>2. OAuthInv /\ [OAuthNext]_oauthVars => [\A c \in OAuthClients : PollSeesSuccess(c)]_oauthVars
  BY <1>1, EveryStep
<1> QED
  BY <1>2, OAuthInvHolds, PTL DEF OAuthSpec, PollsSeeSuccess
==============================================================================
