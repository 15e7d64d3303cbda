---------------------------- MODULE ConsoleProofs -----------------------------
(***************************************************************************)
(* Proofs about what users see at their consoles: TurnConsole (one queue   *)
(* of responses, read by every console and adapter), KnowledgeConsole (one *)
(* queue of answers without request numbers) and MetaDebugConsole (debug   *)
(* commands and the reports they match).                                   *)
(***************************************************************************)
EXTENDS TurnConsole, KnowledgeConsole, MetaDebugConsole, SequenceTheorems, FiniteSetTheorems, WellFoundedInduction, TLAPS

-----------------------------------------------------------------------------
(* TurnConsole.  Every response is in one place: in the shared queue, in an *)
(* adapter's own queue, in a console's hands, among those that a session    *)
(* has taken, or among those that are lost.                                 *)

Responses ==
    {r \in [id : Nat, session : Users, named : BOOLEAN, flag : {"none", "TurnCompleted", "PendingInput"}, question : Questions \cup {Idle}] :
       r.flag = "PendingInput" => r.question \in Questions}

UserRecords ==
    [pc : {"line", "polling", "holding", "collecting", "ending", "done"}, held : Responses \cup {NobodysResponse},
     question : Questions \cup {Idle}]

AnswerRecords ==
    [kind : {"text", "choice", "custom", "selections", "selections with custom", "empty"}, choices : SUBSET Nat]

QueueTypes ==
    /\ responses \in Seq(Responses) /\ own \in [MetaRuns -> Seq(Responses)]
    /\ produced \in Nat /\ seen \in [Users -> SUBSET Nat] /\ dropped \subseteq Nat
UserTypes ==
    /\ user \in [Users -> UserRecords]
    /\ \A u \in Users :
         /\ user[u].pc = "holding" => user[u].held \in Responses
         /\ user[u].pc = "collecting" => user[u].question \in Questions
WorkerTypes ==
    inputs \in [Users -> Seq(AnswerRecords)] /\ worker \in [Users -> Questions \cup {Idle, Working}]
TurnTypes == QueueTypes /\ UserTypes /\ WorkerTypes

HasId(q, n) == \E i \in DOMAIN q : q[i].id = n
NoRepeat(q) == \A i, j \in DOMAIN q : q[i].id = q[j].id => i = j
Holds(u, n) == user[u].pc = "holding" /\ user[u].held.id = n

At(n, place) ==
    \/ place = <<"shared", "all">> /\ HasId(responses, n)
    \/ \E u \in MetaRuns : place = <<"own", u>> /\ HasId(own[u], n)
    \/ \E u \in Users : place = <<"held", u>> /\ Holds(u, n)
    \/ \E u \in Users : place = <<"seen", u>> /\ n \in seen[u]
    \/ place = <<"dropped", "all">> /\ n \in dropped

PlaceInv ==
    \A n \in Nat :
      /\ n \in 1 .. produced => \E place : At(n, place)
      /\ \A place : At(n, place) => n \in 1 .. produced
      /\ \A place, other : At(n, place) /\ At(n, other) => place = other
RepeatInv == NoRepeat(responses) /\ \A u \in MetaRuns : NoRepeat(own[u])

LEMMA IdAppended ==
    ASSUME NEW q \in Seq(Responses), NEW r \in Responses
    PROVE  /\ Append(q, r) \in Seq(Responses)
           /\ \A n : HasId(Append(q, r), n) <=> HasId(q, n) \/ n = r.id
           /\ NoRepeat(q) /\ ~HasId(q, r.id) => NoRepeat(Append(q, r))
<1>1. /\ Append(q, r) \in Seq(Responses)
      /\ Len(Append(q, r)) = Len(q) + 1 /\ Len(q) \in Nat
      /\ \A i \in 1 .. Len(q) : Append(q, r)[i] = q[i]
      /\ Append(q, r)[Len(q) + 1] = r
      /\ DOMAIN q = 1 .. Len(q) /\ DOMAIN Append(q, r) = 1 .. Len(q) + 1
  BY AppendProperties, LenProperties
<1>2. \A n : HasId(Append(q, r), n) <=> HasId(q, n) \/ n = r.id
  BY <1>1 DEF HasId
<1>3. NoRepeat(q) /\ ~HasId(q, r.id) => NoRepeat(Append(q, r))
  BY <1>1 DEF HasId, NoRepeat
<1> QED
  BY <1>1, <1>2, <1>3

LEMMA IdTaken ==
    ASSUME NEW q \in Seq(Responses), q # <<>>
    PROVE  /\ Tail(q) \in Seq(Responses) /\ Head(q) \in Responses
           /\ \A n : HasId(q, n) <=> HasId(Tail(q), n) \/ n = Head(q).id
           /\ NoRepeat(q) => NoRepeat(Tail(q)) /\ ~HasId(Tail(q), Head(q).id)
<1>1. /\ Tail(q) \in Seq(Responses) /\ Head(q) \in Responses
      /\ Len(Tail(q)) = Len(q) - 1 /\ Len(q) \in Nat \ {0}
      /\ \A i \in 1 .. Len(Tail(q)) : Tail(q)[i] = q[i + 1]
      /\ Head(q) = q[1]
      /\ DOMAIN q = 1 .. Len(q) /\ DOMAIN Tail(q) = 1 .. Len(q) - 1
  BY HeadTailProperties, LenProperties, EmptySeq
<1>2. ASSUME NEW n, HasId(q, n), n # Head(q).id PROVE HasId(Tail(q), n)
  <2>1. PICK i \in 1 .. Len(q) : q[i].id = n
    BY <1>1, <1>2 DEF HasId
  <2>2. i - 1 \in 1 .. Len(Tail(q)) /\ Tail(q)[i - 1].id = n
    BY <1>1, <1>2, <2>1
  <2> QED BY <1>1, <2>2 DEF HasId
<1>3. \A n : HasId(Tail(q), n) \/ n = Head(q).id => HasId(q, n)
  BY <1>1 DEF HasId
<1>4. ASSUME NoRepeat(q) PROVE NoRepeat(Tail(q)) /\ ~HasId(Tail(q), Head(q).id)
  <2>1. \A i, j \in 1 .. Len(q) - 1 : Tail(q)[i].id = Tail(q)[j].id => i = j
    BY <1>1, <1>4 DEF NoRepeat
  <2>2. \A i \in 1 .. Len(q) - 1 : Tail(q)[i].id # q[1].id
    BY <1>1, <1>4 DEF NoRepeat
  <2> QED BY <1>1, <2>1, <2>2 DEF HasId, NoRepeat
<1> QED
  BY <1>1, <1>2, <1>3, <1>4

-----------------------------------------------------------------------------
\* What is on its way to a session and ends its wait.
Transit(r) ==
    \/ \E i \in DOMAIN responses : responses[i] = r
    \/ \E v \in Users : user[v].pc = "holding" /\ user[v].held = r
Signal(u, r) == r \in Responses /\ r.session = u /\ r.flag # "none" /\ Transit(r)

\* A turn of a console whose user waits for it: its request, its agent's work,
\* what the agent says last or asks, and the answer follow one another.
Turn(u) ==
    /\ user[u].pc \in {"line", "polling", "holding", "collecting"}
    /\ inputs[u] # <<>> =>
         /\ Tail(inputs[u]) = <<>> /\ user[u].pc \in {"polling", "holding"} /\ worker[u] # Working
         /\ worker[u] # Idle => Fits(worker[u], Head(inputs[u]))
         /\ \A r : ~Signal(u, r)
    /\ worker[u] = Working => user[u].pc \in {"polling", "holding"} /\ \A r : ~Signal(u, r)
    /\ user[u].pc = "line" => worker[u] = Idle /\ \A r : ~Signal(u, r)
    /\ user[u].pc = "collecting" => worker[u] = user[u].question /\ \A r : ~Signal(u, r)
    /\ \A r, other : Signal(u, r) /\ Signal(u, other) => r = other
    /\ \A r : Signal(u, r) => worker[u] = (IF r.flag = "TurnCompleted" THEN Idle ELSE r.question)
TurnsInv == \A u \in Users \ (Runs \cup brokenOff) : Turn(u)

TurnInv == TurnTypes /\ PlaceInv /\ RepeatInv /\ TurnsInv

\* Nothing moves, one response moves, or a new one arrives.
Moves(n, target) == \A m \in Nat : \A place : At(m, place)' <=> (IF m = n THEN place = target ELSE At(m, place))

LEMMA NothingMoves ==
    ASSUME PlaceInv, produced' = produced, \A m \in Nat : \A place : At(m, place)' <=> At(m, place)
    PROVE  PlaceInv'
BY DEF PlaceInv

LEMMA OneMoves ==
    ASSUME PlaceInv, produced' = produced, NEW n \in 1 .. produced, NEW target, Moves(n, target)
    PROVE  PlaceInv'
BY DEF PlaceInv, Moves

LEMMA OneArrives ==
    ASSUME PlaceInv, produced \in Nat, produced' = produced + 1, NEW target, Moves(produced + 1, target)
    PROVE  PlaceInv'
BY DEF PlaceInv, Moves

\* One of three ways to count a response finds it, and only once.
LEMMA OneOfThree ==
    ASSUME NEW S, NEW T, NEW U,
           \/ T = {} /\ U = {} /\ \E e : S = {e}
           \/ S = {} /\ U = {} /\ \E e : T = {e}
           \/ S = {} /\ T = {} /\ \E e : U = {e}
    PROVE  Cardinality(S) + Cardinality(T) + Cardinality(U) = 1
<1>1. Cardinality({}) = 0 /\ \A e : Cardinality({e}) = 1
  BY FS_EmptySet, FS_Singleton
<1>2. Cardinality(S) \in {0, 1} /\ Cardinality(T) \in {0, 1} /\ Cardinality(U) \in {0, 1}
  BY <1>1
<1>3. CASE T = {} /\ U = {} /\ Cardinality(S) = 1
  BY <1>1, <1>3
<1>4. CASE S = {} /\ U = {} /\ Cardinality(T) = 1
  BY <1>1, <1>4
<1>5. CASE S = {} /\ T = {} /\ Cardinality(U) = 1
  BY <1>1, <1>5
<1> QED
  BY <1>1, <1>3, <1>4, <1>5

\* Where a response waits.
LEMMA WaitsSomewhere ==
    ASSUME NEW r
    PROVE  r \in Waiting <=>
             \/ \E i \in DOMAIN responses : r = responses[i]
             \/ \E u \in MetaRuns : \E i \in DOMAIN own[u] : r = own[u][i]
             \/ \E u \in Users : user[u].pc = "holding" /\ r = user[u].held
<1> DEFINE Shared == ToSet(responses)
           Others == UNION {ToSet(own[u]) : u \in MetaRuns}
           InHand == {user[u].held : u \in {v \in Users : user[v].pc = "holding"}}
<1>1. r \in Shared <=> \E i \in DOMAIN responses : r = responses[i]
  BY DEF ToSet
<1>2. \A u \in MetaRuns : r \in ToSet(own[u]) <=> \E i \in DOMAIN own[u] : r = own[u][i]
  BY DEF ToSet
<1>3. r \in Others <=> \E u \in MetaRuns : r \in ToSet(own[u])
  OBVIOUS
<1>4. r \in InHand <=> \E u \in Users : user[u].pc = "holding" /\ r = user[u].held
  OBVIOUS
<1>5. Waiting = Shared \cup Others \cup InHand
  BY DEF Waiting
<1> HIDE DEF Shared, Others, InHand
<1> QED
  BY <1>1, <1>2, <1>3, <1>4, <1>5

LEMMA PlacesCount == TurnTypes /\ PlaceInv /\ RepeatInv => ResponsesReachTheirUser
<1> SUFFICES ASSUME TurnTypes, PlaceInv, RepeatInv, NEW n \in 1 .. produced
             PROVE  Cardinality({r \in Waiting : r.id = n}) + Cardinality({u \in Users : n \in seen[u]})
                      + Cardinality({n} \cap dropped) = 1
  BY DEF ResponsesReachTheirUser
<1> DEFINE W == {r \in Waiting : r.id = n}
           S == {u \in Users : n \in seen[u]}
           D == {n} \cap dropped
<1>1. n \in Nat
  BY DEF TurnTypes, QueueTypes
<1>2. PICK place : At(n, place) /\ \A other : At(n, other) => other = place
  BY <1>1 DEF PlaceInv
<1>3. /\ HasId(responses, n) <=> place = <<"shared", "all">>
      /\ \A u \in MetaRuns : HasId(own[u], n) <=> place = <<"own", u>>
      /\ \A u \in Users : Holds(u, n) <=> place = <<"held", u>>
      /\ \A u \in Users : n \in seen[u] <=> place = <<"seen", u>>
      /\ n \in dropped <=> place = <<"dropped", "all">>
  <2>1. /\ HasId(responses, n) => place = <<"shared", "all">>
        /\ \A u \in MetaRuns : HasId(own[u], n) => place = <<"own", u>>
        /\ \A u \in Users : Holds(u, n) => place = <<"held", u>>
        /\ \A u \in Users : n \in seen[u] => place = <<"seen", u>>
        /\ n \in dropped => place = <<"dropped", "all">>
    BY <1>2 DEF At
  <2> QED
    BY <1>2, <2>1 DEF At
<1>4. \A r \in W : \/ \E i \in DOMAIN responses : r = responses[i] /\ r.id = n
                   \/ \E u \in MetaRuns : \E i \in DOMAIN own[u] : r = own[u][i] /\ r.id = n
                   \/ \E u \in Users : Holds(u, n) /\ r = user[u].held
  BY WaitsSomewhere DEF Holds
<1>5. CASE place = <<"shared", "all">>
  <2>1. PICK i \in DOMAIN responses : responses[i].id = n
    BY <1>3, <1>5 DEF HasId
  <2>2. \A j \in DOMAIN responses : responses[j].id = n => j = i
    BY <2>1 DEF RepeatInv, NoRepeat
  <2>3. responses[i] \in W
    BY <2>1, WaitsSomewhere
  <2>4. W = {responses[i]}
    BY <1>3, <1>4, <1>5, <2>2, <2>3 DEF HasId
  <2>5. S = {} /\ D = {}
    BY <1>3, <1>5
  <2>9. Cardinality(W) + Cardinality(S) + Cardinality(D) = 1
    <3> HIDE DEF W, S, D
    <3> QED
      BY <2>4, <2>5, OneOfThree
  <2> QED
    BY <2>9
<1>6. CASE \E u \in MetaRuns : place = <<"own", u>>
  <2>1. PICK u \in MetaRuns : place = <<"own", u>>
    BY <1>6
  <2>2. PICK i \in DOMAIN own[u] : own[u][i].id = n
    BY <1>3, <2>1 DEF HasId
  <2>3. \A j \in DOMAIN own[u] : own[u][j].id = n => j = i
    BY <2>2 DEF RepeatInv, NoRepeat
  <2>4. own[u][i] \in W
    BY <2>2, WaitsSomewhere
  <2>5. \A v \in MetaRuns : HasId(own[v], n) => v = u
    BY <1>3, <2>1
  <2>6. W = {own[u][i]}
    <3>1. ASSUME NEW r \in W PROVE r = own[u][i]
      <4>1. ~HasId(responses, n) /\ \A v \in Users : ~Holds(v, n)
        BY <1>3, <2>1
      <4>2. PICK v \in MetaRuns : \E j \in DOMAIN own[v] : r = own[v][j] /\ r.id = n
        BY <1>4, <3>1, <4>1 DEF HasId
      <4>3. v = u
        BY <2>5, <4>2 DEF HasId
      <4> QED
        BY <2>3, <4>2, <4>3
    <3> HIDE DEF W
    <3> QED
      BY <2>4, <3>1
  <2>7. S = {} /\ D = {}
    BY <1>3, <2>1
  <2>9. Cardinality(W) + Cardinality(S) + Cardinality(D) = 1
    <3> HIDE DEF W, S, D
    <3> QED
      BY <2>6, <2>7, OneOfThree
  <2> QED
    BY <2>9
<1>7. CASE \E u \in Users : place = <<"held", u>>
  <2>1. PICK u \in Users : place = <<"held", u>>
    BY <1>7
  <2>2. user[u].held \in W
    BY <1>3, <2>1, WaitsSomewhere DEF Holds
  <2>3. \A v \in Users : Holds(v, n) => v = u
    BY <1>3, <2>1
  <2>4. W = {user[u].held}
    <3>1. ASSUME NEW r \in W PROVE r = user[u].held
      <4>1. ~HasId(responses, n) /\ \A v \in MetaRuns : ~HasId(own[v], n)
        BY <1>3, <2>1
      <4>2. PICK v \in Users : Holds(v, n) /\ r = user[v].held
        BY <1>4, <3>1, <4>1 DEF HasId
      <4> QED
        BY <2>3, <4>2
    <3> HIDE DEF W
    <3> QED
      BY <2>2, <3>1
  <2>5. S = {} /\ D = {}
    BY <1>3, <2>1
  <2>9. Cardinality(W) + Cardinality(S) + Cardinality(D) = 1
    <3> HIDE DEF W, S, D
    <3> QED
      BY <2>4, <2>5, OneOfThree
  <2> QED
    BY <2>9
<1>8. CASE \E u \in Users : place = <<"seen", u>>
  <2>1. PICK u \in Users : place = <<"seen", u>>
    BY <1>8
  <2>2. S = {u}
    BY <1>3, <2>1
  <2>3. W = {} /\ D = {}
    BY <1>3, <1>4, <2>1 DEF HasId
  <2>9. Cardinality(W) + Cardinality(S) + Cardinality(D) = 1
    <3> HIDE DEF W, S, D
    <3> QED
      BY <2>2, <2>3, OneOfThree
  <2> QED
    BY <2>9
<1>9. CASE place = <<"dropped", "all">>
  <2>1. D = {n}
    BY <1>3, <1>9
  <2>2. W = {} /\ S = {}
    BY <1>3, <1>4, <1>9 DEF HasId
  <2>9. Cardinality(W) + Cardinality(S) + Cardinality(D) = 1
    <3> HIDE DEF W, S, D
    <3> QED
      BY <2>1, <2>2, OneOfThree
  <2> QED
    BY <2>9
<1> QED
  BY <1>2, <1>5, <1>6, <1>7, <1>8, <1>9 DEF At

-----------------------------------------------------------------------------
\* What a console or an adapter does next.
LEMMA Plainly ==
    ASSUME NEW pc \in {"line", "polling", "collecting", "ending", "done"}
    PROVE  LET rec == [AtLine EXCEPT !.pc = pc] IN rec \in UserRecords /\ rec.pc = pc
BY DEF AtLine, UserRecords

LEMMA UserBecomes ==
    ASSUME UserTypes, NEW u \in Users, NEW rec \in UserRecords, rec.pc = "holding" => rec.held \in Responses,
           rec.pc = "collecting" => rec.question \in Questions, user' = [user EXCEPT ![u] = rec]
    PROVE  UserTypes' /\ user'[u] = rec /\ \A v \in Users \ {u} : user'[v] = user[v]
BY DEF UserTypes

\* Nobody takes or gives a response.
LEMMA NothingHeld ==
    ASSUME TurnInv, UNCHANGED <<responses, own, produced, seen, dropped>>,
           NEW u \in Users, NEW rec \in UserRecords, user[u].pc # "holding", rec.pc \notin {"holding", "collecting"},
           user' = [user EXCEPT ![u] = rec]
    PROVE  /\ QueueTypes' /\ UserTypes' /\ PlaceInv' /\ RepeatInv'
           /\ user'[u] = rec /\ \A v \in Users \ {u} : user'[v] = user[v]
           /\ \A r : Transit(r)' <=> Transit(r)
<1>1. UserTypes' /\ user'[u] = rec /\ \A v \in Users \ {u} : user'[v] = user[v]
  BY UserBecomes DEF TurnInv, TurnTypes
<1>2. QueueTypes' /\ RepeatInv'
  BY DEF TurnInv, TurnTypes, QueueTypes, RepeatInv
<1>3. \A m : \A v \in Users : Holds(v, m)' <=> Holds(v, m)
  BY <1>1 DEF Holds
<1>4. \A m \in Nat : \A place : At(m, place)' <=> At(m, place)
  BY <1>3 DEF At
<1>5. PlaceInv'
  BY <1>4, NothingMoves DEF TurnInv
<1>6. \A r : Transit(r)' <=> Transit(r)
  BY <1>1 DEF Transit
<1> QED
  BY <1>1, <1>2, <1>5, <1>6

\* A session that the step does not concern.
LEMMA OtherTurn ==
    ASSUME NEW v \in Users, Turn(v), user'[v] = user[v], inputs'[v] = inputs[v], worker'[v] = worker[v],
           \A r : Signal(v, r)' => Signal(v, r)
    PROVE  Turn(v)'
BY DEF Turn

\* An input is put into a queue.
LEMMA InputPut ==
    ASSUME WorkerTypes, NEW u \in Users, NEW a \in AnswerRecords, PutsInput(u, a), worker' = worker
    PROVE  /\ WorkerTypes' /\ \A v \in Users \ {u} : inputs'[v] = inputs[v]
           /\ inputs[u] = <<>> => inputs'[u] # <<>> /\ Tail(inputs'[u]) = <<>> /\ Head(inputs'[u]) = a
<1>1. inputs' = [inputs EXCEPT ![u] = Append(@, a)]
  BY DEF PutsInput
<1>2. inputs[u] \in Seq(AnswerRecords) /\ Append(inputs[u], a) \in Seq(AnswerRecords)
  BY AppendProperties DEF WorkerTypes
<1>3. inputs'[u] = Append(inputs[u], a) /\ \A v \in Users \ {u} : inputs'[v] = inputs[v]
  BY <1>1 DEF WorkerTypes
<1>4. WorkerTypes'
  BY <1>1, <1>2 DEF WorkerTypes
<1>5. Append(<<>>, a) # <<>> /\ Tail(Append(<<>>, a)) = <<>> /\ Head(Append(<<>>, a)) = a
  OBVIOUS
<1> QED
  BY <1>3, <1>4, <1>5

LEMMA Mode ==
    ASSUME NEW q \in Questions
    PROVE  q # Idle /\ q # Working /\ q.options \in Nat /\ q.custom \in BOOLEAN
BY TurnAssumption DEF Idle, Working

\* Whatever is collected for a question is an answer to it.
LEMMA CollectedFits ==
    ASSUME NEW q \in Questions, NEW line \in Typed(q), CollectInput(q, line) # AsksAgain
    PROVE  CollectInput(q, line) \in AnswerRecords /\ Fits(q, CollectInput(q, line))
<1> DEFINE a == CollectInput(q, line)
           numbers == NumbersOf(line)
<1>1. q.options \in Nat /\ q.custom \in BOOLEAN /\ numbers \subseteq Nat
  <2>1. q.options \in Nat /\ q.custom \in BOOLEAN
    BY Mode
  <2>2. line.numbers \subseteq Nat
    BY <2>1 DEF Typed
  <2> QED
    BY <2>1, <2>2 DEF NumbersOf
<1>2. CASE q.mode = "single"
  <2>1. a = CollectSingleChoice(q, line)
    BY <1>2 DEF CollectInput
  <2>2. CASE numbers # {} /\ \A n \in numbers : Cardinality(numbers) = 1 /\ n \in 1 .. q.options
    <3>1. a = Answer("choice", numbers) /\ numbers \subseteq 1 .. q.options
      BY <2>1, <2>2 DEF CollectSingleChoice
    <3> QED
      BY <1>1, <1>2, <3>1 DEF Fits, Answer, AnswerRecords
  <2>3. CASE ~(numbers # {} /\ \A n \in numbers : Cardinality(numbers) = 1 /\ n \in 1 .. q.options)
    <3>1. a = Answer("custom", {}) /\ q.custom
      BY <2>1, <2>3 DEF CollectSingleChoice
    <3> QED
      BY <1>2, <3>1 DEF Fits, Answer, AnswerRecords
  <2> QED
    BY <2>2, <2>3
<1>3. CASE q.mode = "multiple"
  <2> DEFINE allowed == 1 .. (IF q.custom THEN q.options + 1 ELSE q.options)
  <2>1. a = CollectMultipleChoices(q, line)
    BY <1>3 DEF CollectInput
  <2>2. numbers # {} /\ numbers \subseteq allowed
    BY <2>1 DEF CollectMultipleChoices
  <2>3. CASE q.options + 1 \in numbers
    <3>1. a = Answer("selections with custom", numbers \ {q.options + 1})
      BY <2>1, <2>2, <2>3 DEF CollectMultipleChoices
    <3>2. q.custom /\ numbers \ {q.options + 1} \subseteq 1 .. q.options
      BY <1>1, <2>2, <2>3
    <3> DEFINE chosen == numbers \ {q.options + 1}
    <3>3. chosen \subseteq 1 .. q.options /\ chosen \subseteq Nat
      BY <1>1, <3>2
    <3> HIDE DEF chosen
    <3>4. Answer("selections with custom", chosen) \in AnswerRecords
      BY <3>3 DEF Answer, AnswerRecords
    <3>5. Fits(q, Answer("selections with custom", chosen))
      BY <1>3, <3>2, <3>3 DEF Fits, Answer
    <3> QED
      BY <3>1, <3>4, <3>5 DEF chosen
  <2>4. CASE q.options + 1 \notin numbers
    <3>1. a = Answer("selections", numbers)
      BY <2>1, <2>2, <2>4 DEF CollectMultipleChoices
    <3>2. numbers \subseteq 1 .. q.options
      BY <1>1, <2>2, <2>4
    <3> QED
      BY <1>1, <1>3, <3>1, <3>2 DEF Fits, Answer, AnswerRecords
  <2> QED
    BY <2>3, <2>4
<1>4. CASE q.mode \in {"free", "press", "exact"}
  BY <1>4 DEF CollectInput, CollectExactString, Fits, Answer, AsksAgain, AnswerRecords
<1> QED
  BY <1>2, <1>3, <1>4, TurnAssumption

-----------------------------------------------------------------------------
(* Inputs *)

\* Starting a turn, answering a question, and ending a run.
LEMMA InputStep ==
    ASSUME TurnInv, NEW u \in Users, NEW a \in AnswerRecords, NEW rec \in UserRecords,
           UNCHANGED <<responses, own, worker, produced, seen, dropped, brokenOff>>,
           PutsInput(u, a), user' = [user EXCEPT ![u] = rec], user[u].pc # "holding", rec.pc \notin {"holding", "collecting"},
           u \in Runs \/ (rec.pc = "polling" /\ user[u].pc = "line")
             \/ (rec.pc = "polling" /\ user[u].pc = "collecting" /\ Fits(user[u].question, a))
    PROVE  TurnInv'
<1>1. /\ QueueTypes' /\ UserTypes' /\ PlaceInv' /\ RepeatInv'
      /\ user'[u] = rec /\ \A v \in Users \ {u} : user'[v] = user[v]
      /\ \A r : Transit(r)' <=> Transit(r)
  BY NothingHeld
<1>2. /\ WorkerTypes' /\ \A v \in Users \ {u} : inputs'[v] = inputs[v]
      /\ inputs[u] = <<>> => inputs'[u] # <<>> /\ Tail(inputs'[u]) = <<>> /\ Head(inputs'[u]) = a
  BY InputPut DEF TurnInv, TurnTypes
<1>3. \A v \in Users : \A r : Signal(v, r)' <=> Signal(v, r)
  BY <1>1 DEF Signal
<1>4. ASSUME NEW v \in Users \ (Runs \cup brokenOff), v # u PROVE Turn(v)'
  BY <1>1, <1>2, <1>3, <1>4, OtherTurn DEF TurnInv, TurnsInv
<1>5. ASSUME u \notin Runs \cup brokenOff PROVE Turn(u)'
  <2>1. Turn(u)
    BY <1>5 DEF TurnInv, TurnsInv
  <2>2. inputs[u] = <<>> /\ \A r : ~Signal(u, r)
    BY <1>5, <2>1 DEF Turn
  <2>3. worker[u] # Working /\ (worker[u] # Idle => Fits(worker[u], a))
    BY <1>5, <2>1, Mode DEF Turn, Idle, Working
  <2> QED
    BY <1>1, <1>2, <1>3, <1>5, <2>2, <2>3 DEF Turn
<1> QED
  BY <1>1, <1>2, <1>4, <1>5 DEF TurnInv, TurnTypes, TurnsInv

LEMMA TextAndEmpty == Answer("text", {}) \in AnswerRecords /\ Answer("empty", {}) \in AnswerRecords
BY DEF Answer, AnswerRecords

LEMMA InputsKeepTurnInv ==
    ASSUME TurnInv, NEW u \in Users,
           \/ SendAgentRequest(u) \/ RegularRun(u) \/ MetaRun(u) \/ RunEnds(u)
           \/ \E line \in Typed(user[u].question) : HandlePendingInput(u, line)
    PROVE  TurnInv'
<1>1. CASE SendAgentRequest(u) \/ RegularRun(u) \/ MetaRun(u)
  <2> DEFINE rec == [AtLine EXCEPT !.pc = "polling"]
  <2>1. rec \in UserRecords /\ rec.pc = "polling"
    BY Plainly
  <2>2. /\ UNCHANGED <<responses, own, worker, produced, seen, dropped, brokenOff>> /\ user[u].pc = "line"
        /\ PutsInput(u, Answer("text", {})) /\ user' = [user EXCEPT ![u] = rec]
    BY <1>1 DEF SendAgentRequest, RegularRun, MetaRun, Does
  <2> HIDE DEF rec
  <2> QED
    BY <2>1, <2>2, TextAndEmpty, InputStep
<1>2. CASE RunEnds(u)
  <2> DEFINE rec == [AtLine EXCEPT !.pc = "done"]
  <2>1. rec \in UserRecords /\ rec.pc = "done"
    BY Plainly
  <2>2. /\ UNCHANGED <<responses, own, worker, produced, seen, dropped, brokenOff>> /\ user[u].pc = "ending" /\ u \in Runs
        /\ PutsInput(u, Answer("empty", {})) /\ user' = [user EXCEPT ![u] = rec]
    BY <1>2 DEF RunEnds, Does
  <2> HIDE DEF rec
  <2> QED
    BY <2>1, <2>2, TextAndEmpty, InputStep
<1>3. CASE \E line \in Typed(user[u].question) : HandlePendingInput(u, line)
  <2>1. PICK line \in Typed(user[u].question) : HandlePendingInput(u, line)
    BY <1>3
  <2> DEFINE rec == [AtLine EXCEPT !.pc = "polling"]
             a == CollectInput(user[u].question, line)
  <2>2. rec \in UserRecords /\ rec.pc = "polling"
    BY Plainly
  <2>3. /\ UNCHANGED <<responses, own, worker, produced, seen, dropped, brokenOff>> /\ user[u].pc = "collecting"
        /\ a # AsksAgain /\ PutsInput(u, a) /\ user' = [user EXCEPT ![u] = rec]
    BY <2>1 DEF HandlePendingInput, Does
  <2>4. a \in AnswerRecords /\ Fits(user[u].question, a)
    BY <2>3, CollectedFits DEF TurnInv, TurnTypes, UserTypes
  <2> HIDE DEF rec, a
  <2> QED
    BY <2>2, <2>3, <2>4, InputStep
<1> QED
  BY <1>1, <1>2, <1>3

-----------------------------------------------------------------------------
(* Waiting and responses *)

\* Whoever breaks off or times out is not held to the order of a turn.
LEMMA BreakingOffKeepsTurnInv ==
    ASSUME TurnInv, NEW u \in Users, user[u].pc # "holding", Interrupt(u) \/ RunTimesOut(u)
    PROVE  TurnInv'
<1>1. PICK pc \in {"line", "ending"} : Does(u, pc)
  BY DEF Interrupt, RunTimesOut
<1> DEFINE rec == [AtLine EXCEPT !.pc = pc]
<1>2. rec \in UserRecords /\ rec.pc = pc /\ user' = [user EXCEPT ![u] = rec]
  BY <1>1, Plainly DEF Does
<1>3. /\ UNCHANGED <<responses, own, inputs, worker, produced, seen, dropped>> /\ user[u].pc # "holding"
      /\ brokenOff \subseteq brokenOff' /\ u \in Runs \cup brokenOff'
  BY DEF Interrupt, RunTimesOut
<1> HIDE DEF rec
<1>4. /\ QueueTypes' /\ UserTypes' /\ PlaceInv' /\ RepeatInv'
      /\ \A v \in Users \ {u} : user'[v] = user[v]
      /\ \A r : Transit(r)' <=> Transit(r)
  BY <1>1, <1>2, <1>3, NothingHeld
<1>5. \A v \in Users : \A r : Signal(v, r)' <=> Signal(v, r)
  BY <1>4 DEF Signal
<1>6. ASSUME NEW v \in Users \ (Runs \cup brokenOff') PROVE Turn(v)'
  <2>1. v # u /\ v \notin Runs \cup brokenOff
    BY <1>3
  <2> QED
    BY <1>3, <1>4, <1>5, <2>1, OtherTurn DEF TurnInv, TurnsInv
<1>7. WorkerTypes'
  BY <1>3 DEF TurnInv, TurnTypes, WorkerTypes
<1> QED
  BY <1>4, <1>6, <1>7 DEF TurnInv, TurnTypes, TurnsInv

\* The console that holds another's response loses it with its wait.
LEMMA LosingKeepsTurnInv ==
    ASSUME TurnInv, NEW u \in Users, user[u].pc = "holding", Interrupt(u)
    PROVE  TurnInv'
<1> DEFINE n == user[u].held.id
           rec == [AtLine EXCEPT !.pc = "line"]
<1>1. /\ user' = [user EXCEPT ![u] = rec] /\ dropped' = dropped \cup {n} /\ brokenOff' = brokenOff \cup {u}
      /\ UNCHANGED <<responses, own, inputs, worker, produced, seen>>
  BY DEF Interrupt, Does
<1>2. rec \in UserRecords /\ rec.pc = "line"
  BY Plainly
<1>3. n \in Nat /\ Holds(u, n)
  BY DEF TurnInv, TurnTypes, UserTypes, Responses, Holds
<1> HIDE DEF n, rec
<1>4. UserTypes' /\ user'[u] = rec /\ \A v \in Users \ {u} : user'[v] = user[v]
  BY <1>1, <1>2, UserBecomes DEF TurnInv, TurnTypes
<1>5. QueueTypes' /\ RepeatInv' /\ WorkerTypes'
  BY <1>1, <1>3 DEF TurnInv, TurnTypes, QueueTypes, RepeatInv, WorkerTypes
<1>6. n \in 1 .. produced /\ \A place : At(n, place) <=> place = <<"held", u>>
  <2>1. At(n, <<"held", u>>)
    BY <1>3 DEF At
  <2> QED
    BY <1>3, <2>1 DEF TurnInv, PlaceInv
<1>7. /\ ~HasId(responses, n) /\ n \notin dropped
      /\ \A v \in MetaRuns : ~HasId(own[v], n)
      /\ \A v \in Users : n \notin seen[v] /\ (Holds(v, n) => v = u)
  <2>1. /\ ~At(n, <<"shared", "all">>) /\ ~At(n, <<"dropped", "all">>)
        /\ \A v \in MetaRuns : ~At(n, <<"own", v>>)
        /\ \A v \in Users : ~At(n, <<"seen", v>>) /\ (At(n, <<"held", v>>) => v = u)
    BY <1>6
  <2>2. ~HasId(responses, n) /\ n \notin dropped
    BY <2>1 DEF At
  <2>3. \A v \in MetaRuns : ~HasId(own[v], n)
    BY <2>1 DEF At
  <2>4. \A v \in Users : n \notin seen[v] /\ (Holds(v, n) => v = u)
    BY <2>1 DEF At
  <2> QED
    BY <2>2, <2>3, <2>4
<1>8. PlaceInv'
  <2>1. \A m : \A v \in Users : Holds(v, m)' <=> Holds(v, m) /\ v # u
    BY <1>2, <1>4 DEF Holds
  <2>2. \A m : Holds(u, m) <=> m = n
    BY <1>3 DEF Holds
  <2>3. /\ \A m : HasId(responses, m)' <=> HasId(responses, m)
        /\ \A m : \A v \in MetaRuns : HasId(own[v], m)' <=> HasId(own[v], m)
    BY <1>1 DEF HasId
  <2>4. Moves(n, <<"dropped", "all">>)
    BY <1>1, <1>6, <1>7, <2>1, <2>2, <2>3 DEF At, Moves
  <2> QED
    BY <1>1, <1>6, <2>4, OneMoves DEF TurnInv
<1>9. ASSUME NEW v \in Users \ (Runs \cup brokenOff') PROVE Turn(v)'
  <2>1. v # u /\ v \notin Runs \cup brokenOff
    BY <1>1
  <2>2. \A r : Transit(r)' => Transit(r)
    BY <1>1, <1>2, <1>4 DEF Transit
  <2>3. \A r : Signal(v, r)' => Signal(v, r)
    BY <2>2 DEF Signal
  <2> QED
    BY <1>1, <1>4, <2>1, <2>3, OtherTurn DEF TurnInv, TurnsInv
<1> QED
  BY <1>4, <1>5, <1>8, <1>9 DEF TurnInv, TurnTypes, TurnsInv

LEMMA StopsKeepTurnInv == ASSUME TurnInv, NEW u \in Users, Interrupt(u) \/ RunTimesOut(u) PROVE TurnInv'
<1>1. CASE user[u].pc # "holding"
  BY <1>1, BreakingOffKeepsTurnInv
<1>2. CASE user[u].pc = "holding"
  <2>1. Interrupt(u)
    BY <1>2 DEF RunTimesOut
  <2> QED
    BY <1>2, <2>1, LosingKeepsTurnInv
<1> QED
  BY <1>1, <1>2

\* The first response of the shared queue is there and nowhere else.
LEMMA FirstResponse ==
    ASSUME TurnInv, responses # <<>>
    PROVE  LET r == Head(responses)
           IN /\ r \in Responses /\ r.id \in 1 .. produced /\ Tail(responses) \in Seq(Responses) /\ NoRepeat(Tail(responses))
              /\ \A m : HasId(responses, m) <=> HasId(Tail(responses), m) \/ m = r.id
              /\ ~HasId(Tail(responses), r.id)
              /\ \A place : At(r.id, place) <=> place = <<"shared", "all">>
<1> DEFINE r == Head(responses)
<1>1. /\ r \in Responses /\ Tail(responses) \in Seq(Responses) /\ NoRepeat(Tail(responses))
      /\ \A m : HasId(responses, m) <=> HasId(Tail(responses), m) \/ m = r.id
      /\ ~HasId(Tail(responses), r.id)
  BY IdTaken DEF TurnInv, TurnTypes, QueueTypes, RepeatInv
<1>2. r.id \in Nat /\ At(r.id, <<"shared", "all">>)
  BY <1>1 DEF At, Responses
<1>3. r.id \in 1 .. produced /\ \A place : At(r.id, place) <=> place = <<"shared", "all">>
  BY <1>2 DEF TurnInv, PlaceInv
<1> QED
  BY <1>1, <1>3

\* What is at its place is held by nobody, and in no queue twice.
LEMMA TransitById ==
    ASSUME TurnInv
    PROVE  \A r : Transit(r) => HasId(responses, r.id) \/ \E v \in Users : Holds(v, r.id)
BY DEF Transit, HasId, Holds

LEMMA TailTransit ==
    ASSUME TurnInv, responses # <<>>, NEW r, r # Head(responses)
    PROVE  (\E i \in DOMAIN Tail(responses) : Tail(responses)[i] = r) <=> (\E i \in DOMAIN responses : responses[i] = r)
<1> DEFINE q == responses
<1>1. /\ Len(Tail(q)) = Len(q) - 1 /\ Len(q) \in Nat \ {0}
      /\ \A i \in 1 .. Len(Tail(q)) : Tail(q)[i] = q[i + 1]
      /\ Head(q) = q[1]
      /\ DOMAIN q = 1 .. Len(q) /\ DOMAIN Tail(q) = 1 .. Len(q) - 1
  BY HeadTailProperties, LenProperties, EmptySeq DEF TurnInv, TurnTypes, QueueTypes
<1> HIDE DEF q
<1>2. ASSUME NEW i \in DOMAIN q, q[i] = r PROVE \E j \in DOMAIN Tail(q) : Tail(q)[j] = r
  <2>1. i - 1 \in DOMAIN Tail(q) /\ Tail(q)[i - 1] = r
    BY <1>1, <1>2 DEF q
  <2> QED
    BY <2>1
<1>3. ASSUME NEW i \in DOMAIN Tail(q), Tail(q)[i] = r PROVE \E j \in DOMAIN q : q[j] = r
  BY <1>1, <1>3
<1> QED
  BY <1>2, <1>3 DEF q

\* The first response is taken, and put where target says; the user goes on
\* to rec.  Sessions that get no other signal keep their turn.
LEMMA ResponseTaken ==
    ASSUME TurnInv, responses # <<>>, responses' = Tail(responses), UNCHANGED <<own, inputs, worker, produced>>,
           NEW u \in Users, NEW rec \in UserRecords, user[u].pc # "holding", user' = [user EXCEPT ![u] = rec],
           rec.pc = "collecting" => rec.question \in Questions,
           \/ /\ rec.pc = "holding" /\ rec.held = Head(responses) /\ UNCHANGED <<seen, dropped>>
           \/ /\ rec.pc # "holding" /\ seen' = [seen EXCEPT ![u] = @ \cup {Head(responses).id}] /\ dropped' = dropped
           \/ /\ rec.pc # "holding" /\ seen' = seen /\ dropped' = dropped \cup {Head(responses).id}
    PROVE  /\ QueueTypes' /\ UserTypes' /\ WorkerTypes' /\ PlaceInv' /\ RepeatInv'
           /\ user'[u] = rec /\ \A v \in Users \ {u} : user'[v] = user[v]
           /\ \A r : Transit(r)' <=> Transit(r) /\ (rec.pc = "holding" \/ r # Head(responses))
<1> DEFINE h == Head(responses)
           n == h.id
<1>1. /\ h \in Responses /\ n \in 1 .. produced /\ Tail(responses) \in Seq(Responses) /\ NoRepeat(Tail(responses))
      /\ \A m : HasId(responses, m) <=> HasId(Tail(responses), m) \/ m = n
      /\ ~HasId(Tail(responses), n)
      /\ \A place : At(n, place) <=> place = <<"shared", "all">>
  BY FirstResponse
<1>2. UserTypes' /\ user'[u] = rec /\ \A v \in Users \ {u} : user'[v] = user[v]
  BY <1>1, UserBecomes DEF TurnInv, TurnTypes
<1>3. n \in Nat
  BY <1>1 DEF TurnInv, TurnTypes, QueueTypes
<1>4. QueueTypes' /\ RepeatInv' /\ WorkerTypes'
  BY <1>1, <1>3 DEF TurnInv, TurnTypes, QueueTypes, RepeatInv, WorkerTypes
<1>5. /\ \A m : HasId(responses, m)' <=> HasId(responses, m) /\ m # n
      /\ \A m : \A v \in MetaRuns : HasId(own[v], m)' <=> HasId(own[v], m)
  BY <1>1 DEF HasId
<1>6. \A m : \A v \in Users \ {u} : Holds(v, m)' <=> Holds(v, m)
  BY <1>2 DEF Holds
<1>7. /\ \A m : ~Holds(u, m)
      /\ \A v \in Users : ~Holds(v, n) /\ n \notin seen[v]
      /\ n \notin dropped /\ \A v \in MetaRuns : ~HasId(own[v], n)
  <2>1. \A m : ~Holds(u, m)
    BY DEF Holds
  <2>2. \A v \in Users : <<"held", v>> # <<"shared", "all">> /\ <<"seen", v>> # <<"shared", "all">>
    OBVIOUS
  <2>3. \A v \in Users : ~Holds(v, n) /\ n \notin seen[v]
    BY <1>1, <2>2 DEF At
  <2>4. /\ ~At(n, <<"dropped", "all">>)
        /\ \A v \in MetaRuns : ~At(n, <<"own", v>>)
    BY <1>1
  <2>5. n \notin dropped
    BY <2>4 DEF At
  <2>6. \A v \in MetaRuns : ~HasId(own[v], n)
    BY <2>4 DEF At
  <2> QED
    BY <2>1, <2>3, <2>5, <2>6
<1>8. PlaceInv'
  <2>1. CASE rec.pc = "holding" /\ rec.held = h /\ UNCHANGED <<seen, dropped>>
    <3>1. \A m : Holds(u, m)' <=> m = n
      BY <1>2, <2>1 DEF Holds
    <3>2. Moves(n, <<"held", u>>)
      BY <1>1, <1>3, <1>5, <1>6, <1>7, <2>1, <3>1 DEF At, Moves
    <3> QED
      BY <1>1, <3>2, OneMoves DEF TurnInv
  <2>2. CASE rec.pc # "holding" /\ seen' = [seen EXCEPT ![u] = @ \cup {n}] /\ dropped' = dropped
    <3>1. \A m : ~Holds(u, m)'
      BY <1>2, <2>2 DEF Holds
    <3>2. /\ \A v \in Users \ {u} : seen'[v] = seen[v]
          /\ seen'[u] = seen[u] \cup {n}
      BY <2>2 DEF TurnInv, TurnTypes, QueueTypes
    <3>3. Moves(n, <<"seen", u>>)
      BY <1>1, <1>3, <1>5, <1>6, <1>7, <2>2, <3>1, <3>2 DEF At, Moves
    <3> QED
      BY <1>1, <3>3, OneMoves DEF TurnInv
  <2>3. CASE rec.pc # "holding" /\ seen' = seen /\ dropped' = dropped \cup {n}
    <3>1. \A m : ~Holds(u, m)'
      BY <1>2, <2>3 DEF Holds
    <3>2. Moves(n, <<"dropped", "all">>)
      BY <1>1, <1>3, <1>5, <1>6, <1>7, <2>3, <3>1 DEF At, Moves
    <3> QED
      BY <1>1, <3>2, OneMoves DEF TurnInv
  <2> QED
    BY <2>1, <2>2, <2>3
<1>9. ASSUME NEW r PROVE Transit(r)' <=> Transit(r) /\ (rec.pc = "holding" \/ r # h)
  <2>1. CASE r # h
    <3>1. (\E i \in DOMAIN responses' : responses'[i] = r) <=> (\E i \in DOMAIN responses : responses[i] = r)
      BY <2>1, TailTransit
    <3>2. ~(user'[u].pc = "holding" /\ user'[u].held = r)
      BY <1>2, <2>1
    <3>3. \A v \in Users : user'[v].pc = "holding" /\ user'[v].held = r <=> user[v].pc = "holding" /\ user[v].held = r
      BY <1>2, <3>2
    <3> QED
      BY <2>1, <3>1, <3>3 DEF Transit
  <2>2. CASE r = h
    <3>1. Transit(h)
      BY HeadTailProperties, LenProperties, EmptySeq DEF Transit, TurnInv, TurnTypes, QueueTypes
    <3>2. ~\E i \in DOMAIN responses' : responses'[i] = h
      BY <1>1 DEF HasId
    <3>3. \A v \in Users \ {u} : ~(user'[v].pc = "holding" /\ user'[v].held = h)
      BY <1>2, <1>7 DEF Holds
    <3> QED
      BY <1>2, <2>2, <3>1, <3>2, <3>3 DEF Transit
  <2> QED
    BY <2>1, <2>2
<1> QED
  BY <1>2, <1>4, <1>8, <1>9

\* A signal for u that was taken by u: u goes on, and no signal is left.
LEMMA TakesKeepTurnInv == ASSUME TurnInv, NEW u \in Users, TakeResponse(u) PROVE TurnInv'
<1> DEFINE r == Head(responses)
<1>1. /\ u \notin Runs /\ user[u].pc = "polling" /\ responses # <<>> /\ responses' = Tail(responses)
      /\ UNCHANGED <<own, inputs, worker, produced, dropped>> /\ brokenOff \subseteq brokenOff'
  BY DEF TakeResponse
<1>2. r \in Responses /\ Transit(r)
  BY <1>1, HeadTailProperties, LenProperties, EmptySeq DEF Transit, TurnInv, TurnTypes, QueueTypes
<1>3. ASSUME NEW v \in Users \ (Runs \cup brokenOff'), v # u, user'[v] = user[v],
             \A x : Transit(x)' => Transit(x)
      PROVE  Turn(v)'
  <2>1. \A x : Signal(v, x)' => Signal(v, x)
    BY <1>3 DEF Signal
  <2> QED
    BY <1>1, <1>3, <2>1, OtherTurn DEF TurnInv, TurnsInv
<1>4. CASE ~PassesFor(u, r)
  <2> DEFINE rec == [AtLine EXCEPT !.pc = "holding", !.held = r]
  <2>1. rec \in UserRecords /\ rec.pc = "holding" /\ rec.held = r
    BY <1>2 DEF AtLine, UserRecords
  <2>2. user' = [user EXCEPT ![u] = rec] /\ seen' = seen
    BY <1>4 DEF TakeResponse
  <2> HIDE DEF rec
  <2>3. /\ QueueTypes' /\ UserTypes' /\ WorkerTypes' /\ PlaceInv' /\ RepeatInv'
        /\ user'[u] = rec /\ \A v \in Users \ {u} : user'[v] = user[v]
        /\ \A x : Transit(x)' <=> Transit(x)
    BY <1>1, <2>1, <2>2, ResponseTaken
  <2>4. ASSUME u \notin brokenOff' PROVE Turn(u)'
    <3>1. Turn(u) /\ \A x : Signal(u, x)' <=> Signal(u, x)
      BY <1>1, <2>3, <2>4 DEF TurnInv, TurnsInv, Signal
    <3> QED
      BY <1>1, <2>1, <2>3, <3>1 DEF Turn
  <2> QED
    BY <1>1, <1>3, <2>3, <2>4 DEF TurnInv, TurnTypes, TurnsInv
<1>5. CASE PassesFor(u, r)
  <2> DEFINE pc == CASE r.flag = "TurnCompleted" -> "line" [] r.flag = "PendingInput" -> "collecting" [] OTHER -> "polling"
             question == IF r.flag = "PendingInput" THEN r.question ELSE Idle
             rec == [AtLine EXCEPT !.pc = pc, !.question = question]
  <2>1. /\ rec \in UserRecords /\ rec.pc = pc /\ rec.question = question /\ pc # "holding"
        /\ pc = "collecting" => question \in Questions
    BY <1>2 DEF AtLine, UserRecords, Responses
  <2>2. user' = [user EXCEPT ![u] = rec] /\ seen' = [seen EXCEPT ![u] = @ \cup {r.id}]
    BY <1>5 DEF TakeResponse
  <2> HIDE DEF rec
  <2>3. /\ QueueTypes' /\ UserTypes' /\ WorkerTypes' /\ PlaceInv' /\ RepeatInv'
        /\ user'[u] = rec /\ \A v \in Users \ {u} : user'[v] = user[v]
        /\ \A x : Transit(x)' <=> Transit(x) /\ x # r
    BY <1>1, <2>1, <2>2, ResponseTaken
  <2>4. ASSUME u \notin brokenOff' PROVE Turn(u)'
    <3>1. Turn(u) /\ \A x : Signal(u, x)' <=> Signal(u, x) /\ x # r
      BY <1>1, <2>3, <2>4 DEF TurnInv, TurnsInv, Signal
    <3>2. CASE r.flag = "none"
      BY <1>1, <2>1, <2>3, <3>1, <3>2 DEF Turn
    <3>3. CASE r.flag # "none"
      <4>1. Signal(u, r)
        <5>1. r.session = u
          BY <1>5, <2>4, <3>3 DEF TakeResponse
        <5> QED
          BY <1>2, <3>3, <5>1 DEF Signal
      <4>2. /\ \A x : ~Signal(u, x)'
            /\ worker[u] = (IF r.flag = "TurnCompleted" THEN Idle ELSE r.question)
            /\ inputs[u] = <<>> /\ worker[u] # Working
        BY <3>1, <4>1 DEF Turn
      <4>3. r.flag \in {"TurnCompleted", "PendingInput"}
        BY <1>2, <3>3 DEF Responses
      <4> QED
        BY <1>1, <2>1, <2>3, <4>2, <4>3 DEF Turn
    <3> QED
      BY <3>2, <3>3
  <2> QED
    BY <1>1, <1>3, <2>3, <2>4 DEF TurnInv, TurnTypes, TurnsInv
<1> QED
  BY <1>4, <1>5

LEMMA RunsConsumeKeepsTurnInv == ASSUME TurnInv, NEW u \in Users, RegularConsumes(u) PROVE TurnInv'
<1> DEFINE r == Head(responses)
<1>1. /\ u \in Runs /\ user[u].pc = "polling" /\ responses # <<>> /\ responses' = Tail(responses)
      /\ UNCHANGED <<own, inputs, worker, produced, brokenOff>>
  BY DEF RegularConsumes, Runs
<1>2. \/ user' = user /\ seen' = seen /\ dropped' = dropped \cup {r.id}
      \/ user' = user /\ seen' = [seen EXCEPT ![u] = @ \cup {r.id}] /\ dropped' = dropped
      \/ Does(u, "ending") /\ seen' = [seen EXCEPT ![u] = @ \cup {r.id}] /\ dropped' = dropped
  BY DEF RegularConsumes, TakesAsOwn
<1>3. PICK rec \in UserRecords : user' = [user EXCEPT ![u] = rec] /\ rec.pc \in {"polling", "ending"}
  <2>1. CASE user' = user
    <3>1. user[u] \in UserRecords /\ user' = [user EXCEPT ![u] = user[u]]
      BY <2>1 DEF TurnInv, TurnTypes, UserTypes
    <3> QED
      BY <1>1, <3>1
  <2>2. CASE Does(u, "ending")
    BY <2>2, Plainly DEF Does
  <2> QED
    BY <1>2, <2>1, <2>2
<1>4. /\ QueueTypes' /\ UserTypes' /\ WorkerTypes' /\ PlaceInv' /\ RepeatInv'
      /\ \A v \in Users \ {u} : user'[v] = user[v]
      /\ \A x : Transit(x)' => Transit(x)
  BY <1>1, <1>2, <1>3, ResponseTaken
<1>5. ASSUME NEW v \in Users \ (Runs \cup brokenOff) PROVE Turn(v)'
  <2>1. v # u /\ \A x : Signal(v, x)' => Signal(v, x)
    BY <1>1, <1>4 DEF Signal
  <2> QED
    BY <1>1, <1>4, <2>1, OtherTurn DEF TurnInv, TurnsInv
<1> QED
  BY <1>1, <1>4, <1>5 DEF TurnInv, TurnTypes, TurnsInv

\* A held response goes back: it is on its way again, as it was all the time.
LEMMA PutBackKeepsTurnInv == ASSUME TurnInv, NEW u \in Users, PutBack(u) PROVE TurnInv'
<1> DEFINE h == user[u].held
           n == h.id
           rec == [AtLine EXCEPT !.pc = "polling"]
<1>1. /\ user[u].pc = "holding" /\ responses' = Append(responses, h) /\ user' = [user EXCEPT ![u] = rec]
      /\ UNCHANGED <<own, inputs, worker, produced, seen, dropped, brokenOff>> /\ h = user[u].held /\ n = h.id
  BY DEF PutBack, Does
<1>2. rec \in UserRecords /\ rec.pc = "polling"
  BY Plainly
<1> HIDE DEF h, n, rec
<1>3. h \in Responses /\ n \in Nat
  <2>1. h \in Responses
    <3>1. user[u].pc = "holding" /\ h = user[u].held
      BY <1>1
    <3> QED
      BY <3>1 DEF TurnInv, TurnTypes, UserTypes
  <2>2. n = h.id
    BY <1>1
  <2> QED
    BY <2>1, <2>2 DEF Responses
<1>4. n \in 1 .. produced /\ \A place : At(n, place) <=> place = <<"held", u>>
  <2>1. At(n, <<"held", u>>)
    BY <1>1 DEF At, Holds
  <2> QED
    BY <1>3, <2>1 DEF TurnInv, PlaceInv
<1>5. /\ ~HasId(responses, n) /\ n \notin dropped
      /\ \A v \in MetaRuns : ~HasId(own[v], n)
      /\ \A v \in Users : n \notin seen[v] /\ (Holds(v, n) => v = u)
  <2>1. /\ ~At(n, <<"shared", "all">>) /\ ~At(n, <<"dropped", "all">>)
        /\ \A v \in MetaRuns : ~At(n, <<"own", v>>)
        /\ \A v \in Users : ~At(n, <<"seen", v>>) /\ (At(n, <<"held", v>>) => v = u)
    BY <1>4
  <2>2. ~HasId(responses, n) /\ n \notin dropped
    BY <2>1 DEF At
  <2>3. \A v \in MetaRuns : ~HasId(own[v], n)
    BY <2>1 DEF At
  <2>4. \A v \in Users : n \notin seen[v] /\ (Holds(v, n) => v = u)
    BY <2>1 DEF At
  <2> QED
    BY <2>2, <2>3, <2>4
<1>6. /\ responses' \in Seq(Responses) /\ NoRepeat(responses')
      /\ \A m : HasId(responses, m)' <=> HasId(responses, m) \/ m = n
  <2>1. /\ responses' \in Seq(Responses) /\ NoRepeat(responses')
        /\ \A m : HasId(responses', m) <=> HasId(responses, m) \/ m = n
    BY <1>1, <1>3, <1>5, IdAppended DEF TurnInv, TurnTypes, QueueTypes, RepeatInv
  <2> QED
    BY <2>1 DEF HasId
<1>7. UserTypes' /\ user'[u] = rec /\ \A v \in Users \ {u} : user'[v] = user[v]
  BY <1>1, <1>2, UserBecomes DEF TurnInv, TurnTypes
<1>8. QueueTypes' /\ RepeatInv' /\ WorkerTypes'
  BY <1>1, <1>6 DEF TurnInv, TurnTypes, QueueTypes, RepeatInv, WorkerTypes
<1>9. PlaceInv'
  <2>1. \A m : \A v \in Users : Holds(v, m)' <=> Holds(v, m) /\ v # u
    BY <1>2, <1>7 DEF Holds
  <2>2. \A m : Holds(u, m) <=> m = n
    BY <1>1 DEF Holds
  <2>3. \A m : \A v \in MetaRuns : HasId(own[v], m)' <=> HasId(own[v], m)
    BY <1>1 DEF HasId
  <2>4. Moves(n, <<"shared", "all">>)
    BY <1>1, <1>4, <1>5, <1>6, <2>1, <2>2, <2>3 DEF At, Moves
  <2> QED
    BY <1>1, <1>4, <2>4, OneMoves DEF TurnInv
<1>10. ASSUME NEW r PROVE Transit(r)' <=> Transit(r)
  <2>1. /\ Len(Append(responses, h)) = Len(responses) + 1 /\ Len(responses) \in Nat
        /\ \A i \in 1 .. Len(responses) : Append(responses, h)[i] = responses[i]
        /\ Append(responses, h)[Len(responses) + 1] = h
        /\ DOMAIN responses = 1 .. Len(responses) /\ DOMAIN Append(responses, h) = 1 .. Len(responses) + 1
    BY <1>3, AppendProperties, LenProperties DEF TurnInv, TurnTypes, QueueTypes
  <2>2. (\E i \in DOMAIN responses' : responses'[i] = r) <=> (\E i \in DOMAIN responses : responses[i] = r) \/ r = h
    BY <1>1, <2>1
  <2>3. \A v \in Users : user'[v].pc = "holding" /\ user'[v].held = r <=> v # u /\ user[v].pc = "holding" /\ user[v].held = r
    BY <1>2, <1>7
  <2> QED
    BY <1>1, <2>2, <2>3 DEF Transit
<1>11. ASSUME NEW v \in Users \ (Runs \cup brokenOff) PROVE Turn(v)'
  <2>1. Turn(v) /\ \A r : Signal(v, r)' <=> Signal(v, r)
    BY <1>10, <1>11 DEF TurnInv, TurnsInv, Signal
  <2>2. CASE v = u
    BY <1>1, <1>2, <1>7, <2>1, <2>2 DEF Turn
  <2>3. CASE v # u
    BY <1>1, <1>7, <2>1, <2>3, OtherTurn
  <2> QED
    BY <2>2, <2>3
<1> QED
  BY <1>1, <1>7, <1>8, <1>9, <1>11 DEF TurnInv, TurnTypes, TurnsInv

LEMMA OwnConsumesKeepsTurnInv == ASSUME TurnInv, NEW u \in Users, MetaConsumes(u) PROVE TurnInv'
<1> PICK r, n : r = Head(own[u]) /\ n = r.id
  OBVIOUS
<1>1. /\ u \in MetaRuns /\ u \in Runs /\ user[u].pc = "polling" /\ own[u] # <<>> /\ own' = [own EXCEPT ![u] = Tail(@)]
      /\ seen' = [seen EXCEPT ![u] = @ \cup {n}] /\ (user' = user \/ Does(u, "ending"))
      /\ UNCHANGED <<responses, inputs, worker, produced, dropped, brokenOff>> /\ r = Head(own[u]) /\ n = r.id
  BY DEF MetaConsumes, TakesAsOwn, Runs
<1>2. PICK rec \in UserRecords : user' = [user EXCEPT ![u] = rec] /\ rec.pc \in {"polling", "ending"}
  <2>1. CASE user' = user
    <3>1. user[u] \in UserRecords /\ user' = [user EXCEPT ![u] = user[u]]
      BY <2>1 DEF TurnInv, TurnTypes, UserTypes
    <3> QED
      BY <1>1, <3>1
  <2>2. CASE Does(u, "ending")
    BY <2>2, Plainly DEF Does
  <2> QED
    BY <1>1, <2>1, <2>2
<1>3. UserTypes' /\ user'[u] = rec /\ \A v \in Users \ {u} : user'[v] = user[v]
  BY <1>2, UserBecomes DEF TurnInv, TurnTypes
<1>4. /\ own[u] \in Seq(Responses) /\ own'[u] = Tail(own[u]) /\ \A v \in MetaRuns \ {u} : own'[v] = own[v]
      /\ seen'[u] = seen[u] \cup {n} /\ \A v \in Users \ {u} : seen'[v] = seen[v]
  <2>1. own \in [MetaRuns -> Seq(Responses)] /\ seen \in [Users -> SUBSET Nat]
    BY DEF TurnInv, TurnTypes, QueueTypes
  <2>2. own[u] \in Seq(Responses) /\ own'[u] = Tail(own[u]) /\ \A v \in MetaRuns \ {u} : own'[v] = own[v]
    BY <1>1, <2>1
  <2>3. seen'[u] = seen[u] \cup {n} /\ \A v \in Users \ {u} : seen'[v] = seen[v]
    <3>1. seen' = [seen EXCEPT ![u] = @ \cup {n}]
      BY <1>1
    <3> QED
      BY <2>1, <3>1
  <2> QED
    BY <2>2, <2>3
<1>5. /\ r \in Responses /\ Tail(own[u]) \in Seq(Responses) /\ NoRepeat(Tail(own[u]))
      /\ \A m : HasId(own[u], m) <=> HasId(Tail(own[u]), m) \/ m = n
      /\ ~HasId(Tail(own[u]), n)
  BY <1>1, <1>4, IdTaken DEF TurnInv, RepeatInv
<1>6. n \in Nat /\ n \in 1 .. produced /\ \A place : At(n, place) <=> place = <<"own", u>>
  <2>1. n \in Nat /\ At(n, <<"own", u>>)
    BY <1>1, <1>5 DEF At, Responses
  <2> QED
    BY <2>1 DEF TurnInv, PlaceInv
<1>7. QueueTypes' /\ RepeatInv' /\ WorkerTypes'
  <2>1. own' \in [MetaRuns -> Seq(Responses)]
    BY <1>1, <1>5 DEF TurnInv, TurnTypes, QueueTypes
  <2>2. seen' \in [Users -> SUBSET Nat]
    BY <1>1, <1>6 DEF TurnInv, TurnTypes, QueueTypes
  <2>3. RepeatInv'
    BY <1>1, <1>4, <1>5 DEF TurnInv, RepeatInv
  <2> QED
    BY <1>1, <2>1, <2>2, <2>3 DEF TurnInv, TurnTypes, QueueTypes, WorkerTypes
<1>8. PlaceInv'
  <2>1. /\ ~HasId(responses, n) /\ n \notin dropped
        /\ \A v \in MetaRuns : HasId(own[v], n) => v = u
        /\ \A v \in Users : n \notin seen[v] /\ ~Holds(v, n)
    <3>1. /\ ~At(n, <<"shared", "all">>) /\ ~At(n, <<"dropped", "all">>)
          /\ \A v \in MetaRuns : At(n, <<"own", v>>) => v = u
          /\ \A v \in Users : ~At(n, <<"seen", v>>) /\ ~At(n, <<"held", v>>)
      BY <1>6
    <3>2. ~HasId(responses, n) /\ n \notin dropped
      BY <3>1 DEF At
    <3>3. \A v \in MetaRuns : HasId(own[v], n) => v = u
      BY <3>1 DEF At
    <3>4. \A v \in Users : n \notin seen[v] /\ ~Holds(v, n)
      BY <3>1 DEF At
    <3> QED
      BY <3>2, <3>3, <3>4
  <2>2. \A m : HasId(responses, m)' <=> HasId(responses, m)
    BY <1>1 DEF HasId
  <2>3. \A m : \A v \in MetaRuns : HasId(own[v], m)' <=> HasId(own[v], m) /\ (v # u \/ m # n)
    <3>1. \A m : HasId(own'[u], m) <=> HasId(own[u], m) /\ m # n
      BY <1>4, <1>5
    <3>2. \A m : \A v \in MetaRuns \ {u} : HasId(own[v], m)' <=> HasId(own[v], m)
      BY <1>4 DEF HasId
    <3> QED
      BY <3>1, <3>2 DEF HasId
  <2>4. \A m : \A v \in Users : Holds(v, m)' <=> Holds(v, m)
    BY <1>1, <1>2, <1>3 DEF Holds
  <2>5. Moves(n, <<"seen", u>>)
    <3>1. \A m \in Nat : \A v \in Users : m \in seen'[v] <=> m \in seen[v] \/ (v = u /\ m = n)
      BY <1>4
    <3>2. \A place : At(n, place)' <=> place = <<"seen", u>>
      <4>1. /\ ~HasId(responses, n)' /\ n \notin dropped'
            /\ \A v \in MetaRuns : ~HasId(own[v], n)'
            /\ \A v \in Users : ~Holds(v, n)' /\ (n \in seen'[v] <=> v = u)
        BY <1>1, <1>6, <2>1, <2>2, <2>3, <2>4, <3>1
      <4> QED
        BY <4>1 DEF At
    <3>3. ASSUME NEW m \in Nat, m # n PROVE \A place : At(m, place)' <=> At(m, place)
      <4>1. /\ HasId(responses, m)' <=> HasId(responses, m)
            /\ \A v \in MetaRuns : HasId(own[v], m)' <=> HasId(own[v], m)
            /\ \A v \in Users : (Holds(v, m)' <=> Holds(v, m)) /\ (m \in seen'[v] <=> m \in seen[v])
        BY <2>2, <2>3, <2>4, <3>1, <3>3
      <4>2. dropped' = dropped
        BY <1>1
      <4> QED
        BY <4>1, <4>2 DEF At
    <3> QED
      BY <3>2, <3>3 DEF Moves
  <2> QED
    BY <1>1, <1>6, <2>5, OneMoves DEF TurnInv
<1>9. ASSUME NEW v \in Users \ (Runs \cup brokenOff) PROVE Turn(v)'
  <2>1. \A x : Transit(x)' <=> Transit(x)
    BY <1>1, <1>2, <1>3 DEF Transit
  <2>2. v # u /\ \A x : Signal(v, x)' => Signal(v, x)
    BY <1>1, <2>1 DEF Signal
  <2> QED
    BY <1>1, <1>3, <2>2, OtherTurn DEF TurnInv, TurnsInv
<1> QED
  BY <1>1, <1>3, <1>7, <1>8, <1>9 DEF TurnInv, TurnTypes, TurnsInv

-----------------------------------------------------------------------------
(* Agents *)

LEMMA AgentTakesKeepsTurnInv == ASSUME TurnInv, NEW u \in Users, AgentTakesInput(u) PROVE TurnInv'
<1>1. /\ worker[u] # Working /\ inputs[u] # <<>>
      /\ inputs' = [inputs EXCEPT ![u] = Tail(@)] /\ worker' = [worker EXCEPT ![u] = Working]
      /\ UNCHANGED <<responses, own, user, produced, seen, dropped, brokenOff>>
  BY DEF AgentTakesInput
<1>2. inputs[u] \in Seq(AnswerRecords) /\ Tail(inputs[u]) \in Seq(AnswerRecords)
  BY <1>1, HeadTailProperties DEF TurnInv, TurnTypes, WorkerTypes
<1>3. WorkerTypes'
  BY <1>1, <1>2 DEF TurnInv, TurnTypes, WorkerTypes
<1>4. /\ inputs'[u] = Tail(inputs[u]) /\ worker'[u] = Working
      /\ \A v \in Users \ {u} : inputs'[v] = inputs[v] /\ worker'[v] = worker[v]
  BY <1>1 DEF TurnInv, TurnTypes, WorkerTypes
<1>5. QueueTypes' /\ UserTypes' /\ RepeatInv'
  BY <1>1 DEF TurnInv, TurnTypes, QueueTypes, UserTypes, RepeatInv
<1>6. PlaceInv'
  <2>1. \A m \in Nat : \A place : At(m, place)' <=> At(m, place)
    BY <1>1 DEF At, Holds
  <2> QED
    BY <1>1, <2>1, NothingMoves DEF TurnInv
<1>7. ASSUME NEW v \in Users \ (Runs \cup brokenOff) PROVE Turn(v)'
  <2>1. Turn(v) /\ \A r : Signal(v, r)' <=> Signal(v, r)
    BY <1>1 DEF TurnInv, TurnsInv, Signal, Transit
  <2>2. CASE v = u
    BY <1>1, <1>4, <2>1, <2>2 DEF Turn, Working, Idle
  <2>3. CASE v # u
    BY <1>1, <1>4, <2>1, <2>3, OtherTurn
  <2> QED
    BY <2>2, <2>3
<1> QED
  BY <1>1, <1>3, <1>5, <1>6, <1>7 DEF TurnInv, TurnTypes, TurnsInv

\* A new response: it has a number of its own.
LEMMA ResponseArrives ==
    ASSUME TurnInv, NEW u \in Users, NEW flag \in {"none", "TurnCompleted", "PendingInput"},
           NEW question \in Questions \cup {Idle}, flag = "PendingInput" => question \in Questions,
           Responds(u, flag, question), UNCHANGED <<user, seen, dropped>>
    PROVE  /\ QueueTypes' /\ PlaceInv' /\ RepeatInv'
           /\ \E new \in Responses :
                /\ new.session = u /\ new.flag = flag /\ new.question = question
                /\ \A r : Transit(r)' => Transit(r) \/ (r = new /\ u \notin MetaRuns)
<1>0. PICK new :
        /\ \E tells \in BOOLEAN :
             new = [id |-> produced + 1, session |-> u, named |-> tells, flag |-> flag, question |-> question]
        /\ produced' = produced + 1
        /\ IF u \in MetaRuns THEN own' = [own EXCEPT ![u] = Append(@, new)] /\ UNCHANGED responses
           ELSE responses' = Append(responses, new) /\ UNCHANGED own
  <2>1. PICK tells \in BOOLEAN :
          LET r == [id |-> produced + 1, session |-> u, named |-> tells, flag |-> flag, question |-> question]
          IN /\ produced' = produced + 1
             /\ IF u \in MetaRuns THEN own' = [own EXCEPT ![u] = Append(@, r)] /\ UNCHANGED responses
                ELSE responses' = Append(responses, r) /\ UNCHANGED own
    BY DEF Responds
  <2> QED
    BY <2>1
<1>1. produced \in Nat /\ produced' = produced + 1
  BY <1>0 DEF TurnInv, TurnTypes, QueueTypes
<1>2. new \in Responses /\ new.id = produced + 1 /\ new.session = u /\ new.flag = flag /\ new.question = question
  BY <1>0, <1>1 DEF Responses
<1> PICK n : n = produced + 1
  OBVIOUS
<1>3. /\ n \in Nat /\ n = new.id /\ n \notin 1 .. produced
      /\ ~HasId(responses, n) /\ n \notin dropped
      /\ \A v \in MetaRuns : ~HasId(own[v], n)
      /\ \A v \in Users : n \notin seen[v] /\ ~Holds(v, n)
  <2>1. n \in Nat /\ n = new.id /\ n \notin 1 .. produced
    BY <1>1, <1>2
  <2>2. \A place : ~At(n, place)
    BY <2>1 DEF TurnInv, PlaceInv
  <2>3. ~HasId(responses, n) /\ n \notin dropped
    BY <2>2 DEF At
  <2>4. \A v \in MetaRuns : ~HasId(own[v], n)
    BY <2>2 DEF At
  <2>5. \A v \in Users : n \notin seen[v] /\ ~Holds(v, n)
    BY <2>2 DEF At
  <2> QED
    BY <2>1, <2>3, <2>4, <2>5
<1>4. \A m : \A v \in Users : Holds(v, m)' <=> Holds(v, m)
  BY DEF Holds
<1>5. CASE u \in MetaRuns
  <2>1. own' = [own EXCEPT ![u] = Append(@, new)] /\ responses' = responses /\ own \in [MetaRuns -> Seq(Responses)]
    BY <1>0, <1>5 DEF TurnInv, TurnTypes, QueueTypes
  <2>2. own'[u] = Append(own[u], new) /\ own[u] \in Seq(Responses) /\ \A v \in MetaRuns \ {u} : own'[v] = own[v]
    BY <1>5, <2>1
  <2>3. /\ Append(own[u], new) \in Seq(Responses) /\ NoRepeat(Append(own[u], new))
        /\ \A m : HasId(Append(own[u], new), m) <=> HasId(own[u], m) \/ m = n
    BY <1>2, <1>3, <1>5, <2>2, IdAppended DEF TurnInv, RepeatInv
  <2>4. QueueTypes' /\ RepeatInv'
    BY <1>1, <1>5, <2>1, <2>2, <2>3 DEF TurnInv, TurnTypes, QueueTypes, RepeatInv
  <2>5. \A m : HasId(own'[u], m) <=> HasId(own[u], m) \/ m = n
    BY <2>2, <2>3
  <2>6. \A place : At(n, place)' <=> place = <<"own", u>>
    BY <1>3, <1>4, <1>5, <2>1, <2>2, <2>5 DEF At
  <2>7. ASSUME NEW m \in Nat, m # n PROVE \A place : At(m, place)' <=> At(m, place)
    BY <1>4, <2>1, <2>2, <2>5, <2>7 DEF At
  <2>8. Moves(produced + 1, <<"own", u>>)
    BY <2>6, <2>7 DEF Moves
  <2>9. PlaceInv'
    BY <1>1, <2>8, OneArrives DEF TurnInv
  <2>10. \A r : Transit(r)' => Transit(r)
    BY <2>1 DEF Transit
  <2> QED
    BY <1>2, <2>4, <2>9, <2>10
<1>6. CASE u \notin MetaRuns
  <2>1. responses' = Append(responses, new) /\ own' = own /\ responses \in Seq(Responses)
    BY <1>0, <1>6 DEF TurnInv, TurnTypes, QueueTypes
  <2>2. /\ Append(responses, new) \in Seq(Responses) /\ NoRepeat(Append(responses, new))
        /\ \A m : HasId(Append(responses, new), m) <=> HasId(responses, m) \/ m = n
    BY <1>2, <1>3, <2>1, IdAppended DEF TurnInv, RepeatInv
  <2>3. QueueTypes' /\ RepeatInv'
    BY <1>1, <2>1, <2>2 DEF TurnInv, TurnTypes, QueueTypes, RepeatInv
  <2>4. \A m : HasId(responses', m) <=> HasId(responses, m) \/ m = n
    BY <2>1, <2>2
  <2>5. \A place : At(n, place)' <=> place = <<"shared", "all">>
    BY <1>3, <1>4, <2>1, <2>4 DEF At
  <2>6. ASSUME NEW m \in Nat, m # n PROVE \A place : At(m, place)' <=> At(m, place)
    BY <1>4, <2>1, <2>4, <2>6 DEF At
  <2>7. Moves(produced + 1, <<"shared", "all">>)
    BY <2>5, <2>6 DEF Moves
  <2>8. PlaceInv'
    BY <1>1, <2>7, OneArrives DEF TurnInv
  <2>9. \A r : Transit(r)' => Transit(r) \/ r = new
    <3>1. /\ Len(Append(responses, new)) = Len(responses) + 1 /\ Len(responses) \in Nat
          /\ \A i \in 1 .. Len(responses) : Append(responses, new)[i] = responses[i]
          /\ Append(responses, new)[Len(responses) + 1] = new
          /\ DOMAIN responses = 1 .. Len(responses) /\ DOMAIN Append(responses, new) = 1 .. Len(responses) + 1
      BY <1>2, <2>1, AppendProperties, LenProperties
    <3> QED
      BY <2>1, <3>1 DEF Transit
  <2> QED
    BY <1>2, <1>6, <2>3, <2>8, <2>9
<1> QED
  BY <1>5, <1>6

LEMMA AgentRespondsKeepsTurnInv == ASSUME TurnInv, NEW u \in Users, AgentResponds(u) PROVE TurnInv'
<1>1. worker[u] = Working /\ UNCHANGED <<inputs, user, seen, dropped, brokenOff>>
  BY DEF AgentResponds
<1>2. PICK flag \in {"none", "TurnCompleted", "PendingInput"}, question \in Questions \cup {Idle} :
        /\ Responds(u, flag, question)
        /\ flag = "PendingInput" => question \in Questions
        /\ worker' = IF flag = "none" THEN worker
                     ELSE [worker EXCEPT ![u] = IF flag = "TurnCompleted" THEN Idle ELSE question]
  BY DEF AgentResponds
<1>3. QueueTypes' /\ PlaceInv' /\ RepeatInv'
  BY <1>1, <1>2, ResponseArrives
<1>4. PICK new \in Responses :
        /\ new.session = u /\ new.flag = flag /\ new.question = question
        /\ \A r : Transit(r)' => Transit(r) \/ (r = new /\ u \notin MetaRuns)
  BY <1>1, <1>2, ResponseArrives
<1>5. UserTypes' /\ WorkerTypes'
  BY <1>1, <1>2 DEF TurnInv, TurnTypes, UserTypes, WorkerTypes
<1>6. /\ \A v \in Users \ {u} : worker'[v] = worker[v]
      /\ worker'[u] = IF flag = "none" THEN Working ELSE IF flag = "TurnCompleted" THEN Idle ELSE question
  BY <1>1, <1>2 DEF TurnInv, TurnTypes, WorkerTypes
<1>7. ASSUME NEW v \in Users \ (Runs \cup brokenOff) PROVE Turn(v)'
  <2>1. Turn(v) /\ \A r : Signal(v, r)' => Signal(v, r) \/ (r = new /\ v = u /\ flag # "none")
    BY <1>4 DEF TurnInv, TurnsInv, Signal
  <2>2. CASE v # u
    BY <1>1, <1>6, <2>1, <2>2, OtherTurn
  <2>3. CASE v = u
    <3>1. user[u].pc \in {"polling", "holding"} /\ inputs[u] = <<>> /\ \A r : ~Signal(u, r)
      BY <1>1, <2>1, <2>3 DEF Turn
    <3>2. \A r : Signal(u, r)' => r = new /\ flag # "none"
      BY <2>1, <2>3, <3>1
    <3>3. CASE flag = "none"
      BY <1>1, <1>6, <2>3, <3>1, <3>2, <3>3 DEF Turn
    <3>4. CASE flag # "none"
      <4>1. /\ worker'[u] = (IF flag = "TurnCompleted" THEN Idle ELSE question) /\ worker'[u] # Working
            /\ user'[u] = user[u] /\ inputs'[u] = <<>>
        BY <1>1, <1>2, <1>6, <3>1, <3>4, Mode DEF Idle, Working
      <4> QED
        BY <1>4, <2>3, <3>1, <3>2, <4>1 DEF Turn
    <3> QED
      BY <3>3, <3>4
  <2> QED
    BY <2>2, <2>3
<1> QED
  BY <1>1, <1>3, <1>5, <1>7 DEF TurnInv, TurnTypes, TurnsInv

-----------------------------------------------------------------------------
LEMMA TurnInitInv == TurnInit => TurnInv
<1> SUFFICES ASSUME TurnInit PROVE TurnInv
  OBVIOUS
<1> USE DEF TurnInit
<1>1. AtLine \in UserRecords /\ AtLine.pc = "line"
  BY DEF AtLine, UserRecords
<1>2. QueueTypes
  BY DEF QueueTypes
<1>3. UserTypes
  BY <1>1 DEF UserTypes
<1>4. WorkerTypes
  BY DEF WorkerTypes
<1>5. \A n \in Nat : \A place : ~At(n, place)
  BY <1>1 DEF At, HasId, Holds
<1>6. PlaceInv
  BY <1>5 DEF PlaceInv
<1>7. RepeatInv
  BY DEF RepeatInv, NoRepeat
<1>8. TurnsInv
  <2>1. \A r : ~Transit(r)
    BY <1>1 DEF Transit
  <2> QED
    BY <1>1, <2>1 DEF TurnsInv, Turn, Signal, Idle, Working
<1> QED
  BY <1>2, <1>3, <1>4, <1>6, <1>7, <1>8 DEF TurnInv, TurnTypes

LEMMA TurnInvHolds == TurnSpec => []TurnInv
<1>1. ASSUME TurnInv, [TurnNext]_turnVars PROVE TurnInv'
  <2>1. CASE TurnNext
    BY <1>1, <2>1, InputsKeepTurnInv, StopsKeepTurnInv, TakesKeepTurnInv, RunsConsumeKeepsTurnInv,
       PutBackKeepsTurnInv, OwnConsumesKeepsTurnInv, AgentTakesKeepsTurnInv, AgentRespondsKeepsTurnInv DEF TurnNext
  <2>2. CASE UNCHANGED turnVars
    <3> USE <2>2 DEF turnVars
    <3>1. TurnTypes' /\ RepeatInv'
      BY <1>1 DEF TurnInv, TurnTypes, QueueTypes, UserTypes, WorkerTypes, RepeatInv
    <3>2. PlaceInv'
      BY <1>1 DEF TurnInv, PlaceInv, At, Holds
    <3>3. TurnsInv'
      BY <1>1 DEF TurnInv, TurnsInv, Turn, Signal, Transit
    <3> QED
      BY <3>1, <3>2, <3>3 DEF TurnInv
  <2> QED
    BY <1>1, <2>1, <2>2
<1> QED
  BY TurnInitInv, <1>1, PTL DEF TurnSpec

\* However the consoles pass the responses of others on, each response waits
\* in one place, or one session has it, or it is lost in one of two ways:
\* dropped by an adapter of the shared queue, or with a console's interrupt.
THEOREM ResponsesArriveOnce == TurnSpec => []ResponsesReachTheirUser
BY TurnInvHolds, PlacesCount, PTL DEF TurnInv

\* Unless its user has stopped waiting, an agent's question is answered in a
\* way the question allows.
THEOREM AnswersAreFitting == TurnSpec => []AnswersItsQuestion
<1>1. TurnInv => AnswersItsQuestion
  BY DEF TurnInv, TurnsInv, Turn, AnswersItsQuestion
<1> QED
  BY TurnInvHolds, <1>1, PTL

-----------------------------------------------------------------------------
(* KnowledgeConsole.  A request to delete names only pieces that a user has *)
(* named or has seen on a list that was answered.                           *)

KbRequests ==
    [type : {"kb_del", "kb_restore", "kb_review_spaces", "register_knowledge", "kb_add", "kb_update", "kb_get", "kb_list"},
     how : {"hard", "soft", "search", "confirm", "one", "list", "approved", "rejected", "text", "query", "all"},
     pieces : SUBSET Pieces]
KbReplies == [type : {"kb_del", "kb_restore", "kb_review_spaces", "register_knowledge", "kb_add", "kb_update", "kb_get", "kb_list"},
              list : Seq(Pieces)]
ConsoleStates ==
    [pc : {"prompt", "waiting", "choosing"},
     waits : {"none", "kb_del", "kb_restore", "kb_review_spaces", "register_knowledge", "kb_add", "kb_update", "kb_get", "kb_list"},
     list : Seq(Pieces)]

KbTypes == control \in Seq(KbRequests) /\ replies \in Seq(KbReplies) /\ console \in [Consoles -> ConsoleStates]
Shown(msg) == msg.type = "kb_del" => msg.pieces \subseteq listed \cup named
KbInv == KbTypes /\ (\A i \in DOMAIN control : Shown(control[i])) /\ DeletesOnlyShown

\* A set of numbers has a least one.
LEMMA LeastNumber ==
    ASSUME NEW T \in SUBSET Nat, T # {}
    PROVE  \E m \in T : \A k \in T : m <= k
<1> DEFINE X == {0 .. k : k \in T}
           R == StrictSubsetOrdering(Nat)
<1>1. IsWellFoundedOn(R, FiniteSubsetsOf(Nat))
  BY FS_StrictSubsetOrderingWellFounded
<1>2. X \subseteq FiniteSubsetsOf(Nat) /\ X # {}
  <2>1. ASSUME NEW k \in T PROVE 0 .. k \in FiniteSubsetsOf(Nat)
    <3>1. k \in Nat /\ 0 \in Int /\ k \in Int
      OBVIOUS
    <3>2. IsFiniteSet(0 .. k)
      BY <3>1, FS_Interval
    <3>3. 0 .. k \in SUBSET Nat
      BY <3>1
    <3> QED
      BY <3>2, <3>3 DEF FiniteSubsetsOf
  <2> QED
    BY <2>1
<1>3. PICK x \in X : \A y \in X : <<y, x>> \notin R
  <2> HIDE DEF X, R
  <2> QED
    BY <1>1, <1>2, WFMin
<1>4. PICK m \in T : x = 0 .. m
  BY <1>3
<1>5. ASSUME NEW k \in T PROVE m <= k
  <2>1. 0 .. k \in X /\ <<0 .. k, 0 .. m>> \notin R
    BY <1>3, <1>4
  <2>2. SUFFICES ASSUME k < m PROVE FALSE
    OBVIOUS
  <2>3. 0 .. k \subseteq 0 .. m /\ m \in 0 .. m /\ m \notin 0 .. k /\ 0 .. k \subseteq Nat /\ 0 .. m \subseteq Nat
    BY <2>2
  <2> HIDE DEF X
  <2> QED
    BY <2>1, <2>3 DEF StrictSubsetOrdering
<1> QED
  BY <1>5

RankIn(T, i) == Cardinality({j \in T : j <= i})

\* In a set of numbers there is an n-th, up to the size of the set.
LEMMA NthNumber ==
    ASSUME NEW L \in Nat, NEW T, T \subseteq 1 .. L, NEW n \in Nat, 0 < n, n <= Cardinality(T)
    PROVE  \E i \in T : RankIn(T, i) = n
<1> DEFINE Below(m) == {j \in T : j <= m}
           Size(m) == Cardinality(Below(m))
           enough == {m \in 0 .. L : n <= Size(m)}
<1>0. \A j \in T : j \in Nat /\ 1 <= j /\ j <= L
  OBVIOUS
<1>1. IsFiniteSet(T)
  <2>1. 1 \in Int /\ L \in Int
    OBVIOUS
  <2>2. IsFiniteSet(1 .. L)
    BY <2>1, FS_Interval
  <2> QED
    BY <2>2, FS_Subset
<1>2. ASSUME NEW m \in 0 .. L PROVE IsFiniteSet(Below(m)) /\ Size(m) \in Nat
  <2>1. Below(m) \in SUBSET T
    OBVIOUS
  <2>2. IsFiniteSet(Below(m))
    BY <1>1, <2>1, FS_Subset
  <2> HIDE DEF Below
  <2> QED
    BY <2>2, FS_CardinalityType
<1>3. L \in enough /\ enough \in SUBSET Nat
  <2>1. Below(L) = T
    BY <1>0
  <2> HIDE DEF Below
  <2> QED
    BY <2>1
<1>4. PICK m \in enough : \A k \in enough : m <= k
  <2> HIDE DEF enough
  <2> QED
    BY <1>3, LeastNumber
<1>5. m # 0
  <2>1. Below(0) = {}
    <3>1. ASSUME NEW j \in T PROVE ~(j <= 0)
      BY <1>0
    <3> QED
      BY <3>1
  <2>2. Size(0) = 0
    BY <2>1, FS_EmptySet
  <2> HIDE DEF Size
  <2> QED
    BY <2>2
<1>6. m - 1 \in 0 .. L /\ m \in 1 .. L /\ n <= Size(m) /\ Size(m - 1) < n
  <2>1. m - 1 \in 0 .. L /\ m \in 1 .. L /\ n <= Size(m)
    <3> HIDE DEF Size
    <3> QED
      BY <1>5
  <2>2. m - 1 \notin enough
    <3> HIDE DEF enough
    <3> QED
      BY <1>4, <2>1
  <2>3. Size(m - 1) \in Nat
    BY <1>2, <2>1
  <2> HIDE DEF Size
  <2> QED
    BY <2>1, <2>2, <2>3
<1>7. Size(m) \in Nat /\ Size(m - 1) \in Nat /\ IsFiniteSet(Below(m - 1))
  BY <1>2, <1>6
<1>8. CASE m \in T
  <2>1. Below(m) = Below(m - 1) \cup {m} /\ m \notin Below(m - 1)
    <3>1. ASSUME NEW j \in T PROVE (j <= m <=> j <= m - 1 \/ j = m) /\ ~(m <= m - 1)
      BY <1>0, <1>6
    <3> QED
      BY <1>8, <3>1
  <2> HIDE DEF Below
  <2>2. Size(m) = Size(m - 1) + 1
    BY <1>7, <2>1, FS_AddElement
  <2> HIDE DEF Size
  <2>3. Size(m) = n
    BY <1>6, <1>7, <2>2
  <2> QED
    BY <1>8, <2>3 DEF Size, Below, RankIn
<1>9. CASE m \notin T
  <2>1. Below(m) = Below(m - 1)
    <3>1. ASSUME NEW j \in T PROVE j <= m <=> j <= m - 1
      BY <1>0, <1>6, <1>9
    <3> QED
      BY <3>1
  <2>2. Size(m) = Size(m - 1)
    BY <2>1
  <2> HIDE DEF Size
  <2> QED
    BY <1>6, <1>7, <2>2
<1> QED
  BY <1>8, <1>9

\* What matches and is active is a list of pieces.
LEMMA CandidatesAreAList == Candidates \in Seq(Pieces)
<1> DEFINE found == {i \in DOMAIN Matching : Active(Matching[i])}
           Rank(i) == Cardinality({j \in found : j <= i})
<1>1. DOMAIN Matching = 1 .. Len(Matching) /\ Len(Matching) \in Nat /\ \A i \in DOMAIN Matching : Matching[i] \in Pieces
  BY KbAssumption, LenProperties, ElementOfSeq
<1>2. found \subseteq 1 .. Len(Matching)
  BY <1>1
<1>3. Cardinality(found) \in Nat
  <2>1. 1 \in Int /\ Len(Matching) \in Int
    BY <1>1
  <2>2. IsFiniteSet(1 .. Len(Matching))
    BY <2>1, FS_Interval
  <2>3. IsFiniteSet(found)
    BY <1>2, <2>2, FS_Subset
  <2> QED
    BY <2>3, FS_CardinalityType
<1>4. ASSUME NEW n \in 1 .. Cardinality(found) PROVE Matching[CHOOSE i \in found : Rank(i) = n] \in Pieces
  <2>1. n \in Nat /\ 0 < n /\ n <= Cardinality(found)
    BY <1>3
  <2>2. \E i \in found : Rank(i) = n
    <3>1. \E i \in found : RankIn(found, i) = n
      <4> HIDE DEF found
      <4> QED
        BY <1>1, <1>2, <2>1, NthNumber
    <3> HIDE DEF found
    <3> QED
      BY <3>1 DEF RankIn
  <2>3. (CHOOSE i \in found : Rank(i) = n) \in found
    <3> HIDE DEF found, Rank
    <3> QED
      BY <2>2
  <2> QED
    BY <1>1, <2>3
<1>5. Candidates = [n \in 1 .. Cardinality(found) |-> Matching[CHOOSE i \in found : Rank(i) = n]]
  BY DEF Candidates
<1> DEFINE Nth(n) == Matching[CHOOSE i \in found : Rank(i) = n]
<1>6. [n \in 1 .. Cardinality(found) |-> Nth(n)] \in Seq(Pieces)
  <2>1. \A n \in 1 .. Cardinality(found) : Nth(n) \in Pieces
    BY <1>4
  <2> HIDE DEF found, Nth
  <2> QED
    BY <1>3, <2>1, IsASeq
<1> QED
  BY <1>5, <1>6

\* A request is sent, of the console's kind.
LEMMA SendStep ==
    ASSUME KbInv, NEW c \in Consoles, NEW msg \in KbRequests, SendControl(c, msg),
           listed \subseteq listed', named \subseteq named', Shown(msg)'
    PROVE  KbInv'
<1> DEFINE next == [AtPrompt EXCEPT !.pc = "waiting", !.waits = msg.type]
<1>1. next \in ConsoleStates
  <2>1. <<>> \in Seq(Pieces)
    OBVIOUS
  <2> QED
    BY <2>1 DEF AtPrompt, ConsoleStates, KbRequests
<1>2. control' = Append(control, msg) /\ console' = [console EXCEPT ![c] = next] /\ UNCHANGED <<replies, removed>>
  BY DEF SendControl
<1> HIDE DEF next
<1>3. /\ Append(control, msg) \in Seq(KbRequests) /\ Len(control) \in Nat
      /\ \A i \in 1 .. Len(control) : Append(control, msg)[i] = control[i]
      /\ Append(control, msg)[Len(control) + 1] = msg
      /\ DOMAIN control = 1 .. Len(control) /\ DOMAIN Append(control, msg) = 1 .. Len(control) + 1
  BY AppendProperties, LenProperties DEF KbInv, KbTypes
<1>4. KbTypes'
  BY <1>1, <1>2, <1>3 DEF KbInv, KbTypes
<1>5. \A i \in DOMAIN control' : Shown(control[i])'
  BY <1>2, <1>3 DEF KbInv, Shown
<1>6. DeletesOnlyShown'
  BY <1>2 DEF KbInv, DeletesOnlyShown
<1> QED
  BY <1>4, <1>5, <1>6 DEF KbInv

LEMMA AsksStep ==
    ASSUME KbInv, NEW c \in Consoles,
           NEW type \in {"kb_del", "kb_restore", "kb_review_spaces", "register_knowledge", "kb_add", "kb_update", "kb_get", "kb_list"},
           NEW how \in {"hard", "soft", "search", "confirm", "one", "list", "approved", "rejected", "text", "query", "all"},
           NEW pieces \in SUBSET Pieces, type = "kb_del" => pieces = {}, Asks(c, type, how, pieces)
    PROVE  KbInv'
<1>1. Request(type, how, pieces) \in KbRequests /\ UNCHANGED <<listed, named>>
  BY DEF Request, KbRequests, Asks
<1>2. Shown(Request(type, how, pieces))'
  BY DEF Shown, Request
<1> QED
  BY <1>1, <1>2, SendStep DEF Asks

\* What a number chooses from a list is on it.
LEMMA ChosenIsListed ==
    ASSUME NEW list \in Seq(Pieces), NEW i \in Int, InList(list, i)
    PROVE  Chosen(list, i) \in ToSet(list) /\ Chosen(list, i) \in Pieces
<1>1. Len(list) \in Nat /\ DOMAIN list = 1 .. Len(list) /\ \A j \in DOMAIN list : list[j] \in Pieces
  BY LenProperties, ElementOfSeq
<1>2. -Len(list) <= i - 1 /\ i - 1 <= Len(list) - 1
  BY <1>1 DEF InList
<1>3. PICK j \in DOMAIN list : Chosen(list, i) = list[j]
  <2>1. CASE i > 0
    BY <1>1, <1>2, <2>1 DEF Chosen
  <2>2. CASE ~(i > 0)
    <3>1. Len(list) + i \in DOMAIN list
      BY <1>1, <1>2, <2>2
    <3> QED
      BY <2>2, <3>1 DEF Chosen
  <2> QED
    BY <2>1, <2>2
<1> QED
  BY <1>1, <1>3 DEF ToSet

LEMMA ConsolesKeepKbInv ==
    ASSUME KbInv, NEW c \in Consoles,
           \/ KbDelSearch(c) \/ RegisterKnowledge(c) \/ KbAdd(c) \/ KbUpdate(c) \/ KbGet(c) \/ KbList(c)
           \/ \E p \in Pieces :
                \/ \E hard \in BOOLEAN : KbDelDirect(c, p, hard)
                \/ KbRestore(c, p) \/ \E how \in {"list", "approved", "rejected"} : KbReviewSpaces(c, how, p)
           \/ \E numbers \in (SUBSET Numbers) \ {{}} : ChoosesPieces(c, numbers)
    PROVE  KbInv'
<1>1. CASE \/ KbDelSearch(c) \/ RegisterKnowledge(c) \/ KbAdd(c) \/ KbUpdate(c) \/ KbGet(c) \/ KbList(c)
  BY <1>1, AsksStep DEF KbDelSearch, RegisterKnowledge, KbAdd, KbUpdate, KbGet, KbList
<1>2. CASE \E p \in Pieces, hard \in BOOLEAN : KbDelDirect(c, p, hard)
  <2>1. PICK p \in Pieces, hard \in BOOLEAN : KbDelDirect(c, p, hard)
    BY <1>2
  <2> DEFINE msg == Request("kb_del", IF hard THEN "hard" ELSE "soft", {p})
  <2>2. msg \in KbRequests /\ SendControl(c, msg) /\ named' = named \cup {p} /\ listed' = listed
    BY <2>1 DEF KbDelDirect, Request, KbRequests
  <2>3. Shown(msg)'
    BY <2>2 DEF Shown, Request
  <2> HIDE DEF msg
  <2> QED
    BY <2>2, <2>3, SendStep
<1>3. CASE \E p \in Pieces : KbRestore(c, p) \/ \E how \in {"list", "approved", "rejected"} : KbReviewSpaces(c, how, p)
  BY <1>3, AsksStep DEF KbRestore, KbReviewSpaces
<1>4. CASE \E numbers \in (SUBSET Numbers) \ {{}} : ChoosesPieces(c, numbers)
  <2>1. PICK numbers \in SUBSET Int : ChoosesPieces(c, numbers)
    BY <1>4, KbAssumption
  <2> PICK list : list = console[c].list
    OBVIOUS
  <2>2. list \in Seq(Pieces)
    BY DEF KbInv, KbTypes, ConsoleStates
  <2> PICK pieces : pieces = {Chosen(list, i) : i \in numbers}
    OBVIOUS
  <2>3. \A i \in numbers : InList(list, i)
    BY <2>1 DEF ChoosesPieces
  <2>4. pieces \subseteq ToSet(list) /\ pieces \subseteq Pieces
    BY <2>2, <2>3, ChosenIsListed
  <2> DEFINE msg == Request("kb_del", "confirm", pieces)
  <2>5. /\ SendControl(c, msg) /\ listed' = listed \cup ToSet(list) /\ named \subseteq named'
    BY <2>1 DEF ChoosesPieces
  <2>6. msg \in KbRequests
    BY <2>4 DEF Request, KbRequests
  <2>7. Shown(msg)'
    BY <2>4, <2>5 DEF Shown, Request
  <2> HIDE DEF msg
  <2> QED
    BY <2>5, <2>6, <2>7, SendStep
<1> QED
  BY <1>1, <1>2, <1>3, <1>4

LEMMA RepliesKeepKbInv ==
    ASSUME KbInv, NEW c \in Consoles, CancelsChoice(c) \/ WaitForControlResponse(c) \/ GivesUp(c)
    PROVE  KbInv'
<1>1. UNCHANGED <<control, listed, named, removed>>
  BY DEF CancelsChoice, WaitForControlResponse, GivesUp
<1>2. replies' \in Seq(KbReplies)
  BY HeadTailProperties DEF KbInv, KbTypes, CancelsChoice, WaitForControlResponse, GivesUp
<1>3. console' \in [Consoles -> ConsoleStates]
  <2>1. console \in [Consoles -> ConsoleStates] /\ AtPrompt \in ConsoleStates
    BY DEF KbInv, KbTypes, AtPrompt, ConsoleStates
  <2>2. CASE CancelsChoice(c) \/ GivesUp(c)
    BY <2>1, <2>2 DEF CancelsChoice, GivesUp
  <2>3. CASE WaitForControlResponse(c)
    <3> DEFINE choosing == [AtPrompt EXCEPT !.pc = "choosing", !.list = Head(replies).list]
    <3>1. Head(replies) \in KbReplies
      BY <2>3, HeadTailProperties DEF KbInv, KbTypes, WaitForControlResponse
    <3>2. choosing \in ConsoleStates
      BY <3>1 DEF AtPrompt, ConsoleStates, KbReplies
    <3>3. \/ console' = console \/ console' = [console EXCEPT ![c] = AtPrompt] \/ console' = [console EXCEPT ![c] = choosing]
      BY <2>3 DEF WaitForControlResponse
    <3> HIDE DEF choosing
    <3> QED
      BY <2>1, <3>2, <3>3
  <2> QED
    BY <2>2, <2>3
<1> QED
  BY <1>1, <1>2, <1>3 DEF KbInv, KbTypes, Shown, DeletesOnlyShown

\* The service deletes what the request names.
LEMMA DispatchKeepsKbInv == KbInv /\ DispatchKb => KbInv'
<1> SUFFICES ASSUME KbInv, DispatchKb PROVE KbInv'
  OBVIOUS
<1> PICK msg : msg = Head(control)
  OBVIOUS
<1>1. control # <<>> /\ control' = Tail(control) /\ Handle(msg) /\ UNCHANGED <<console, listed, named>>
  BY DEF DispatchKb
<1>2. /\ Tail(control) \in Seq(KbRequests) /\ msg \in KbRequests /\ Len(control) \in Nat \ {0}
      /\ \A i \in 1 .. Len(control) - 1 : Tail(control)[i] = control[i + 1]
      /\ msg = control[1] /\ Len(Tail(control)) = Len(control) - 1
      /\ DOMAIN control = 1 .. Len(control) /\ DOMAIN Tail(control) = 1 .. Len(control) - 1
  BY <1>1, HeadTailProperties, LenProperties, EmptySeq DEF KbInv, KbTypes
<1>3. (\A i \in DOMAIN control' : Shown(control[i])') /\ Shown(msg)
  BY <1>1, <1>2 DEF KbInv, Shown
<1>4. ASSUME NEW list \in Seq(Pieces), NEW type, Answered(type, list), \E m \in KbRequests : m.type = type
      PROVE  replies' \in Seq(KbReplies)
  <2>1. [type |-> type, list |-> list] \in KbReplies
    BY <1>4 DEF KbReplies, KbRequests
  <2> QED
    BY <1>4, <2>1, AppendProperties DEF Answered, KbInv, KbTypes
<1>5. <<>> \in Seq(Pieces) /\ Candidates \in Seq(Pieces)
  BY CandidatesAreAList
<1>6. \/ Answered(msg.type, <<>>) \/ (msg.type = "kb_del" /\ Answered(msg.type, Candidates))
  BY <1>1 DEF Handle, HandleKbDel, HandleKbRestore, HandleKbReviewSpaces, Ingests, HandleRegisterKnowledge, HandleKbAdd,
       HandleKbUpdate, HandleKbGet, HandleKbList, Raises
<1>7. replies' \in Seq(KbReplies)
  BY <1>2, <1>4, <1>5, <1>6
<1>8. removed' = removed \/ (msg.type = "kb_del" /\ \E deleted \in SUBSET msg.pieces : removed' = removed \cup deleted)
  BY <1>1 DEF Handle, HandleKbDel, DeletedBy, HandleKbRestore, HandleKbReviewSpaces, Ingests, HandleRegisterKnowledge, HandleKbAdd,
       HandleKbUpdate, HandleKbGet, HandleKbList, Raises
<1>9. DeletesOnlyShown'
  BY <1>1, <1>3, <1>8 DEF KbInv, Shown, DeletesOnlyShown
<1> QED
  BY <1>1, <1>2, <1>3, <1>7, <1>9 DEF KbInv, KbTypes

LEMMA KbInitInv == KbInit => KbInv
BY DEF KbInit, KbInv, KbTypes, AtPrompt, ConsoleStates, Shown, DeletesOnlyShown

LEMMA KbInvHolds == KbSpec => []KbInv
<1>1. ASSUME KbInv, [KbNext]_kbVars PROVE KbInv'
  <2>1. CASE KbNext
    BY <1>1, <2>1, ConsolesKeepKbInv, RepliesKeepKbInv, DispatchKeepsKbInv DEF KbNext
  <2>2. CASE UNCHANGED kbVars
    BY <1>1, <2>2 DEF kbVars, KbInv, KbTypes, Shown, DeletesOnlyShown
  <2> QED
    BY <1>1, <2>1, <2>2
<1> QED
  BY KbInitInv, <1>1, PTL DEF KbSpec

\* Nothing is deleted that no user has named or seen on a list that was
\* answered, whatever happens between the list and the answer.
THEOREM DeletesAreShown == KbSpec => []DeletesOnlyShown
BY KbInvHolds, PTL DEF KbInv

-----------------------------------------------------------------------------
(* MetaDebugConsole, for every set of consoles and pipelines, every number  *)
(* of stages, and every limit on sessions and commands.                     *)

Phases == {"unborn", "working", "gated", "over"}
Products == {"nothing", "report", "final", "retire", "gone"}
Waits == {"line", "stage", "status", "started", "meta"}
MessageTypes ==
    {"none", "collect", "advance", "status", "abort", "meta", "created", "report", "final",
     "error", "started"}

Messages == [type : MessageTypes, run : Pipelines \cup {Nobody}, stage : Nat]
Advance(r, k) == Message("advance", r, k)

\* What is said of both queues.
In(q, m) == \E i \in DOMAIN q : q[i] = m
AtMostOnce(q, m) == \A i, j \in DOMAIN q : q[i] = m /\ q[j] = m => i = j

PipelineTypes ==
    /\ phase \in [Pipelines -> Phases] /\ reached \in [Pipelines -> Nat]
    /\ granted \in [Pipelines -> SUBSET Nat] /\ produces \in [Pipelines -> Products]
ServiceTypes ==
    registry \subseteq Debugs /\ handler \in Debugs \cup {Nobody} /\ commands \in Seq(Messages)
ConsoleTypes ==
    /\ client \in Seq(Messages) /\ at \in [MetaConsoles -> [poll : Waits, held : Messages]]
    /\ latest \in [Pipelines -> Nat]
MetaTypes == PipelineTypes /\ ServiceTypes /\ ConsoleTypes

\* A pipeline has a grant for each stage it has passed, and works only past a
\* stage that was granted.
GateInv ==
    \A r \in Debugs :
      /\ \A g \in 1 .. reached[r] - 1 : g \in granted[r]
      /\ phase[r] = "unborn" => reached[r] = 0
      /\ phase[r] = "working" => reached[r] = 0 \/ reached[r] \in granted[r]

\* The reports and the responses that are on their way, or were: exactly those
\* that were sent.
Traced(m) == m.type \in {"report", "final"}
Known(m) == Queued(m) \/ Held(m) \/ m \in displayed \cup lost
Sent(m) ==
    /\ m.run \in Pipelines
    /\ \/ m.type = "report" /\ m.stage \in 1 .. reached[m.run]
          /\ ~(m.stage = reached[m.run] /\ produces[m.run] = "report")
       \/ m.type = "final" /\ m.stage = 0 /\ produces[m.run] \in {"retire", "gone"}
Kept(m) == (Known(m) <=> Sent(m)) /\ NotDoubled(m)
ReportInv ==
    /\ \A m \in Messages : Traced(m) => Kept(m)
    /\ \A r \in Pipelines : produces[r] = "report" => reached[r] # 0
    /\ \A r \in Pipelines : latest[r] <= reached[r]
    /\ \A c \in MetaConsoles : at[c].poll = "line" => at[c].held = Empty

\* Of a pipeline that nobody was careless with: the advances typed, those in
\* the queue, and the one that is being carried out.
TypedInv(r) ==
    /\ \A k \in Nat : <<r, k>> \in typed => k \in 2 .. DebugStages /\ k - 1 <= reached[r]
    /\ \A g \in granted[r] : <<r, g + 1>> \in typed
QueueInv(r) ==
    \A k \in Nat :
      /\ AtMostOnce(commands, Advance(r, k))
      /\ In(commands, Advance(r, k)) =>
           /\ <<r, k>> \in typed /\ k - 1 \notin granted[r]
           /\ handler = r => k # reached[r] + 1
HandlerInv(r) ==
    handler = r =>
      reached[r] # 0 /\ reached[r] \notin granted[r] /\ <<r, reached[r] + 1>> \in typed
InTurnInv == \A r \in Debugs \ careless : TypedInv(r) /\ QueueInv(r) /\ HandlerInv(r)

MetaInv == MetaTypes /\ GateInv /\ ReportInv /\ InTurnInv /\ refused \subseteq careless

-----------------------------------------------------------------------------
(* Queues and messages *)

LEMMA AppendedTo ==
    ASSUME NEW S, NEW q \in Seq(S), NEW e \in S, NEW m
    PROVE  /\ Append(q, e) \in Seq(S)
           /\ In(Append(q, e), m) <=> In(q, m) \/ m = e
           /\ AtMostOnce(q, m) /\ ~(In(q, m) /\ m = e) => AtMostOnce(Append(q, e), m)
<1>1. /\ Append(q, e) \in Seq(S)
      /\ Len(Append(q, e)) = Len(q) + 1 /\ Len(q) \in Nat
      /\ \A i \in 1 .. Len(q) : Append(q, e)[i] = q[i]
      /\ Append(q, e)[Len(q) + 1] = e
      /\ DOMAIN q = 1 .. Len(q) /\ DOMAIN Append(q, e) = 1 .. Len(q) + 1
  BY AppendProperties, LenProperties
<1>2. In(Append(q, e), m) <=> In(q, m) \/ m = e
  BY <1>1 DEF In
<1>3. AtMostOnce(q, m) /\ ~(In(q, m) /\ m = e) => AtMostOnce(Append(q, e), m)
  BY <1>1 DEF In, AtMostOnce
<1> QED BY <1>1, <1>2, <1>3

LEMMA TakenFrom ==
    ASSUME NEW S, NEW q \in Seq(S), q # <<>>, NEW m
    PROVE  /\ Tail(q) \in Seq(S) /\ Head(q) \in S
           /\ In(q, m) <=> In(Tail(q), m) \/ m = Head(q)
           /\ AtMostOnce(q, m) => AtMostOnce(Tail(q), m) /\ ~(In(Tail(q), m) /\ m = Head(q))
<1>1. /\ Tail(q) \in Seq(S) /\ Head(q) \in S
      /\ Len(Tail(q)) = Len(q) - 1 /\ Len(q) \in Nat \ {0}
      /\ \A i \in 1 .. Len(Tail(q)) : Tail(q)[i] = q[i + 1]
      /\ Head(q) = q[1]
      /\ DOMAIN q = 1 .. Len(q) /\ DOMAIN Tail(q) = 1 .. Len(q) - 1
  BY HeadTailProperties, LenProperties, EmptySeq
<1>2. ASSUME In(q, m), m # Head(q) PROVE In(Tail(q), m)
  <2>1. PICK i \in 1 .. Len(q) : q[i] = m
    BY <1>1, <1>2 DEF In
  <2>2. i - 1 \in 1 .. Len(Tail(q)) /\ Tail(q)[i - 1] = m
    BY <1>1, <1>2, <2>1
  <2> QED BY <1>1, <2>2 DEF In
<1>3. In(Tail(q), m) => In(q, m)
  BY <1>1 DEF In
<1>4. m = Head(q) => In(q, m)
  BY <1>1 DEF In
<1>5. ASSUME AtMostOnce(q, m) PROVE AtMostOnce(Tail(q), m) /\ ~(In(Tail(q), m) /\ m = Head(q))
  <2>1. \A i, j \in 1 .. Len(q) - 1 : Tail(q)[i] = m /\ Tail(q)[j] = m => i = j
    BY <1>1, <1>5 DEF AtMostOnce
  <2>2. \A i \in 1 .. Len(q) - 1 : ~(Tail(q)[i] = m /\ q[1] = m)
    BY <1>1, <1>5 DEF AtMostOnce
  <2> QED BY <1>1, <2>1, <2>2 DEF In, AtMostOnce
<1> QED BY <1>1, <1>2, <1>3, <1>4, <1>5

\* A message is what its fields are.
LEMMA MessageFields ==
    /\ \A m \in Messages : m = Message(m.type, m.run, m.stage)
    /\ \A type \in MessageTypes, r \in Pipelines \cup {Nobody}, k \in Nat : Message(type, r, k) \in Messages
    /\ \A type, r, k : Message(type, r, k).type = type /\ Message(type, r, k).run = r /\ Message(type, r, k).stage = k
    /\ Empty \in Messages /\ ~Traced(Empty)
<1>1. ASSUME NEW m \in Messages PROVE m = Message(m.type, m.run, m.stage)
  BY DEF Messages, Message
<1>2. \A type \in MessageTypes, r \in Pipelines \cup {Nobody}, k \in Nat : Message(type, r, k) \in Messages
  BY DEF Messages, Message
<1>3. \A type, r, k : Message(type, r, k).type = type /\ Message(type, r, k).run = r /\ Message(type, r, k).stage = k
  BY DEF Message
<1>4. Empty \in Messages /\ ~Traced(Empty)
  BY <1>2 DEF Empty, Traced, Message, MessageTypes
<1> QED BY <1>1, <1>2, <1>3, <1>4

-----------------------------------------------------------------------------
(* What consoles do *)

\* A poll takes the next message, and prints it, drops it, or holds it back.
Takes(c) ==
    /\ at[c].poll # "line" /\ at[c].held = Empty
    /\ client # <<>> /\ client' = Tail(client)
    /\ UNCHANGED <<service, commands, issued, typed, careless>>
    /\ \/ \E poll \in Waits : Prints(c, Head(client), poll) \/ Loses(c, Head(client), poll)
       \/ HoldsBack(c, Head(client))
    /\ \/ UNCHANGED latest
       \/ /\ Head(client).type = "report"
          /\ latest' = [latest EXCEPT ![Head(client).run] = Head(client).stage]

\* Ctrl-C before what a poll holds goes back.
LosesHeld(c) ==
    /\ at[c].held # Empty /\ Loses(c, at[c].held, "line")
    /\ UNCHANGED <<service, commands, client, latest, issued, typed, careless>>

ServiceRequests == {"collect", "status", "abort", "meta"}
AsksService(c) ==
    \E type \in ServiceRequests, r \in Debugs \cup {Nobody}, poll \in Waits :
      Issues(c, type, r, 0, poll) /\ UNCHANGED careless

LEMMA ConsoleMoves ==
    ASSUME NEW c \in MetaConsoles, Console(c)
    PROVE  \/ AsksService(c) \/ Takes(c) \/ PutsMessageBack(c) \/ StopsWaiting(c) \/ LosesHeld(c)
           \/ \E r \in Debugs, k \in 2 .. DebugStages : RunDebugAdvance(c, r, k)
<1>1. ASSUME \/ RunDebugCollect(c) \/ RunDebugStatus(c, Nobody) \/ RunMetaAgent(c)
             \/ \E r \in Debugs : RunDebugAbort(c, r) \/ RunDebugStatus(c, r)
      PROVE  AsksService(c)
  BY <1>1 DEF AsksService, ServiceRequests, Waits, RunDebugCollect, RunDebugStatus, RunMetaAgent, RunDebugAbort
<1>2. ASSUME PollDebugStageResponses(c) PROVE Takes(c)
  <2>1. \/ \E poll \in {"stage", "line"} : Prints(c, Head(client), poll)
        \/ HoldsBack(c, Head(client))
    BY <1>2 DEF PollDebugStageResponses
  <2> QED BY <1>2, <2>1 DEF PollDebugStageResponses, Takes, Polls, Waits
<1>3. ASSUME PollStatus(c) PROVE Takes(c)
  BY <1>3 DEF PollStatus, Takes, Polls, Waits
<1>4. ASSUME WaitStarted(c) PROVE Takes(c)
  BY <1>4 DEF WaitStarted, Takes, Polls, Waits
<1>5. ASSUME PollMetaAgentResponses(c) PROVE Takes(c)
  BY <1>5 DEF PollMetaAgentResponses, Takes, Polls, Waits
<1>6. ASSUME Breaks(c) PROVE Takes(c) \/ LosesHeld(c)
  BY <1>6 DEF Breaks, Takes, LosesHeld, Waits
<1> QED BY <1>1, <1>2, <1>3, <1>4, <1>5, <1>6 DEF Console

-----------------------------------------------------------------------------
(* Where messages are *)

LEMMA Stays ==
    ASSUME UNCHANGED <<client, displayed, lost>>, \A c \in MetaConsoles : at'[c].held = at[c].held, NEW m
    PROVE  (Known(m)' <=> Known(m)) /\ (NotDoubled(m)' <=> NotDoubled(m))
BY DEF Known, NotDoubled, Queued, Held

\* A message is put on client_control.
LEMMA Arrives ==
    ASSUME MetaTypes, NEW e \in Messages, client' = Append(client, e), UNCHANGED <<at, displayed, lost>>, NEW m
    PROVE  /\ Known(m)' <=> Known(m) \/ m = e
           /\ NotDoubled(m) /\ ~(m = e /\ Known(m)) => NotDoubled(m)'
<1>1. /\ In(client', m) <=> In(client, m) \/ m = e
      /\ AtMostOnce(client, m) /\ ~(In(client, m) /\ m = e) => AtMostOnce(client', m)
  BY AppendedTo DEF MetaTypes, ConsoleTypes
<1>2. (Queued(m) <=> In(client, m)) /\ (Queued(m)' <=> In(client', m)) /\ (Held(m)' <=> Held(m))
  BY DEF Queued, In, Held
<1>3. Known(m)' <=> Known(m) \/ m = e
  BY <1>1, <1>2 DEF Known
<1>4. ASSUME NotDoubled(m), ~(m = e /\ Known(m)) PROVE NotDoubled(m)'
  BY <1>1, <1>2, <1>4 DEF NotDoubled, AtMostOnce, Known
<1> QED BY <1>3, <1>4

\* A poll takes a message.
LEMMA Leaves ==
    ASSUME MetaTypes, NEW c \in MetaConsoles, Takes(c), NEW m \in Messages, Traced(m)
    PROVE  (Known(m)' <=> Known(m)) /\ (NotDoubled(m) => NotDoubled(m)')
<1> DEFINE e == Head(client)
<1>1. /\ In(client, m) <=> In(client', m) \/ m = e
      /\ AtMostOnce(client, m) => AtMostOnce(client', m) /\ ~(In(client', m) /\ m = e)
  BY TakenFrom DEF MetaTypes, ConsoleTypes, Takes
<1>2. (Queued(m) <=> In(client, m)) /\ (Queued(m)' <=> In(client', m))
  BY DEF Queued, In
<1>3. m # Empty
  BY MessageFields
<1>4. (\A d \in MetaConsoles \ {c} : at'[d] = at[d]) /\ at[c].held = Empty
  BY DEF Takes, Prints, Loses, HoldsBack, Turns, MetaTypes, ConsoleTypes
<1>5. CASE /\ at'[c].held = Empty
           /\ \/ displayed' = With(displayed, e) /\ lost' = lost
              \/ lost' = With(lost, e) /\ displayed' = displayed
  <2>1. /\ Held(m)' <=> Held(m)
        /\ m \in displayed' \cup lost' <=> m \in displayed \cup lost \/ m = e
        /\ m \in displayed' \cap lost' => m \in displayed \cap lost \/ (m = e /\ m \in displayed \cup lost)
    BY <1>3, <1>4, <1>5 DEF Held, With, Traced
  <2>2. \A d \in MetaConsoles : at'[d].held = at[d].held
    BY <1>4, <1>5
  <2>3. Known(m)' <=> Known(m)
    BY <1>1, <1>2, <2>1 DEF Known
  <2>4. ASSUME NotDoubled(m) PROVE NotDoubled(m)'
    <3>1. AtMostOnce(client, m)
      BY <2>4 DEF NotDoubled, AtMostOnce
    <3>2. AtMostOnce(client', m) /\ ~(In(client', m) /\ m = e)
      BY <1>1, <3>1
    <3>3. ~(Queued(m)' /\ Held(m)') /\ ~(m \in displayed' \cup lost' /\ (Queued(m)' \/ Held(m)')) /\ m \notin displayed' \cap lost'
      BY <1>1, <1>2, <2>1, <2>4, <3>2 DEF NotDoubled
    <3> QED BY <2>2, <2>4, <3>2, <3>3 DEF NotDoubled, AtMostOnce
  <2> QED BY <2>3, <2>4
<1>6. CASE at'[c].held = e /\ UNCHANGED <<displayed, lost>>
  <2>1. Held(m)' <=> Held(m) \/ m = e
    BY <1>3, <1>4, <1>6 DEF Held
  <2>2. Known(m)' <=> Known(m)
    BY <1>1, <1>2, <1>6, <2>1 DEF Known
  <2>3. ASSUME NotDoubled(m) PROVE NotDoubled(m)'
    <3>1. AtMostOnce(client, m)
      BY <2>3 DEF NotDoubled, AtMostOnce
    <3>2. AtMostOnce(client', m) /\ ~(In(client', m) /\ m = e)
      BY <1>1, <3>1
    <3>3. ~(Queued(m)' /\ Held(m)') /\ ~(m \in displayed' \cup lost' /\ (Queued(m)' \/ Held(m)')) /\ m \notin displayed' \cap lost'
      BY <1>1, <1>2, <1>6, <2>1, <2>3, <3>2 DEF NotDoubled
    <3>4. m = e => ~Held(m)
      BY <1>1, <1>2, <2>3 DEF NotDoubled
    <3>5. \A d, f \in MetaConsoles : at'[d].held = m /\ at'[f].held = m => d = f
      BY <1>4, <1>6, <2>3, <3>4 DEF NotDoubled, Held
    <3> QED BY <3>2, <3>3, <3>5 DEF NotDoubled, AtMostOnce
  <2> QED BY <2>2, <2>3
<1>7. \/ /\ at'[c].held = Empty
         /\ \/ displayed' = With(displayed, e) /\ lost' = lost
            \/ lost' = With(lost, e) /\ displayed' = displayed
      \/ at'[c].held = e /\ UNCHANGED <<displayed, lost>>
  BY DEF Takes, Prints, Loses, HoldsBack, Turns, MetaTypes, ConsoleTypes
<1> QED BY <1>5, <1>6, <1>7

\* A poll puts the message it held back where it was taken from.
LEMMA Returns ==
    ASSUME MetaTypes, NEW c \in MetaConsoles, PutsMessageBack(c), NEW m \in Messages, Traced(m)
    PROVE  (Known(m)' <=> Known(m)) /\ (NotDoubled(m) => NotDoubled(m)')
<1> DEFINE e == at[c].held
<1>1. e \in Messages /\ client' = Append(client, e) /\ UNCHANGED <<displayed, lost>>
  BY DEF PutsMessageBack, MetaTypes, ConsoleTypes
<1>2. /\ In(client', m) <=> In(client, m) \/ m = e
      /\ AtMostOnce(client, m) /\ ~(In(client, m) /\ m = e) => AtMostOnce(client', m)
  BY <1>1, AppendedTo DEF MetaTypes, ConsoleTypes
<1>3. (Queued(m) <=> In(client, m)) /\ (Queued(m)' <=> In(client', m))
  BY DEF Queued, In
<1>4. m # Empty
  BY MessageFields
<1>5. (\A d \in MetaConsoles \ {c} : at'[d] = at[d]) /\ at'[c].held = Empty
  BY DEF PutsMessageBack, Turns, MetaTypes, ConsoleTypes
<1>6. (Held(m)' => Held(m)) /\ (Held(m) => Held(m)' \/ m = e) /\ (m = e => Held(m))
  BY <1>4, <1>5 DEF Held
<1>7. Known(m)' <=> Known(m)
  BY <1>1, <1>2, <1>3, <1>6 DEF Known
<1>8. ASSUME NotDoubled(m) PROVE NotDoubled(m)'
  <2>1. m = e => ~Held(m)'
    BY <1>4, <1>5, <1>8 DEF NotDoubled, Held
  <2>2. ~(Queued(m)' /\ Held(m)') /\ ~(m \in displayed' \cup lost' /\ (Queued(m)' \/ Held(m)')) /\ m \notin displayed' \cap lost'
    BY <1>1, <1>2, <1>3, <1>6, <1>8, <2>1 DEF NotDoubled
  <2>3. AtMostOnce(client', m)
    BY <1>2, <1>3, <1>6, <1>8 DEF NotDoubled, AtMostOnce
  <2>4. \A d, f \in MetaConsoles : at'[d].held = m /\ at'[f].held = m => d = f
    BY <1>4, <1>5, <1>8 DEF NotDoubled
  <2> QED BY <2>2, <2>3, <2>4 DEF NotDoubled, AtMostOnce
<1> QED BY <1>7, <1>8

\* A poll loses the message it held.
LEMMA HeldIsLost ==
    ASSUME MetaTypes, NEW c \in MetaConsoles, LosesHeld(c), NEW m \in Messages, Traced(m)
    PROVE  (Known(m)' <=> Known(m)) /\ (NotDoubled(m) => NotDoubled(m)')
<1> DEFINE e == at[c].held
<1>1. client' = client /\ displayed' = displayed /\ lost' = With(lost, e)
  BY DEF LosesHeld, Loses
<1>2. (\A d \in MetaConsoles \ {c} : at'[d] = at[d]) /\ at'[c].held = Empty
  BY DEF LosesHeld, Loses, Turns, MetaTypes, ConsoleTypes
<1>3. m # Empty
  BY MessageFields
<1>4. Queued(m)' <=> Queued(m)
  BY <1>1 DEF Queued
<1>5. /\ (Held(m)' => Held(m)) /\ (Held(m) => Held(m)' \/ m = e) /\ (m = e => Held(m))
      /\ m \in lost' <=> m \in lost \/ m = e
  BY <1>1, <1>2, <1>3 DEF Held, With, Traced
<1>6. Known(m)' <=> Known(m)
  BY <1>1, <1>4, <1>5 DEF Known
<1>7. ASSUME NotDoubled(m) PROVE NotDoubled(m)'
  <2>1. m = e => ~Held(m)'
    BY <1>2, <1>3, <1>7 DEF NotDoubled, Held
  <2>2. ~(Queued(m)' /\ Held(m)') /\ ~(m \in displayed' \cup lost' /\ (Queued(m)' \/ Held(m)')) /\ m \notin displayed' \cap lost'
    BY <1>1, <1>4, <1>5, <1>7, <2>1 DEF NotDoubled
  <2>3. \A d, f \in MetaConsoles : at'[d].held = m /\ at'[f].held = m => d = f
    BY <1>2, <1>3, <1>7 DEF NotDoubled
  <2>4. \A i, j \in DOMAIN client' : client'[i] = m /\ client'[j] = m => i = j
    BY <1>1, <1>7 DEF NotDoubled
  <2> QED BY <2>2, <2>3, <2>4 DEF NotDoubled
<1> QED BY <1>6, <1>7

-----------------------------------------------------------------------------
(* MessageTypes *)

LEMMA NobodyIsNoPipeline == Nobody \notin Pipelines /\ Debugs \subseteq Pipelines /\ Plains \subseteq Pipelines
BY MetaAssumption DEF Nobody, Pipelines

LEMMA SaysTypes ==
    ASSUME MetaTypes, NEW type \in MessageTypes, NEW r \in Pipelines \cup {Nobody}, NEW k \in Nat, Says(type, r, k)
    PROVE  client' \in Seq(Messages)
BY MessageFields, AppendedTo DEF Says, MetaTypes, ConsoleTypes

LEMMA ConsoleTypeStep ==
    ASSUME MetaTypes, NEW c \in MetaConsoles, Console(c)
    PROVE  MetaTypes'
<1>1. ASSUME NEW type \in MessageTypes, NEW r \in Debugs \cup {Nobody}, NEW k \in Nat, NEW poll \in Waits,
             Issues(c, type, r, k, poll)
      PROVE  MetaTypes'
  <2>1. Message(type, r, k) \in Messages
    BY <1>1, MessageFields, NobodyIsNoPipeline
  <2>2. commands' \in Seq(Messages)
    BY <1>1, <2>1, AppendedTo DEF Issues, MetaTypes, ServiceTypes
  <2>3. at' \in [MetaConsoles -> [poll : Waits, held : Messages]]
    BY <1>1, MessageFields DEF Issues, Turns, MetaTypes, ConsoleTypes
  <2> QED BY <1>1, <2>2, <2>3 DEF Issues, service, MetaTypes, PipelineTypes, ServiceTypes, ConsoleTypes
<1>2. ASSUME AsksService(c) PROVE MetaTypes'
  BY <1>1, <1>2 DEF AsksService, ServiceRequests, MessageTypes
<1>3. ASSUME NEW r \in Debugs, NEW k \in 2 .. DebugStages, RunDebugAdvance(c, r, k) PROVE MetaTypes'
  <2>1. k \in Nat
    BY MetaAssumption
  <2> QED BY <1>1, <1>3, <2>1 DEF RunDebugAdvance, MessageTypes, Waits
<1>4. ASSUME Takes(c) PROVE MetaTypes'
  <2>1. Tail(client) \in Seq(Messages) /\ Head(client) \in Messages
    BY <1>4, TakenFrom DEF Takes, MetaTypes, ConsoleTypes
  <2>2. at' \in [MetaConsoles -> [poll : Waits, held : Messages]]
    <3>1. ASSUME NEW poll \in Waits, NEW m \in Messages, Turns(c, poll, m)
          PROVE  at' \in [MetaConsoles -> [poll : Waits, held : Messages]]
      BY <3>1 DEF Turns, MetaTypes, ConsoleTypes
    <3>2. at[c].poll \in Waits
      BY DEF MetaTypes, ConsoleTypes
    <3> QED BY <1>4, <2>1, <3>1, <3>2, MessageFields DEF Takes, Prints, Loses, HoldsBack
  <2>3. latest' \in [Pipelines -> Nat]
    BY <1>4, <2>1 DEF Takes, MetaTypes, ConsoleTypes, Messages
  <2> QED BY <1>4, <2>1, <2>2, <2>3 DEF Takes, service, MetaTypes, PipelineTypes, ServiceTypes, ConsoleTypes
<1>5. ASSUME PutsMessageBack(c) PROVE MetaTypes'
  <2>1. client' \in Seq(Messages)
    BY <1>5, AppendedTo DEF PutsMessageBack, MetaTypes, ConsoleTypes
  <2>2. at' \in [MetaConsoles -> [poll : Waits, held : Messages]]
    BY <1>5, MessageFields DEF PutsMessageBack, Turns, MetaTypes, ConsoleTypes
  <2> QED
    BY <1>5, <2>1, <2>2 DEF PutsMessageBack, service, MetaTypes, PipelineTypes, ServiceTypes, ConsoleTypes
<1>6. ASSUME StopsWaiting(c) PROVE MetaTypes'
  <2>1. at' \in [MetaConsoles -> [poll : Waits, held : Messages]]
    BY <1>6, MessageFields DEF StopsWaiting, Turns, Waits, MetaTypes, ConsoleTypes
  <2> QED BY <1>6, <2>1 DEF StopsWaiting, service, MetaTypes, PipelineTypes, ServiceTypes, ConsoleTypes
<1>7. ASSUME LosesHeld(c) PROVE MetaTypes'
  <2>1. at' \in [MetaConsoles -> [poll : Waits, held : Messages]]
    BY <1>7, MessageFields DEF LosesHeld, Loses, Turns, Waits, MetaTypes, ConsoleTypes
  <2> QED BY <1>7, <2>1 DEF LosesHeld, service, MetaTypes, PipelineTypes, ServiceTypes, ConsoleTypes
<1> QED BY <1>2, <1>3, <1>4, <1>5, <1>6, <1>7, ConsoleMoves

LEMMA ServiceTypeStep ==
    ASSUME MetaTypes,
           \/ HandleDebugCollect \/ HandleDebugAdvance \/ Resumes
           \/ HandleDebugAbort \/ HandleDebugStatus \/ HandleRunMetaAgent
    PROVE  MetaTypes'
<1> USE NobodyIsNoPipeline DEF MetaTypes, PipelineTypes, ServiceTypes, ConsoleTypes, consoles
<1>1. ASSUME NEW type, Gets(type)
      PROVE  commands' \in Seq(Messages) /\ Head(commands) \in Messages
  BY <1>1, TakenFrom DEF Gets
<1>2. ASSUME HandleDebugCollect PROVE MetaTypes'
  <2>1. CASE Acks("error")
    BY <1>1, <1>2, <2>1, SaysTypes DEF HandleDebugCollect, Gets, Acks, MessageTypes
  <2>2. CASE \E r \in Debugs : Gate!Start(r) /\ registry' = registry \cup {r} /\ Says("created", r, 0) /\ UNCHANGED handler
    BY <1>1, <1>2, <2>2, SaysTypes
      DEF HandleDebugCollect, Gets, Gate!Start, Gate!Moves, MessageTypes, Phases
  <2> QED BY <1>2, <2>1, <2>2 DEF HandleDebugCollect
<1>3. ASSUME HandleDebugAdvance PROVE MetaTypes'
  <2>1. Head(commands).run \in Pipelines \cup {Nobody}
    BY <1>1, <1>3 DEF HandleDebugAdvance, Messages
  <2>2. CASE Acks("error")
    BY <1>1, <1>3, <2>1, <2>2, SaysTypes DEF HandleDebugAdvance, Gets, Acks, MessageTypes
  <2>3. CASE /\ Head(commands).run \in registry /\ handler' = Head(commands).run
             /\ UNCHANGED <<phase, reached, granted, registry, client, refused>>
    BY <1>1, <1>3, <2>3 DEF HandleDebugAdvance, Gets
  <2> QED BY <1>3, <2>2, <2>3 DEF HandleDebugAdvance
<1>4. ASSUME Resumes PROVE MetaTypes'
  <2>1. CASE handler \in registry /\ Gate!Grant(handler) /\ UNCHANGED client
    BY <1>4, <2>1 DEF Resumes, Gate!Grant
  <2>2. CASE Says("error", Nobody, 0) /\ UNCHANGED <<phase, reached, granted>>
    BY <1>4, <2>2, SaysTypes DEF Resumes, MessageTypes
  <2> QED BY <1>4, <2>1, <2>2 DEF Resumes
<1>5. ASSUME HandleDebugAbort PROVE MetaTypes'
  <2>1. Head(commands).run \in Pipelines \cup {Nobody}
    BY <1>1, <1>5 DEF HandleDebugAbort, Messages
  <2> QED BY <1>1, <1>5, <2>1, SaysTypes DEF HandleDebugAbort, Gets, Acks, MessageTypes
<1>6. ASSUME HandleDebugStatus PROVE MetaTypes'
  BY <1>1, <1>6, SaysTypes DEF HandleDebugStatus, Gets, Acks, MessageTypes
<1>7. ASSUME HandleRunMetaAgent PROVE MetaTypes'
  BY <1>1, <1>7, SaysTypes DEF HandleRunMetaAgent, Gets, MessageTypes, Phases
<1> QED BY <1>2, <1>3, <1>4, <1>5, <1>6, <1>7

LEMMA ThreadTypeStep ==
    ASSUME MetaTypes, NEW r \in Pipelines, Thread(r)
    PROVE  MetaTypes'
<1> USE NobodyIsNoPipeline
    DEF MetaTypes, PipelineTypes, ServiceTypes, ConsoleTypes, consoles, Thinks, Produces, Phases, Products
<1>1. ASSUME ReachesStage(r) PROVE MetaTypes'
  BY <1>1 DEF ReachesStage, Gate!Reach, Gate!Moves
<1>2. ASSUME PassesGate(r) PROVE MetaTypes'
  BY <1>2 DEF PassesGate, Gate!Pass, Gate!Moves
<1>3. ASSUME EndsPipeline(r) PROVE MetaTypes'
  BY <1>3 DEF EndsPipeline, Gate!End, Gate!Moves
<1>4. ASSUME EndsPlain(r) PROVE MetaTypes'
  BY <1>4 DEF EndsPlain
<1>5. ASSUME UNCHANGED <<phase, reached, granted, commands, handler, refused, consoles>>, SendsStateMessage(r)
      PROVE  MetaTypes'
  BY <1>5, SaysTypes DEF SendsStateMessage, MessageTypes
<1>6. ASSUME UNCHANGED <<phase, reached, granted, commands, handler, refused, consoles>>, SendsResponse(r)
      PROVE  MetaTypes'
  BY <1>6, SaysTypes DEF SendsResponse, MessageTypes
<1>7. ASSUME UNCHANGED <<phase, reached, granted, commands, handler, refused, consoles>>, Retires(r)
      PROVE  MetaTypes'
  BY <1>7 DEF Retires
<1> QED BY <1>1, <1>2, <1>3, <1>4, <1>5, <1>6, <1>7 DEF Thread

LEMMA MetaTypeStep ==
    ASSUME MetaTypes, [MetaNext]_metaVars
    PROVE  MetaTypes'
<1>1. CASE UNCHANGED metaVars
  BY <1>1 DEF metaVars, MetaTypes, PipelineTypes, ServiceTypes, ConsoleTypes
<1>2. CASE MetaNext
  BY <1>2, ConsoleTypeStep, ServiceTypeStep, ThreadTypeStep DEF MetaNext
<1> QED BY <1>1, <1>2

-----------------------------------------------------------------------------
(* Gates *)

LEMMA GateStep ==
    ASSUME MetaInv, [MetaNext]_metaVars
    PROVE  GateInv'
<1> USE NobodyIsNoPipeline DEF MetaInv, MetaTypes, PipelineTypes, ServiceTypes
<1>1. ASSUME UNCHANGED <<phase, reached, granted>> PROVE GateInv'
  BY <1>1 DEF GateInv
<1>2. ASSUME NEW c \in MetaConsoles, Console(c) PROVE UNCHANGED <<phase, reached, granted>>
  BY <1>2, ConsoleMoves
    DEF AsksService, Issues, Takes, PutsMessageBack, StopsWaiting, LosesHeld, RunDebugAdvance, service
<1>3. ASSUME HandleDebugCollect PROVE GateInv'
  <2>1. ASSUME NEW r \in Debugs, Gate!Start(r) PROVE GateInv'
    BY <2>1 DEF Gate!Start, Gate!Moves, GateInv
  <2> QED BY <1>1, <1>3, <2>1 DEF HandleDebugCollect, Acks
<1>4. ASSUME Resumes PROVE GateInv'
  <2>1. CASE handler \in registry /\ Gate!Grant(handler)
    BY <2>1 DEF Gate!Grant, GateInv
  <2> QED BY <1>1, <1>4, <2>1 DEF Resumes
<1>5. ASSUME HandleDebugAdvance \/ HandleDebugAbort \/ HandleDebugStatus
      PROVE  UNCHANGED <<phase, reached, granted>>
  BY <1>5 DEF HandleDebugAdvance, HandleDebugAbort, HandleDebugStatus, Acks
<1>6. ASSUME HandleRunMetaAgent PROVE GateInv'
  BY <1>6, MetaAssumption DEF HandleRunMetaAgent, GateInv
<1>7. ASSUME NEW r \in Pipelines, Thread(r) PROVE GateInv'
  <2>1. CASE r \in Debugs /\ ReachesStage(r)
    <3>1. /\ phase[r] = "working" /\ phase' = [phase EXCEPT ![r] = "gated"]
          /\ reached' = [reached EXCEPT ![r] = @ + 1] /\ granted' = granted
      BY <2>1 DEF ReachesStage, Gate!Reach, Gate!Moves
    <3>2. \A g \in 1 .. reached[r] : g \in granted[r]
      BY <3>1, <2>1 DEF GateInv
    <3> QED BY <2>1, <3>1, <3>2 DEF GateInv
  <2>2. CASE r \in Debugs /\ PassesGate(r)
    BY <2>2 DEF PassesGate, Gate!Pass, Gate!Moves, GateInv
  <2>3. CASE r \in Debugs /\ EndsPipeline(r)
    BY <2>3 DEF EndsPipeline, Gate!End, Gate!Moves, GateInv
  <2>4. CASE r \in Plains /\ EndsPlain(r)
    BY <2>4, MetaAssumption DEF EndsPlain, GateInv
  <2> QED BY <1>1, <1>7, <2>1, <2>2, <2>3, <2>4 DEF Thread
<1>8. ASSUME UNCHANGED metaVars PROVE UNCHANGED <<phase, reached, granted>>
  BY <1>8 DEF metaVars
<1> QED BY <1>1, <1>2, <1>3, <1>4, <1>5, <1>6, <1>7, <1>8 DEF MetaNext

-----------------------------------------------------------------------------
(* Reports and responses *)

LEMMA TakesKeepsReports ==
    ASSUME MetaInv, NEW c \in MetaConsoles, Takes(c)
    PROVE  ReportInv'
<1> USE DEF MetaInv, MetaTypes, ConsoleTypes
<1>1. UNCHANGED <<reached, produces>>
  BY DEF Takes, service
<1>2. ASSUME NEW m \in Messages, Traced(m) PROVE Kept(m)'
  BY <1>1, <1>2, Leaves DEF Kept, Sent, ReportInv
<1>3. ASSUME NEW r \in Pipelines PROVE latest'[r] <= reached'[r]
  <2> DEFINE m == Head(client)
  <2>1. CASE latest' = latest
    BY <1>1, <2>1 DEF ReportInv
  <2>2. CASE m.type = "report" /\ latest' = [latest EXCEPT ![m.run] = m.stage]
    <3>1. m \in Messages /\ In(client, m)
      BY TakenFrom DEF Takes
    <3>2. Known(m) /\ Traced(m)
      BY <2>2, <3>1 DEF Known, Queued, In, Traced
    <3>3. Sent(m)
      BY <3>1, <3>2 DEF ReportInv, Kept
    <3>4. m.stage <= reached[m.run]
      BY <2>2, <3>3 DEF Sent
    <3> QED BY <1>1, <2>2, <3>4 DEF ReportInv
  <2> QED BY <2>1, <2>2 DEF Takes
<1>4. ASSUME NEW d \in MetaConsoles, at'[d].poll = "line" PROVE at'[d].held = Empty
  <2>1. PICK poll, m : Turns(c, poll, m) /\ (m = Empty \/ poll = at[c].poll)
    BY DEF Takes, Prints, Loses, HoldsBack
  <2>2. at[c].poll # "line" /\ \A e \in MetaConsoles : at[e].poll = "line" => at[e].held = Empty
    BY DEF Takes, ReportInv
  <2> QED BY <1>4, <2>1, <2>2 DEF Turns
<1> QED BY <1>1, <1>2, <1>3, <1>4 DEF ReportInv

LEMMA ConsoleKeepsReports ==
    ASSUME MetaInv, NEW c \in MetaConsoles, Console(c)
    PROVE  ReportInv'
<1> USE DEF MetaInv, MetaTypes, ConsoleTypes
<1>1. ASSUME UNCHANGED <<client, displayed, lost, reached, produces, latest>>, NEW poll, Turns(c, poll, Empty), at[c].held = Empty
      PROVE  ReportInv'
  <2>1. \A d \in MetaConsoles : at'[d].held = at[d].held
    BY <1>1 DEF Turns
  <2>2. ASSUME NEW m \in Messages, Traced(m) PROVE Kept(m)'
    BY <1>1, <2>1, <2>2, Stays DEF Kept, Sent, ReportInv
  <2>3. \A d \in MetaConsoles : at'[d].poll = "line" => at'[d].held = Empty
    BY <1>1 DEF Turns, ReportInv
  <2> QED BY <1>1, <2>2, <2>3 DEF ReportInv
<1>2. ASSUME NEW type, NEW r, NEW k, NEW poll, Issues(c, type, r, k, poll) PROVE ReportInv'
  <2>1. at[c].held = Empty
    BY <1>2 DEF Issues, ReportInv
  <2> QED BY <1>1, <1>2, <2>1 DEF Issues, service
<1>3. ASSUME PutsMessageBack(c) PROVE ReportInv'
  <2>1. ASSUME NEW m \in Messages, Traced(m) PROVE Kept(m)'
    BY <1>3, <2>1, Returns DEF PutsMessageBack, service, Kept, Sent, ReportInv
  <2>2. \A d \in MetaConsoles : at'[d].poll = "line" => at'[d].held = Empty
    BY <1>3 DEF PutsMessageBack, Turns, ReportInv
  <2> QED BY <1>3, <2>1, <2>2 DEF PutsMessageBack, service, ReportInv
<1>4. ASSUME StopsWaiting(c) PROVE ReportInv'
  BY <1>1, <1>4 DEF StopsWaiting, service
<1>5. ASSUME LosesHeld(c) PROVE ReportInv'
  <2>1. ASSUME NEW m \in Messages, Traced(m) PROVE Kept(m)'
    BY <1>5, <2>1, HeldIsLost DEF LosesHeld, service, Kept, Sent, ReportInv
  <2>2. \A d \in MetaConsoles : at'[d].poll = "line" => at'[d].held = Empty
    BY <1>5 DEF LosesHeld, Loses, Turns, ReportInv
  <2> QED BY <1>5, <2>1, <2>2 DEF LosesHeld, service, ReportInv
<1> QED BY <1>2, <1>3, <1>4, <1>5, ConsoleMoves, TakesKeepsReports DEF AsksService, RunDebugAdvance

\* The rest of the system sends something, or nothing.
LEMMA NothingSent ==
    ASSUME MetaInv, UNCHANGED <<client, displayed, lost, at, latest>>,
           \A m \in Messages : Traced(m) => (Sent(m)' <=> Sent(m)),
           \A r \in Pipelines : reached[r] <= reached'[r] /\ (produces'[r] = "report" => reached'[r] # 0),
           reached' \in [Pipelines -> Nat]
    PROVE  ReportInv'
<1>1. ASSUME NEW m \in Messages, Traced(m) PROVE Kept(m)'
  BY <1>1, Stays DEF Kept, MetaInv, ReportInv
<1> QED BY <1>1 DEF MetaInv, ReportInv, MetaTypes, PipelineTypes, ConsoleTypes

LEMMA SomethingSent ==
    ASSUME MetaInv, NEW e \in Messages, client' = Append(client, e), UNCHANGED <<displayed, lost, at, latest, reached>>,
           \A m \in Messages : Traced(m) => (Sent(m)' <=> Sent(m) \/ m = e),
           Traced(e) => ~Sent(e),
           \A r \in Pipelines : produces'[r] = "report" => reached'[r] # 0
    PROVE  ReportInv'
<1>1. ASSUME NEW m \in Messages, Traced(m) PROVE Kept(m)'
  BY <1>1, Arrives DEF Kept, MetaInv, ReportInv
<1> QED BY <1>1 DEF MetaInv, ReportInv

LEMMA ServiceKeepsReports ==
    ASSUME MetaInv,
           \/ HandleDebugCollect \/ HandleDebugAdvance \/ Resumes
           \/ HandleDebugAbort \/ HandleDebugStatus \/ HandleRunMetaAgent
    PROVE  ReportInv'
<1> DEFINE Quiet == UNCHANGED <<reached, produces, consoles>>
<1>1. \A m : UNCHANGED <<reached, produces>> => (Sent(m)' <=> Sent(m))
  BY DEF Sent
<1>2. ASSUME Quiet, UNCHANGED client PROVE ReportInv'
  BY <1>1, <1>2, NothingSent DEF consoles, MetaInv, MetaTypes, PipelineTypes, ReportInv
<1>3. ASSUME Quiet, NEW type \in {"created", "error", "status", "started"}, NEW r \in Pipelines \cup {Nobody},
             Says(type, r, 0)
      PROVE  ReportInv'
  <2>1. Message(type, r, 0) \in Messages
    BY MessageFields DEF MessageTypes
  <2>2. Message(type, r, 0).type = type
    BY DEF Message
  <2>3. ~Traced(Message(type, r, 0))
    BY <2>2 DEF Traced
  <2>4. client' = Append(client, Message(type, r, 0))
    BY <1>3 DEF Says
  <2>5. \A m \in Messages : Traced(m) => (Sent(m)' <=> Sent(m) \/ m = Message(type, r, 0))
    BY <1>1, <1>3, <2>3
  <2> QED BY <1>3, <2>1, <2>3, <2>4, <2>5, SomethingSent DEF consoles, MetaInv, ReportInv
<1> HIDE DEF Quiet
<1>4. ASSUME HandleDebugCollect PROVE ReportInv'
  BY <1>3, <1>4, NobodyIsNoPipeline DEF Quiet, HandleDebugCollect, Gets, Acks, Gate!Start
<1>5. ASSUME NEW type, Gets(type)
      PROVE  Head(commands).run \in Pipelines \cup {Nobody}
  <2>1. Head(commands) \in Messages
    BY <1>5, TakenFrom DEF Gets, MetaInv, MetaTypes, ServiceTypes
  <2> QED BY <2>1 DEF Messages
<1>6. ASSUME HandleDebugAdvance PROVE ReportInv'
  BY <1>2, <1>3, <1>5, <1>6 DEF Quiet, HandleDebugAdvance, Gets, Acks
<1>7. ASSUME Resumes PROVE ReportInv'
  BY <1>2, <1>3, <1>7, NobodyIsNoPipeline DEF Quiet, Resumes, Gate!Grant, MetaInv, MetaTypes, ServiceTypes
<1>8. ASSUME HandleDebugAbort PROVE ReportInv'
  BY <1>2, <1>3, <1>5, <1>8 DEF Quiet, HandleDebugAbort, Gets, Acks
<1>9. ASSUME HandleDebugStatus PROVE ReportInv'
  BY <1>3, <1>9 DEF Quiet, HandleDebugStatus, Gets, Acks
<1>10. ASSUME HandleRunMetaAgent PROVE ReportInv'
  BY <1>3, <1>10 DEF Quiet, HandleRunMetaAgent, Gets
<1> QED BY <1>4, <1>6, <1>7, <1>8, <1>9, <1>10

LEMMA ThreadKeepsReports ==
    ASSUME MetaInv, NEW r \in Pipelines, Thread(r)
    PROVE  ReportInv'
<1> USE NobodyIsNoPipeline DEF MetaInv, MetaTypes, PipelineTypes, consoles, Produces
<1>1. ASSUME r \in Debugs, ReachesStage(r) PROVE ReportInv'
  <2>1. /\ produces[r] = "nothing" /\ produces' = [produces EXCEPT ![r] = "report"]
        /\ reached' = [reached EXCEPT ![r] = @ + 1] /\ UNCHANGED <<client, displayed, lost, at, latest>>
    BY <1>1 DEF ReachesStage, Thinks, Gate!Reach
  <2>2. \A m \in Messages : Traced(m) => (Sent(m)' <=> Sent(m))
    BY <2>1 DEF Sent, Messages
  <2> QED BY <2>1, <2>2, NothingSent DEF ReportInv
<1>2. ASSUME UNCHANGED <<reached, client, displayed, lost, at, latest>>, NEW old, NEW new,
             produces[r] = old, produces' = [produces EXCEPT ![r] = new],
             <<old, new>> \in {<<"nothing", "nothing">>, <<"nothing", "final">>, <<"retire", "gone">>}
      PROVE  ReportInv'
  <2>1. \A m \in Messages : Traced(m) => (Sent(m)' <=> Sent(m))
    BY <1>2 DEF Sent, Messages
  <2> QED BY <1>2, <2>1, NothingSent DEF ReportInv
<1>3. ASSUME r \in Debugs, PassesGate(r) PROVE ReportInv'
  <2>1. produces' = [produces EXCEPT ![r] = "nothing"]
    BY <1>3 DEF PassesGate, Thinks
  <2> QED BY <1>2, <1>3, <2>1 DEF PassesGate, Thinks, Gate!Pass
<1>4. ASSUME r \in Debugs, EndsPipeline(r) PROVE ReportInv'
  BY <1>2, <1>4 DEF EndsPipeline, Thinks, Gate!End
<1>5. ASSUME r \in Plains, EndsPlain(r) PROVE ReportInv'
  BY <1>2, <1>5 DEF EndsPlain, Thinks
<1>6. ASSUME UNCHANGED <<phase, reached, granted, commands, handler, refused, consoles>>, Retires(r)
      PROVE  ReportInv'
  BY <1>2, <1>6 DEF Retires
<1>7. ASSUME UNCHANGED <<phase, reached, granted, commands, handler, refused, consoles>>, SendsStateMessage(r)
      PROVE  ReportInv'
  <2> DEFINE e == Message("report", r, reached[r])
  <2>1. /\ produces[r] = "report" /\ produces' = [produces EXCEPT ![r] = "nothing"]
        /\ client' = Append(client, e) /\ reached[r] # 0
    BY <1>7 DEF SendsStateMessage, Says, ReportInv
  <2>2. e \in Messages /\ e.type = "report" /\ e.run = r /\ e.stage = reached[r]
    BY MessageFields DEF MessageTypes
  <2>3. \A m \in Messages : m.type = "report" /\ m.run = r /\ m.stage = reached[r] => m = e
    BY MessageFields
  <2> HIDE DEF e
  <2>4. ~Sent(e)
    BY <2>1, <2>2 DEF Sent
  <2>5. ASSUME NEW m \in Messages, Traced(m) PROVE Sent(m)' <=> Sent(m) \/ m = e
    <3>1. /\ reached' = reached /\ produces'[r] = "nothing" /\ reached[r] \in Nat \ {0}
          /\ \A q \in Pipelines \ {r} : produces'[q] = produces[q]
      BY <1>7, <2>1
    <3>2. CASE m.run = r
      <4>1. m = e <=> m.type = "report" /\ m.stage = reached[r]
        BY <2>2, <2>3, <3>2
      <4>2. Sent(m)' <=> (m.type = "report" /\ m.stage \in 1 .. reached[r])
        BY <3>1, <3>2 DEF Sent
      <4>3. Sent(m) <=> (m.type = "report" /\ m.stage \in 1 .. reached[r] /\ m.stage # reached[r])
        BY <2>1, <3>2 DEF Sent
      <4> QED BY <3>1, <4>1, <4>2, <4>3
    <3>3. CASE m.run # r
      BY <2>2, <3>1, <3>3 DEF Sent
    <3> QED BY <3>2, <3>3
  <2> QED BY <1>7, <2>1, <2>2, <2>4, <2>5, SomethingSent DEF ReportInv
<1>8. ASSUME UNCHANGED <<phase, reached, granted, commands, handler, refused, consoles>>, SendsResponse(r)
      PROVE  ReportInv'
  <2> DEFINE e == Message("final", r, 0)
  <2>1. /\ produces[r] = "final" /\ produces' = [produces EXCEPT ![r] = "retire"]
        /\ client' = Append(client, e)
    BY <1>8 DEF SendsResponse, Says
  <2>2. e \in Messages /\ e.type = "final" /\ e.run = r /\ e.stage = 0
    BY MessageFields DEF MessageTypes
  <2>3. \A m \in Messages : m.type = "final" /\ m.run = r /\ m.stage = 0 => m = e
    BY MessageFields
  <2> HIDE DEF e
  <2>4. ~Sent(e)
    BY <2>1, <2>2 DEF Sent
  <2>5. ASSUME NEW m \in Messages, Traced(m) PROVE Sent(m)' <=> Sent(m) \/ m = e
    BY <1>8, <2>1, <2>2, <2>3, <2>5 DEF Sent, Traced, Messages
  <2> QED BY <1>8, <2>1, <2>2, <2>4, <2>5, SomethingSent DEF ReportInv
<1> QED BY <1>1, <1>3, <1>4, <1>5, <1>6, <1>7, <1>8 DEF Thread

LEMMA ReportStep ==
    ASSUME MetaInv, [MetaNext]_metaVars
    PROVE  ReportInv'
<1>1. CASE UNCHANGED metaVars
  <2>1. \A m : Sent(m)' <=> Sent(m)
    BY <1>1 DEF metaVars, Sent
  <2> QED BY <1>1, <2>1, NothingSent DEF metaVars, MetaInv, MetaTypes, PipelineTypes, ReportInv
<1>2. CASE MetaNext
  BY <1>2, ConsoleKeepsReports, ServiceKeepsReports, ThreadKeepsReports DEF MetaNext
<1> QED BY <1>1, <1>2

-----------------------------------------------------------------------------
(* Turns *)

\* Nothing a turn depends on changes, but that someone may become careless.
LEMMA TurnUnchanged ==
    ASSUME MetaInv, UNCHANGED <<reached, granted, commands, handler, typed>>, careless \subseteq careless'
    PROVE  InTurnInv'
<1> SUFFICES ASSUME NEW r \in Debugs \ careless' PROVE TypedInv(r)' /\ QueueInv(r)' /\ HandlerInv(r)'
  BY DEF InTurnInv
<1>1. TypedInv(r) /\ QueueInv(r) /\ HandlerInv(r)
  BY DEF MetaInv, InTurnInv
<1> QED BY <1>1 DEF TypedInv, QueueInv, HandlerInv

\* A message that is no advance goes into the queue.
LEMMA TurnAsked ==
    ASSUME MetaInv, NEW e \in Messages, e.type # "advance", commands' = Append(commands, e),
           UNCHANGED <<reached, granted, handler, typed, careless>>
    PROVE  InTurnInv'
<1> SUFFICES ASSUME NEW r \in Debugs \ careless PROVE TypedInv(r)' /\ QueueInv(r)' /\ HandlerInv(r)'
  BY DEF InTurnInv
<1>1. TypedInv(r) /\ QueueInv(r) /\ HandlerInv(r)
  BY DEF MetaInv, InTurnInv
<1>2. ASSUME NEW k \in Nat
      PROVE  /\ In(commands', Advance(r, k)) <=> In(commands, Advance(r, k))
             /\ AtMostOnce(commands, Advance(r, k)) => AtMostOnce(commands', Advance(r, k))
  <2>1. Advance(r, k) # e
    BY MessageFields DEF Advance
  <2> QED BY <2>1, AppendedTo DEF MetaInv, MetaTypes, ServiceTypes
<1>3. QueueInv(r)'
  BY <1>1, <1>2 DEF QueueInv
<1> QED BY <1>1, <1>3 DEF TypedInv, HandlerInv

\* A command leaves the queue, and is not carried out.
LEMMA TurnTaken ==
    ASSUME MetaInv, commands # <<>>, commands' = Tail(commands),
           UNCHANGED <<reached, granted, handler, typed, careless>>
    PROVE  InTurnInv'
<1> SUFFICES ASSUME NEW r \in Debugs \ careless PROVE TypedInv(r)' /\ QueueInv(r)' /\ HandlerInv(r)'
  BY DEF InTurnInv
<1>1. TypedInv(r) /\ QueueInv(r) /\ HandlerInv(r)
  BY DEF MetaInv, InTurnInv
<1>2. ASSUME NEW k \in Nat
      PROVE  /\ In(commands', Advance(r, k)) => In(commands, Advance(r, k))
             /\ AtMostOnce(commands, Advance(r, k)) => AtMostOnce(commands', Advance(r, k))
  BY TakenFrom DEF MetaInv, MetaTypes, ServiceTypes
<1>3. QueueInv(r)'
  BY <1>1, <1>2 DEF QueueInv
<1> QED BY <1>1, <1>3 DEF TypedInv, HandlerInv

LEMMA AdvanceTyped ==
    ASSUME MetaInv, NEW c \in MetaConsoles, NEW r \in Debugs, NEW k \in 2 .. DebugStages, RunDebugAdvance(c, r, k)
    PROVE  InTurnInv'
<1> SUFFICES ASSUME NEW q \in Debugs \ careless' PROVE TypedInv(q)' /\ QueueInv(q)' /\ HandlerInv(q)'
  BY DEF InTurnInv
<1>1. /\ k \in Nat \ {0} /\ Advance(r, k) \in Messages /\ commands' = Append(commands, Advance(r, k))
      /\ typed' = typed \cup {<<r, k>>} /\ UNCHANGED <<reached, granted, handler>>
  BY MetaAssumption, MessageFields, NobodyIsNoPipeline DEF RunDebugAdvance, Issues, service, Advance, MessageTypes
<1>2. /\ q \notin careless
      /\ q = r => latest[r] = k - 1 /\ <<r, k>> \notin typed
  BY DEF RunDebugAdvance
<1>3. TypedInv(q) /\ QueueInv(q) /\ HandlerInv(q)
  BY <1>2 DEF MetaInv, InTurnInv
<1>4. TypedInv(q)'
  <2>1. q = r => k - 1 <= reached[r]
    BY <1>2, NobodyIsNoPipeline DEF MetaInv, ReportInv
  <2> QED BY <1>1, <1>3, <2>1 DEF TypedInv
<1>5. HandlerInv(q)'
  BY <1>1, <1>3 DEF HandlerInv
<1>6. QueueInv(q)'
  <2> SUFFICES ASSUME NEW l \in Nat
               PROVE  /\ AtMostOnce(commands', Advance(q, l))
                      /\ In(commands', Advance(q, l)) =>
                           /\ <<q, l>> \in typed' /\ l - 1 \notin granted[q]
                           /\ handler = q => l # reached[q] + 1
    BY <1>1 DEF QueueInv
  <2>1. /\ In(commands', Advance(q, l)) <=> In(commands, Advance(q, l)) \/ Advance(q, l) = Advance(r, k)
        /\ AtMostOnce(commands, Advance(q, l)) /\ ~(In(commands, Advance(q, l)) /\ Advance(q, l) = Advance(r, k))
             => AtMostOnce(commands', Advance(q, l))
    BY <1>1, AppendedTo DEF MetaInv, MetaTypes, ServiceTypes
  <2>2. Advance(q, l) = Advance(r, k) <=> q = r /\ l = k
    BY MessageFields DEF Advance
  <2>3. CASE q = r /\ l = k
    <3>1. ~In(commands, Advance(q, l))
      BY <1>2, <1>3, <2>3 DEF QueueInv
    <3>2. k - 1 \notin granted[r]
      <4>1. k - 1 \in granted[r] => <<r, (k - 1) + 1>> \in typed
        BY <1>3, <2>3 DEF TypedInv
      <4> QED BY <1>1, <1>2, <2>3, <4>1
    <3>3. handler = r => k # reached[r] + 1
      BY <1>2, <1>3, <2>3 DEF HandlerInv
    <3> QED BY <1>1, <1>3, <2>1, <2>3, <3>1, <3>2, <3>3 DEF QueueInv
  <2>4. CASE ~(q = r /\ l = k)
    BY <1>1, <1>3, <2>1, <2>2, <2>4 DEF QueueInv
  <2> QED BY <2>3, <2>4
<1> QED BY <1>4, <1>5, <1>6

\* The advance at the head of the queue is for the stage after the one reached.
LEMMA HeadIsInTurn ==
    ASSUME MetaInv, handler = Nobody, commands # <<>>, Head(commands).type = "advance",
           NEW r, r = Head(commands).run, r \in Debugs \ careless
    PROVE  /\ Expects(r, Head(commands).stage)
           /\ reached[r] # 0 /\ reached[r] \notin granted[r] /\ <<r, reached[r] + 1>> \in typed
<1> DEFINE k == Head(commands).stage
<1>1. Head(commands) \in Messages /\ In(commands, Head(commands))
  BY TakenFrom DEF MetaInv, MetaTypes, ServiceTypes
<1>2. k \in Nat /\ Head(commands) = Advance(r, k)
  BY <1>1, MessageFields DEF Messages, Advance
<1> HIDE DEF k
<1>3. TypedInv(r) /\ QueueInv(r)
  BY DEF MetaInv, InTurnInv
<1>4. <<r, k>> \in typed /\ k - 1 \notin granted[r]
  BY <1>1, <1>2, <1>3 DEF QueueInv
<1>5. k \in 2 .. DebugStages /\ k - 1 <= reached[r]
  BY <1>2, <1>3, <1>4 DEF TypedInv
<1>6. k - 1 = reached[r]
  <2>1. \A g \in 1 .. reached[r] - 1 : g \in granted[r]
    BY DEF MetaInv, GateInv
  <2>2. reached[r] \in Nat
    BY NobodyIsNoPipeline DEF MetaInv, MetaTypes, PipelineTypes
  <2> QED BY <1>2, <1>4, <1>5, <2>1, <2>2
<1>7. reached[r] \in 1 .. DebugStages - 1 /\ k = reached[r] + 1
  BY <1>2, <1>5, <1>6, MetaAssumption, NobodyIsNoPipeline DEF MetaInv, MetaTypes, PipelineTypes
<1> QED BY <1>4, <1>7 DEF Expects, k

\* An advance is carried out, or refused.
LEMMA AdvanceHandled ==
    ASSUME MetaInv, HandleDebugAdvance
    PROVE  InTurnInv' /\ refused' \subseteq careless'
<1> DEFINE q == Head(commands).run
           k == Head(commands).stage
<1>1. /\ handler = Nobody /\ commands # <<>> /\ Head(commands).type = "advance" /\ commands' = Tail(commands)
      /\ UNCHANGED consoles
  BY DEF HandleDebugAdvance, Gets
<1>2. Head(commands) \in Messages /\ Head(commands) = Advance(q, k) /\ k \in Nat
  <2>1. Head(commands) \in Messages
    BY <1>1, TakenFrom DEF MetaInv, MetaTypes, ServiceTypes
  <2> QED BY <1>1, <2>1, MessageFields DEF Advance, Messages
<1>3. q \in Debugs \ careless =>
        /\ Expects(q, k)
        /\ reached[q] # 0 /\ reached[q] \notin granted[q] /\ <<q, reached[q] + 1>> \in typed
  BY <1>1, HeadIsInTurn
<1>4. registry \subseteq Debugs
  BY DEF MetaInv, MetaTypes, ServiceTypes
<1> HIDE DEF q, k
<1>5. CASE Acks("error") /\ refused' = IF q \in registry THEN refused \cup {q} ELSE refused
  <2>1. CASE ~(q \in registry /\ Expects(q, k))
    BY <1>1, <1>3, <1>4, <1>5, <2>1, TurnTaken DEF Acks, consoles, MetaInv
  <2>2. CASE q \in registry /\ Expects(q, k)
    BY <2>2, <1>1, <1>5, NobodyIsNoPipeline, <1>4 DEF HandleDebugAdvance, Acks, q, k
  <2> QED BY <2>1, <2>2
<1>6. CASE /\ q \in registry /\ Expects(q, k) /\ handler' = q
           /\ UNCHANGED <<phase, reached, granted, registry, client, refused>>
  <2>1. refused' \subseteq careless'
    BY <1>1, <1>6 DEF consoles, MetaInv
  <2>2. ASSUME NEW r \in Debugs \ careless' PROVE TypedInv(r)' /\ QueueInv(r)' /\ HandlerInv(r)'
    <3>1. r \notin careless /\ UNCHANGED <<typed, reached, granted>>
      BY <1>1, <1>6, <2>2 DEF consoles
    <3>2. TypedInv(r) /\ QueueInv(r) /\ HandlerInv(r)
      BY <3>1 DEF MetaInv, InTurnInv
    <3>3. HandlerInv(r)'
      BY <1>3, <1>6, <3>1 DEF HandlerInv
    <3>4. ASSUME NEW l \in Nat
          PROVE  /\ In(commands, Advance(r, l)) <=> In(commands', Advance(r, l)) \/ Advance(r, l) = Advance(q, k)
                 /\ AtMostOnce(commands, Advance(r, l)) =>
                      /\ AtMostOnce(commands', Advance(r, l))
                      /\ ~(In(commands', Advance(r, l)) /\ Advance(r, l) = Advance(q, k))
      BY <1>1, <1>2, TakenFrom DEF MetaInv, MetaTypes, ServiceTypes
    <3>5. ASSUME NEW l \in Nat, In(commands', Advance(r, l)), r = q PROVE l # reached[r] + 1
      <4>1. Advance(r, l) # Advance(q, k)
        BY <3>2, <3>4, <3>5 DEF QueueInv
      <4> QED BY <1>6, <3>5, <4>1 DEF Expects
    <3>6. QueueInv(r)'
      BY <1>6, <3>1, <3>2, <3>4, <3>5 DEF QueueInv
    <3> QED BY <3>1, <3>2, <3>3, <3>6 DEF TypedInv
  <2> QED BY <2>1, <2>2 DEF InTurnInv
<1> QED BY <1>5, <1>6 DEF HandleDebugAdvance, q, k

LEMMA GrantGiven ==
    ASSUME MetaInv, Resumes
    PROVE  InTurnInv'
<1> SUFFICES ASSUME NEW r \in Debugs \ careless' PROVE TypedInv(r)' /\ QueueInv(r)' /\ HandlerInv(r)'
  BY DEF InTurnInv
<1>1. /\ handler # Nobody /\ handler' = Nobody /\ r # Nobody
      /\ UNCHANGED <<commands, typed, careless, reached>>
  BY NobodyIsNoPipeline DEF Resumes, Gate!Grant, consoles
<1>2. TypedInv(r) /\ QueueInv(r) /\ HandlerInv(r)
  BY <1>1 DEF MetaInv, InTurnInv
<1>3. granted'[r] = granted[r] \/ (handler = r /\ granted'[r] = granted[r] \cup {reached[r]})
  <2>1. granted \in [Pipelines -> SUBSET Nat] /\ r \in Pipelines
    BY NobodyIsNoPipeline DEF MetaInv, MetaTypes, PipelineTypes
  <2>2. granted' = granted \/ granted' = [granted EXCEPT ![handler] = @ \cup {reached[handler]}]
    BY DEF Resumes, Gate!Grant
  <2> QED BY <2>1, <2>2
<1>4. reached[r] \in Nat
  BY NobodyIsNoPipeline DEF MetaInv, MetaTypes, PipelineTypes
<1>5. TypedInv(r)'
  BY <1>1, <1>2, <1>3 DEF TypedInv, HandlerInv
<1>6. QueueInv(r)'
  BY <1>1, <1>2, <1>3, <1>4 DEF QueueInv
<1>7. HandlerInv(r)'
  BY <1>1 DEF HandlerInv
<1> QED BY <1>5, <1>6, <1>7

\* A pipeline that is about to be resumed reaches no stage before that.
LEMMA StageReached ==
    ASSUME MetaInv, NEW q \in Debugs, ReachesStage(q)
    PROVE  InTurnInv'
<1> SUFFICES ASSUME NEW r \in Debugs \ careless' PROVE TypedInv(r)' /\ QueueInv(r)' /\ HandlerInv(r)'
  BY DEF InTurnInv
<1>1. /\ phase[q] = "working" /\ reached' = [reached EXCEPT ![q] = @ + 1]
      /\ UNCHANGED <<granted, commands, handler, typed, careless>>
  BY DEF ReachesStage, Thinks, Gate!Reach, Gate!Moves, consoles
<1>2. TypedInv(r) /\ QueueInv(r) /\ HandlerInv(r)
  BY <1>1 DEF MetaInv, InTurnInv
<1>3. CASE r # q
  <2>1. reached'[r] = reached[r]
    BY <1>1, <1>3, NobodyIsNoPipeline DEF MetaInv, MetaTypes, PipelineTypes
  <2> QED BY <1>1, <1>2, <2>1 DEF TypedInv, QueueInv, HandlerInv
<1>4. CASE r = q
  <2>1. reached'[r] = reached[r] + 1 /\ reached[r] \in Nat
    BY <1>1, <1>4, NobodyIsNoPipeline DEF MetaInv, MetaTypes, PipelineTypes
  <2>2. handler # r
    BY <1>1, <1>2, <1>4 DEF MetaInv, GateInv, HandlerInv
  <2> QED BY <1>1, <1>2, <2>1, <2>2 DEF TypedInv, QueueInv, HandlerInv
<1> QED BY <1>3, <1>4

LEMMA ConsoleKeepsTurns ==
    ASSUME MetaInv, NEW c \in MetaConsoles, Console(c)
    PROVE  InTurnInv' /\ refused' \subseteq careless'
<1>1. ASSUME Takes(c) \/ PutsMessageBack(c) \/ StopsWaiting(c) \/ LosesHeld(c)
      PROVE  UNCHANGED <<reached, granted, commands, handler, typed, careless, refused>>
  BY <1>1 DEF Takes, PutsMessageBack, StopsWaiting, LosesHeld, service
<1>2. ASSUME AsksService(c) PROVE InTurnInv' /\ refused' \subseteq careless'
  <2>1. PICK type \in ServiceRequests, r \in Debugs \cup {Nobody}, poll \in Waits :
          Issues(c, type, r, 0, poll) /\ UNCHANGED careless
    BY <1>2 DEF AsksService
  <2>2. Message(type, r, 0) \in Messages
    BY MessageFields, NobodyIsNoPipeline DEF ServiceRequests, MessageTypes
  <2>3. Message(type, r, 0).type # "advance"
    BY DEF Message, ServiceRequests
  <2> QED BY <2>1, <2>2, <2>3, TurnAsked DEF Issues, service, MetaInv
<1>3. ASSUME NEW r \in Debugs, NEW k \in 2 .. DebugStages, RunDebugAdvance(c, r, k)
      PROVE  InTurnInv' /\ refused' \subseteq careless'
  BY <1>3, AdvanceTyped DEF RunDebugAdvance, Issues, service, MetaInv
<1> QED BY <1>1, <1>2, <1>3, ConsoleMoves, TurnUnchanged DEF MetaInv

LEMMA ServiceKeepsTurns ==
    ASSUME MetaInv,
           \/ HandleDebugCollect \/ HandleDebugAdvance \/ Resumes
           \/ HandleDebugAbort \/ HandleDebugStatus \/ HandleRunMetaAgent
    PROVE  InTurnInv' /\ refused' \subseteq careless'
<1>1. ASSUME HandleDebugCollect \/ HandleDebugAbort \/ HandleDebugStatus \/ HandleRunMetaAgent
      PROVE  InTurnInv' /\ refused' \subseteq careless'
  <2>1. commands # <<>> /\ commands' = Tail(commands) /\ UNCHANGED <<reached, granted, handler, typed, careless, refused>>
    BY <1>1 DEF HandleDebugCollect, HandleDebugAbort, HandleDebugStatus, HandleRunMetaAgent,
                Gets, Acks, Gate!Start, consoles
  <2> QED BY <2>1, TurnTaken DEF MetaInv
<1>2. ASSUME Resumes PROVE refused' \subseteq careless'
  BY <1>2 DEF Resumes, consoles, MetaInv
<1> QED BY <1>1, <1>2, AdvanceHandled, GrantGiven

LEMMA ThreadKeepsTurns ==
    ASSUME MetaInv, NEW r \in Pipelines, Thread(r)
    PROVE  InTurnInv' /\ refused' \subseteq careless'
<1>1. UNCHANGED <<refused, careless>>
  BY DEF Thread, ReachesStage, PassesGate, EndsPipeline, EndsPlain, Thinks, consoles
<1>2. \/ r \in Debugs /\ ReachesStage(r)
      \/ UNCHANGED <<reached, granted, commands, handler, typed>>
  BY DEF Thread, PassesGate, EndsPipeline, EndsPlain, Thinks, Gate!Pass, Gate!End, consoles
<1> QED BY <1>1, <1>2, StageReached, TurnUnchanged DEF MetaInv

-----------------------------------------------------------------------------
(* The invariant *)

LEMMA MetaInitially == MetaInit => MetaInv
<1> SUFFICES ASSUME MetaInit PROVE MetaInv
  OBVIOUS
<1> USE DEF MetaInit
<1>1. MetaTypes
  BY MessageFields, EmptySeq
    DEF MetaTypes, PipelineTypes, ServiceTypes, ConsoleTypes, Phases, Products, Waits
<1>2. GateInv
  BY NobodyIsNoPipeline DEF GateInv
<1>3. ASSUME NEW m \in Messages, Traced(m) PROVE Kept(m)
  <2>1. m # Empty /\ DOMAIN client = {} /\ displayed = {} /\ lost = {}
    BY <1>3, MessageFields
  <2>2. ~Known(m) /\ NotDoubled(m)
    BY <2>1 DEF Known, Queued, Held, NotDoubled
  <2>3. ~Sent(m)
    BY DEF Sent, Messages
  <2> QED BY <2>2, <2>3 DEF Kept
<1>4. ReportInv
  BY <1>3 DEF ReportInv
<1>5. InTurnInv
  <2> SUFFICES ASSUME NEW r \in Debugs PROVE TypedInv(r) /\ QueueInv(r) /\ HandlerInv(r)
    BY DEF InTurnInv
  <2>1. r \in Pipelines /\ r # Nobody /\ DOMAIN commands = {}
    BY NobodyIsNoPipeline
  <2> QED BY <2>1 DEF TypedInv, QueueInv, HandlerInv, In, AtMostOnce
<1> QED BY <1>1, <1>2, <1>4, <1>5 DEF MetaInv

LEMMA MetaInvStep == MetaInv /\ [MetaNext]_metaVars => MetaInv'
<1> SUFFICES ASSUME MetaInv, [MetaNext]_metaVars PROVE MetaInv'
  OBVIOUS
<1>1. MetaTypes' /\ GateInv' /\ ReportInv'
  BY MetaTypeStep, GateStep, ReportStep DEF MetaInv
<1>2. CASE UNCHANGED metaVars
  BY <1>1, <1>2, TurnUnchanged DEF metaVars, MetaInv
<1>3. CASE MetaNext
  BY <1>1, <1>3, ConsoleKeepsTurns, ServiceKeepsTurns, ThreadKeepsTurns DEF MetaNext, MetaInv
<1> QED BY <1>2, <1>3

\* What is sent is somewhere, once.
LEMMA MetaInvImpliesMatch == MetaInv => CommandsMatchReports
<1> SUFFICES ASSUME MetaInv, NEW r \in Pipelines
             PROVE  /\ \A k \in 1 .. reached[r] :
                          Once(Message("report", r, k)) \/ (k = reached[r] /\ produces[r] = "report")
                    /\ produces[r] \in {"retire", "gone"} => Once(Message("final", r, 0))
  BY DEF CommandsMatchReports, MetaInv
<1>1. ASSUME NEW m \in Messages, Traced(m), Sent(m) PROVE Once(m)
  BY <1>1 DEF MetaInv, ReportInv, Kept, Known, Once
<1>2. ASSUME NEW k \in 1 .. reached[r], ~(k = reached[r] /\ produces[r] = "report")
      PROVE  Once(Message("report", r, k))
  <2> DEFINE m == Message("report", r, k)
  <2>1. k \in Nat
    BY DEF MetaInv, MetaTypes, PipelineTypes
  <2>2. m \in Messages /\ m.type = "report" /\ m.run = r /\ m.stage = k
    BY <2>1, MessageFields DEF MessageTypes
  <2> HIDE DEF m
  <2>3. Traced(m) /\ Sent(m)
    BY <1>2, <2>2 DEF Traced, Sent
  <2> QED BY <1>1, <2>2, <2>3 DEF m
<1>3. ASSUME produces[r] \in {"retire", "gone"} PROVE Once(Message("final", r, 0))
  <2> DEFINE m == Message("final", r, 0)
  <2>1. m \in Messages /\ m.type = "final" /\ m.run = r /\ m.stage = 0
    BY MessageFields DEF MessageTypes
  <2> HIDE DEF m
  <2>2. Traced(m) /\ Sent(m)
    BY <1>3, <2>1 DEF Traced, Sent
  <2> QED BY <1>1, <2>1, <2>2 DEF m
<1> QED BY <1>2, <1>3

\* Whichever console polls what, and in whatever order messages are taken and
\* put back: careful commands are not refused as out of order, and every report
\* and every final response is, once, on the queue, held by a poll or shown, or
\* it is lost to a wait for an acknowledgement or to Ctrl-C.
THEOREM CommandsAndReports == MetaSpec => []CommandsMatchReports
<1>1. MetaInv => CommandsMatchReports
  BY MetaInvImpliesMatch
<1> QED BY <1>1, MetaInitially, MetaInvStep, PTL DEF MetaSpec
=============================================================================
