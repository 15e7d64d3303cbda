------------------------------ MODULE StageGate ------------------------------
(***************************************************************************)
(* The /meta-debug gate: the service loop's debug-command handlers, the    *)
(* pipeline threads they start, the StageGateController each pair shares   *)
(* and the registry `_debug_sessions`.  A critical section under a lock is *)
(* one step; everything the code does outside of a lock is split at each   *)
(* access to shared state, so that the service loop and the pipeline       *)
(* threads interleave as the Python threads do.                            *)
(*                                                                         *)
(* In the code the stages 1..4 are COLLECT, EVALUATE, SYNTHESIZE and       *)
(* VALIDATE; the command that starts a stage is named by its number.  0    *)
(* stands for None, both as completed_state and as the expected command.   *)
(***************************************************************************)
EXTENDS Naturals, FiniteSets

CONSTANTS Runs,         \* pipeline runs, each with its controller and thread
          Ids,          \* session ids; one is the text of a timestamp
          None,         \* the missing dictionary entry
          LastStage,    \* the stage that does not block (4 in the code)
          MaxSessions,  \* the limit on registered sessions (5 in the code)
          SameTick      \* may two collects read the same timestamp?

ASSUME StageGateAssumption ==
    /\ IsFiniteSet(Ids)
    /\ None \notin Runs \cup Ids
    /\ LastStage \in Nat \ {0, 1}
    /\ MaxSessions \in Nat
    /\ SameTick \in BOOLEAN

VARIABLES
    debugSessions,  \* _debug_sessions: session id -> controller or None
    sid,            \* the session id a run was created with
    pc,             \* where a pipeline thread is
    stage,          \* the stage a pipeline thread works on
    signaled,       \* what Event.wait returned at the gate
    target,         \* the controller a finished thread looked up
    completed,      \* StageGateController.completed_state
    event,          \* StageGateController._continue_event
    aborted,        \* StageGateController._aborted
    done,           \* StageGateController.pipeline_done
    svcPc, svcRun, svcCmd, svcSeen,  \* the handler the service loop is in
    svcTodo,        \* controllers a status reply still has to read
    released        \* history: the completed_state resume() was accepted at, less
                    \* what an abort took back

thread  == <<pc, stage, signaled, target>>
control == <<completed, event, aborted, done>>
service == <<svcPc, svcRun, svcCmd, svcSeen, svcTodo>>
history == <<released>>
vars == <<debugSessions, sid, thread, control, service, history>>

Stages == 1..LastStage
Commands == 2..LastStage  \* evaluate, synthesize, validate

Unborn == {r \in Runs : pc[r] = "unborn"}
Live == {r \in Runs : pc[r] \notin {"unborn", "exited"}}
Registered == {id \in Ids : debugSessions[id] # None}
AtGate(r) == pc[r] \in {"announce", "clear", "wait", "check"}

\* next_expected_command: 0 when nothing is expected.
NextExpected(r) == IF completed[r] \in 1..(LastStage - 1) THEN completed[r] + 1 ELSE 0

Init ==
    /\ debugSessions = [id \in Ids |-> None]
    /\ sid = [r \in Runs |-> None]
    /\ pc = [r \in Runs |-> "unborn"]
    /\ stage = [r \in Runs |-> 1]
    /\ signaled = [r \in Runs |-> FALSE]
    /\ target = [r \in Runs |-> None]
    /\ completed = [r \in Runs |-> 0]
    /\ event = [r \in Runs |-> FALSE]
    /\ aborted = [r \in Runs |-> FALSE]
    /\ done = [r \in Runs |-> FALSE]
    /\ svcPc = "idle" /\ svcRun = None /\ svcCmd = 0 /\ svcSeen = 0 /\ svcTodo = {}
    /\ released = [r \in Runs |-> {}]

-----------------------------------------------------------------------------
(* The service loop: one handler at a time.                                *)

\* Mutant of HandleCollect: the limit is off by one.
CollectsOneTooMany(r, id) ==
    /\ svcPc = "idle"
    /\ r \in Unborn
    /\ Cardinality(Registered) <= MaxSessions
    /\ SameTick \/ \A q \in Runs : sid[q] # id
    /\ debugSessions' = [debugSessions EXCEPT ![id] = r]
    /\ sid' = [sid EXCEPT ![r] = id]
    /\ pc' = [pc EXCEPT ![r] = "run"]
    /\ UNCHANGED <<stage, signaled, target, control, service, history>>

\* collect: bounded by MaxSessions, registers the controller, then starts the
\* thread.  Only this loop adds entries, so the check still holds when the
\* entry is added and the handler is one step.
HandleCollect(r, id) ==
    /\ svcPc = "idle"
    /\ r \in Unborn
    /\ Cardinality(Registered) < MaxSessions
    /\ SameTick \/ \A q \in Runs : sid[q] # id
    /\ debugSessions' = [debugSessions EXCEPT ![id] = r]
    /\ sid' = [sid EXCEPT ![r] = id]
    /\ pc' = [pc EXCEPT ![r] = "run"]
    /\ UNCHANGED <<stage, signaled, target, control, service, history>>

\* A handler looks its controller up under the registry lock and keeps it; an
\* unknown session is only answered with meta_debug_error.
Lookup(id, next, cmd) ==
    /\ svcPc = "idle"
    /\ debugSessions[id] # None
    /\ svcPc' = next
    /\ svcRun' = debugSessions[id]
    /\ svcCmd' = cmd
    /\ UNCHANGED <<debugSessions, sid, thread, control, svcSeen, svcTodo, history>>

HandlerReturns ==
    svcPc' = "idle" /\ svcRun' = None /\ svcCmd' = 0 /\ svcSeen' = 0 /\ svcTodo' = {}

HandleAdvance(id, cmd) == Lookup(id, "expect", cmd)
HandleAbort(id) == Lookup(id, "abort", 0)

\* status: of one session, or of a snapshot of the registry.
HandleStatus(ids) ==
    /\ svcPc = "idle"
    /\ ids # {}
    /\ svcPc' = "status"
    /\ svcTodo' = {debugSessions[id] : id \in ids}
    /\ UNCHANGED <<debugSessions, sid, thread, control, svcRun, svcCmd, svcSeen, history>>

\* `expected = controller.next_expected_command`, read without a lock.
AdvanceChecks ==
    /\ svcPc = "expect"
    /\ IF NextExpected(svcRun) = svcCmd
       THEN svcPc' = "resume" /\ UNCHANGED <<svcRun, svcCmd, svcSeen, svcTodo>>
       ELSE HandlerReturns
    /\ UNCHANGED <<debugSessions, sid, thread, control, history>>

\* resume(): under the controller's lock.
Resume ==
    /\ svcPc = "resume"
    /\ IF done[svcRun]
       THEN UNCHANGED <<control, history>>
       ELSE /\ aborted' = [aborted EXCEPT ![svcRun] = FALSE]
            /\ event' = [event EXCEPT ![svcRun] = TRUE]
            /\ released' = [released EXCEPT ![svcRun] = @ \cup {completed[svcRun]}]
            /\ UNCHANGED <<completed, done>>
    /\ HandlerReturns
    /\ UNCHANGED <<debugSessions, sid, thread>>

\* abort(): under the controller's lock.  For the history it takes back what
\* was accepted at the gate the thread stands at.
Abort ==
    /\ svcPc = "abort"
    /\ aborted' = [aborted EXCEPT ![svcRun] = TRUE]
    /\ event' = [event EXCEPT ![svcRun] = TRUE]
    /\ released' = [released EXCEPT ![svcRun] =
                      IF AtGate(svcRun) THEN @ \ {completed[svcRun]} ELSE @]
    /\ HandlerReturns
    /\ UNCHANGED <<debugSessions, sid, thread, completed, done>>

\* The status reply reads completed_state of each controller first ...
StatusReadsState(r) ==
    /\ svcPc = "status" /\ r \in svcTodo
    /\ svcPc' = "next"
    /\ svcRun' = r
    /\ svcSeen' = completed[r]
    /\ svcTodo' = svcTodo \ {r}
    /\ UNCHANGED <<debugSessions, sid, thread, control, svcCmd, history>>

\* ... then next_expected_command, which reads completed_state again.
StatusReadsNext ==
    /\ svcPc = "next"
    /\ IF svcTodo = {}
       THEN HandlerReturns
       ELSE svcPc' = "status" /\ svcRun' = None /\ svcSeen' = 0
            /\ UNCHANGED <<svcCmd, svcTodo>>
    /\ UNCHANGED <<debugSessions, sid, thread, control, history>>

Service ==
    \/ \E r \in Runs, id \in Ids : HandleCollect(r, id)
    \/ \E id \in Ids, cmd \in Commands : HandleAdvance(id, cmd)
    \/ \E id \in Ids : HandleAbort(id)
    \/ \E id \in Registered : HandleStatus({id})
    \/ HandleStatus(Registered)
    \/ AdvanceChecks \/ Resume \/ Abort
    \/ \E r \in Runs : StatusReadsState(r)
    \/ StatusReadsNext

-----------------------------------------------------------------------------
(* A pipeline thread: _run_meta_agent_pipeline around stage_hook.          *)

Goto(r, label) == pc' = [pc EXCEPT ![r] = label]

\* A stage group ends and the pipeline calls the hook, or the run fails and
\* leaves the stage loop (by an exception or by a result with failed_stage).
StageEnds(r) ==
    /\ pc[r] = "run"
    /\ Goto(r, "hook") \/ Goto(r, "respond")
    /\ UNCHANGED <<debugSessions, sid, stage, signaled, target, control, service, history>>

HookCompletes(r) ==
    /\ pc[r] = "hook"
    /\ completed' = [completed EXCEPT ![r] = stage[r]]
    /\ Goto(r, "announce")
    /\ UNCHANGED <<debugSessions, sid, stage, signaled, target, event, aborted, done,
                   service, history>>

\* The state message is sent; VALIDATE does not block.
HookAnnounces(r) ==
    /\ pc[r] = "announce"
    /\ Goto(r, IF stage[r] = LastStage THEN "respond" ELSE "clear")
    /\ UNCHANGED <<debugSessions, sid, stage, signaled, target, control, service, history>>

\* Mutant of HookClears: the event keeps the last command's signal.
SkipsClear(r) ==
    /\ pc[r] = "clear"
    /\ Goto(r, "wait")
    /\ UNCHANGED <<debugSessions, sid, stage, signaled, target, control, service, history>>

HookClears(r) ==
    /\ pc[r] = "clear"
    /\ event' = [event EXCEPT ![r] = FALSE]
    /\ Goto(r, "wait")
    /\ UNCHANGED <<debugSessions, sid, stage, signaled, target, completed, aborted, done,
                   service, history>>

\* Mutant of WaitReturns: the wait has no timeout.
WaitsForEver(r) ==
    /\ pc[r] = "wait"
    /\ event[r]
    /\ signaled' = [signaled EXCEPT ![r] = TRUE]
    /\ Goto(r, "check")
    /\ UNCHANGED <<debugSessions, sid, stage, target, control, service, history>>

\* Event.wait returns TRUE only when the event is set, FALSE at the timeout,
\* which can win against a signal that comes at the same time.
WaitReturns(r) ==
    /\ pc[r] = "wait"
    /\ \/ signaled' = [signaled EXCEPT ![r] = FALSE]
       \/ event[r] /\ signaled' = [signaled EXCEPT ![r] = TRUE]
    /\ Goto(r, "check")
    /\ UNCHANGED <<debugSessions, sid, stage, target, control, service, history>>

\* Mutant of HookChecks: a signal counts as a resume, whoever sent it.
ChecksOnlySignal(r) ==
    /\ pc[r] = "check"
    /\ IF signaled[r]
       THEN Goto(r, "run") /\ stage' = [stage EXCEPT ![r] = @ + 1]
       ELSE Goto(r, "respond") /\ UNCHANGED stage
    /\ UNCHANGED <<debugSessions, sid, signaled, target, control, service, history>>

\* Aborted or timed out: PipelineAborted leaves the stage loop.
HookChecks(r) ==
    /\ pc[r] = "check"
    /\ IF signaled[r] /\ ~aborted[r]
       THEN Goto(r, "run") /\ stage' = [stage EXCEPT ![r] = @ + 1]
       ELSE Goto(r, "respond") /\ UNCHANGED stage
    /\ UNCHANGED <<debugSessions, sid, signaled, target, control, service, history>>

\* The final run_meta_agent_response is sent.
PipelineResponds(r) ==
    /\ pc[r] = "respond"
    /\ Goto(r, "retire")
    /\ UNCHANGED <<debugSessions, sid, stage, signaled, target, control, service, history>>

\* Mutant of RetireLooksUp: the entry is taken out as it is looked up.
PopsAtLookup(r) ==
    /\ pc[r] = "retire"
    /\ target' = [target EXCEPT ![r] = debugSessions[sid[r]]]
    /\ debugSessions' = [debugSessions EXCEPT ![sid[r]] = None]
    /\ Goto(r, IF debugSessions[sid[r]] = None THEN "exited" ELSE "mark")
    /\ UNCHANGED <<sid, stage, signaled, control, service, history>>

RetireLooksUp(r) ==
    /\ pc[r] = "retire"
    /\ target' = [target EXCEPT ![r] = debugSessions[sid[r]]]
    /\ Goto(r, IF debugSessions[sid[r]] = None THEN "exited" ELSE "mark")
    /\ UNCHANGED <<debugSessions, sid, stage, signaled, control, service, history>>

RetireMarks(r) ==
    /\ pc[r] = "mark"
    /\ done' = [done EXCEPT ![target[r]] = TRUE]
    /\ Goto(r, "pop")
    /\ UNCHANGED <<debugSessions, sid, stage, signaled, target, completed, event, aborted,
                   service, history>>

RetirePops(r) ==
    /\ pc[r] = "pop"
    /\ debugSessions' = [debugSessions EXCEPT ![sid[r]] = None]
    /\ Goto(r, "exited")
    /\ UNCHANGED <<sid, stage, signaled, target, control, service, history>>

Pipeline(r) ==
    \/ StageEnds(r) \/ HookCompletes(r) \/ HookAnnounces(r) \/ HookClears(r)
    \/ WaitReturns(r) \/ HookChecks(r)
    \/ PipelineResponds(r) \/ RetireLooksUp(r) \/ RetireMarks(r) \/ RetirePops(r)

Next == Service \/ \E r \in Runs : Pipeline(r)

Spec == Init /\ [][Next]_vars

\* The scheduler runs every thread, stages end and the gate's wait has a
\* timeout; nothing obliges a user to send a command.
FairSpec == Spec /\ \A r \in Runs : WF_vars(Pipeline(r))

-----------------------------------------------------------------------------
(* Properties.                                                             *)

TypeOK ==
    /\ debugSessions \in [Ids -> Runs \cup {None}]
    /\ sid \in [Runs -> Ids \cup {None}]
    /\ pc \in [Runs -> {"unborn", "run", "hook", "announce", "clear", "wait", "check",
                        "respond", "retire", "mark", "pop", "exited"}]
    /\ stage \in [Runs -> Stages]
    /\ signaled \in [Runs -> BOOLEAN]
    /\ target \in [Runs -> Runs \cup {None}]
    /\ completed \in [Runs -> 0..LastStage]
    /\ event \in [Runs -> BOOLEAN]
    /\ aborted \in [Runs -> BOOLEAN]
    /\ done \in [Runs -> BOOLEAN]
    /\ svcPc \in {"idle", "expect", "resume", "abort", "status", "next"}
    /\ svcRun \in Runs \cup {None}
    /\ svcCmd \in {0} \cup Commands
    /\ svcSeen \in 0..LastStage
    /\ svcTodo \subseteq Runs
    /\ released \in [Runs -> SUBSET (0..LastStage)]

\* No stage after COLLECT starts unless resume() was accepted while the stage
\* before it was the completed one, and after the last abort that reached the
\* thread at that gate: a signal left over from an earlier gate, one that an
\* abort sent, or a resume that an abort followed never opens a gate.
StageNeedsResume ==
    \A r \in Runs : \A s \in 1..(stage[r] - 1) : s \in released[r]

\* What a handler read of a controller is at most one stage old when it uses
\* it: the advance handler between its check and resume(), and the status
\* handler between its two reads of completed_state.
HandlerStaleByAtMostOneStage ==
    /\ svcPc = "resume" => completed[svcRun] \in {svcCmd - 1, svcCmd}
    /\ svcPc = "next" => completed[svcRun] \in {svcSeen, svcSeen + 1}

SharesNoId(r) == \A q \in Runs \ {r} : sid[q] # sid[r]

Phase(r) ==
    IF pc[r] = "unborn" THEN "unborn"
    ELSE IF pc[r] \in {"run", "hook"} THEN "working"
    ELSE IF AtGate(r) THEN "gated"
    ELSE "over"

Gate == INSTANCE PipelineGate WITH
    phase <- [r \in Runs |-> Phase(r)], reached <- completed, granted <- released

\* With its threads, locks and events the gate does what PipelineGate promises:
\* a pipeline passes a gate only if a resume() was accepted while the stage of
\* that gate was the completed one and no abort has come since, and it never
\* skips or repeats a stage.
ImplementsGate == Gate!Spec

\* A pipeline that no other collect shares the timestamp of is found under its
\* session id as long as it runs, and refuses no resume before its response is
\* out: whatever other pipelines, those that do share an id included, end or
\* remove.  The registry keeps to its limit in any case.
LiveRunsRegistered ==
    /\ \A r \in Live : SharesNoId(r) =>
         debugSessions[sid[r]] = r /\ (done[r] => pc[r] = "pop")
    /\ Cardinality(Registered) <= MaxSessions

\* Every pipeline that was started ends and leaves the registry, whether or
\* not anybody sends another command.
PipelinesExit ==
    \A r \in Runs : pc[r] # "unborn" ~> pc[r] = "exited" /\ debugSessions[sid[r]] # r

\* Documented, but not what the code does: stage_hook blocks "until resume or
\* abort is called", so an accepted resume of this gate is still pending.
AcceptedResumeIsPending ==
    \A r \in Runs : pc[r] = "wait" /\ stage[r] \in released[r] => event[r]
=============================================================================
