--------------------------- MODULE StageGateProofs ---------------------------
(***************************************************************************)
(* Proofs about StageGate, for any number of pipelines, session ids and    *)
(* stages.  TypeInv is the inductive form of TypeOK; the other invariants  *)
(* are proved relative to it, one after the other.                         *)
(***************************************************************************)
EXTENDS StageGate, FiniteSetTheorems, TLAPS

\* What a thread's place says about its data: it has a session id once it is
\* born, completed_state trails the stage by one until the hook stores it, and
\* only a stage before the last one blocks.
ThreadInv ==
    \A r \in Runs :
      /\ pc[r] # "unborn" => sid[r] \in Ids
      /\ pc[r] \in {"unborn", "run", "hook"} => stage[r] = completed[r] + 1
      /\ pc[r] \in {"announce", "clear", "wait", "check"} => completed[r] = stage[r]
      /\ pc[r] \in {"clear", "wait", "check"} => stage[r] < LastStage

\* A handler past its lookup has a controller, an advance handler a command;
\* only pipelines that were started are registered and found.
ServiceInv ==
    /\ \A id \in Ids : debugSessions[id] # None => pc[debugSessions[id]] # "unborn"
    /\ svcPc \in {"expect", "resume", "abort"} => pc[svcRun] # "unborn"
    /\ svcPc \in {"expect", "resume", "abort", "next"} => svcRun \in Runs
    /\ svcPc \in {"expect", "resume"} => svcCmd \in Commands

TypeInv == TypeOK /\ ThreadInv /\ ServiceInv

LEMMA TypeInvInit == Init => TypeInv
BY StageGateAssumption DEF Init, TypeInv, TypeOK, ThreadInv, ServiceInv, Stages

\* The steps of the service loop preserve the typing invariant.
LEMMA TypeInvService == TypeInv /\ Service => TypeInv'
<1> SUFFICES ASSUME TypeInv, Service PROVE TypeInv'
  OBVIOUS
<1> USE StageGateAssumption DEF TypeInv, TypeOK, ThreadInv, ServiceInv, Stages, Commands,
        thread, control, service, history
<1>1. ASSUME NEW r \in Runs, NEW id \in Ids, HandleCollect(r, id) PROVE TypeInv'
  BY <1>1 DEF HandleCollect, Unborn
<1>2. ASSUME NEW id \in Ids, NEW cmd \in Commands, HandleAdvance(id, cmd) PROVE TypeInv'
  BY <1>2 DEF HandleAdvance, Lookup
<1>3. ASSUME NEW id \in Ids, HandleAbort(id) PROVE TypeInv'
  BY <1>3 DEF HandleAbort, Lookup
<1>4. ASSUME NEW ids \in SUBSET Registered, HandleStatus(ids) PROVE TypeInv'
  BY <1>4 DEF HandleStatus, Registered
<1>5. CASE AdvanceChecks
  BY <1>5 DEF AdvanceChecks, HandlerReturns
<1>6. CASE Resume
  <2>1. CASE done[svcRun]
    BY <1>6, <2>1 DEF Resume, HandlerReturns
  <2>2. CASE ~done[svcRun]
    <3>1. svcRun \in Runs /\ svcCmd \in Commands
      BY <1>6 DEF Resume
    <3>2. released' \in [Runs -> SUBSET (0..LastStage)]
      BY <1>6, <2>2, <3>1 DEF Resume
    <3>3. aborted' \in [Runs -> BOOLEAN] /\ event' \in [Runs -> BOOLEAN]
      BY <1>6, <2>2, <3>1 DEF Resume
    <3>4. QED BY <1>6, <2>2, <3>2, <3>3 DEF Resume, HandlerReturns
  <2>3. QED BY <2>1, <2>2
<1>7. CASE Abort
  BY <1>7 DEF Abort, HandlerReturns
<1>8. ASSUME NEW r \in Runs, StatusReadsState(r) PROVE TypeInv'
  BY <1>8 DEF StatusReadsState
<1>9. CASE StatusReadsNext
  BY <1>9 DEF StatusReadsNext, HandlerReturns
<1> QED BY <1>1, <1>2, <1>3, <1>4, <1>5, <1>6, <1>7, <1>8, <1>9 DEF Service

\* The steps of a pipeline thread preserve the typing invariant.
LEMMA TypeInvPipeline ==
    ASSUME TypeInv, NEW r \in Runs, Pipeline(r) PROVE TypeInv'
<1> USE StageGateAssumption DEF TypeInv, TypeOK, ThreadInv, ServiceInv, Stages, Goto,
        thread, control, service, history
<1>1. CASE StageEnds(r)       BY <1>1 DEF StageEnds
<1>2. CASE HookCompletes(r)   BY <1>2 DEF HookCompletes
<1>3. CASE HookAnnounces(r)   BY <1>3 DEF HookAnnounces
<1>4. CASE HookClears(r)      BY <1>4 DEF HookClears
<1>5. CASE WaitReturns(r)     BY <1>5 DEF WaitReturns
<1>6. CASE HookChecks(r)
  <2>1. CASE pc' = [pc EXCEPT ![r] = "run"] /\ stage' = [stage EXCEPT ![r] = @ + 1]
    <3>1. stage[r] + 1 \in Stages
      BY <1>6 DEF HookChecks
    <3>2. QED BY <1>6, <2>1, <3>1 DEF HookChecks
  <2>2. CASE pc' = [pc EXCEPT ![r] = "respond"] /\ stage' = stage
    BY <1>6, <2>2 DEF HookChecks
  <2>3. QED BY <1>6, <2>1, <2>2 DEF HookChecks
<1>7. CASE PipelineResponds(r) BY <1>7 DEF PipelineResponds
<1>8. CASE RetireLooksUp(r)   BY <1>8 DEF RetireLooksUp
<1>9. CASE RetireMarks(r)     BY <1>9 DEF RetireMarks
<1>10. CASE RetirePops(r)     BY <1>10 DEF RetirePops
<1> QED BY <1>1, <1>2, <1>3, <1>4, <1>5, <1>6, <1>7, <1>8, <1>9, <1>10 DEF Pipeline

\* Each variable keeps its type and each thread and handler its data: the
\* pipeline never runs past the last stage, which does not block.
THEOREM TypeCorrect == Spec => []TypeInv
<1>1. TypeInv /\ UNCHANGED vars => TypeInv'
  BY DEF TypeInv, TypeOK, ThreadInv, ServiceInv, vars, thread, control, service, history
<1>2. TypeInv /\ [Next]_vars => TypeInv'
  BY <1>1, TypeInvService, TypeInvPipeline DEF Next
<1>3. QED BY TypeInvInit, <1>2, PTL DEF Spec

\* TypeOK, which the runs check: every variable has its type.
THEOREM TypeOKHolds == Spec => []TypeOK
<1>1. TypeInv => TypeOK  BY DEF TypeInv
<1>2. QED BY <1>1, TypeCorrect, PTL

-----------------------------------------------------------------------------
(* The gate.                                                               *)

\* Whenever the gate could open, a resume() was accepted at its stage: the
\* event of a waiting thread, or the signal one took, came from a resume()
\* unless an abort is pending.
Opened(r) ==
    /\ \A s \in 1..(stage[r] - 1) : s \in released[r]
    /\ pc[r] = "wait" /\ event[r] /\ ~aborted[r] => stage[r] \in released[r]
    /\ pc[r] = "check" /\ signaled[r] /\ ~aborted[r] => stage[r] \in released[r]

GateInv == \A r \in Runs : Opened(r)

LEMMA GateInvService == TypeInv /\ GateInv /\ Service => GateInv'
<1> SUFFICES ASSUME TypeInv, GateInv, Service, NEW q \in Runs PROVE Opened(q)'
  BY DEF GateInv
<1> USE DEF Opened, thread, control, service, history
<1>1. CASE UNCHANGED <<pc, stage, signaled, event, aborted, released>>
  BY <1>1 DEF GateInv
<1>2. ASSUME NEW r \in Runs, NEW id \in Ids, HandleCollect(r, id) PROVE Opened(q)'
  BY <1>2 DEF HandleCollect, GateInv, TypeInv, TypeOK
<1>3. CASE Resume
  <2>1. svcRun \in Runs
    BY <1>3 DEF Resume, TypeInv, ServiceInv
  <2>2. CASE done[svcRun]
    BY <1>1, <1>3, <2>2 DEF Resume
  <2>3. CASE ~done[svcRun] /\ q = svcRun
    <3>1. released'[q] = released[q] \cup {completed[q]}
      BY <1>3, <2>1, <2>3 DEF Resume, TypeInv, TypeOK
    <3>2. pc[q] \in {"wait", "check"} => completed[q] = stage[q]
      BY DEF TypeInv, ThreadInv
    <3>3. QED BY <1>3, <2>3, <3>1, <3>2 DEF Resume, GateInv
  <2>4. CASE ~done[svcRun] /\ q # svcRun
    BY <1>3, <2>1, <2>4 DEF Resume, GateInv, TypeInv, TypeOK
  <2>5. QED BY <2>2, <2>3, <2>4
<1>4. CASE Abort
  <2>1. /\ pc' = pc /\ stage' = stage /\ signaled' = signaled
        /\ event' = [event EXCEPT ![svcRun] = TRUE]
        /\ aborted' = [aborted EXCEPT ![svcRun] = TRUE]
        /\ released' = [released EXCEPT ![svcRun] =
                          IF AtGate(svcRun) THEN @ \ {completed[svcRun]} ELSE @]
        /\ svcRun \in Runs
    BY <1>4 DEF Abort, TypeInv, ServiceInv
  <2>2. CASE q = svcRun
    <3>1. aborted'[q]
      BY <2>1, <2>2 DEF TypeInv, TypeOK
    <3>2. \A s \in 1..(stage[q] - 1) : s \in released'[q]
      <4>1. AtGate(q) => completed[q] = stage[q]
        BY DEF AtGate, TypeInv, ThreadInv
      <4>2. \A s \in 1..(stage[q] - 1) : s \in released[q] /\ s # stage[q]
        BY DEF GateInv, TypeInv, TypeOK, Stages
      <4>3. QED BY <2>1, <2>2, <4>1, <4>2 DEF TypeInv, TypeOK
    <3>3. QED BY <2>1, <3>1, <3>2
  <2>3. CASE q # svcRun
    BY <2>1, <2>3 DEF GateInv, TypeInv, TypeOK
  <2>4. QED BY <2>2, <2>3
<1>5. QED
  BY <1>1, <1>2, <1>3, <1>4 DEF Service, HandleAdvance, HandleAbort, HandleStatus, Lookup,
     AdvanceChecks, StatusReadsState, StatusReadsNext

LEMMA GateInvPipeline ==
    ASSUME TypeInv, GateInv, NEW r \in Runs, Pipeline(r) PROVE GateInv'
<1> SUFFICES ASSUME NEW q \in Runs PROVE Opened(q)'
  BY DEF GateInv
<1>1. Opened(q)
  BY DEF GateInv
<1> USE <1>1 DEF Opened, TypeInv, TypeOK, Goto, thread, control, service, history
<1>2. CASE StageEnds(r)        BY <1>2 DEF StageEnds
<1>3. CASE HookCompletes(r)    BY <1>3 DEF HookCompletes
<1>4. CASE HookAnnounces(r)    BY <1>4 DEF HookAnnounces
<1>5. CASE HookClears(r)       BY <1>5 DEF HookClears
<1>6. CASE WaitReturns(r)      BY <1>6 DEF WaitReturns
<1>7. CASE HookChecks(r)
  <2>1. CASE signaled[r] /\ ~aborted[r] /\ q = r
    <3>1. stage[q] \in released[q] /\ stage'[q] = stage[q] + 1 /\ stage[q] \in Nat
      BY <1>7, <2>1 DEF HookChecks, Stages
    <3>2. pc'[q] = "run" /\ released' = released
      BY <1>7, <2>1 DEF HookChecks
    <3>3. QED BY <3>1, <3>2
  <2>2. CASE ~(signaled[r] /\ ~aborted[r] /\ q = r)
    BY <1>7, <2>2 DEF HookChecks
  <2>3. QED BY <2>1, <2>2
<1>8. CASE PipelineResponds(r) BY <1>8 DEF PipelineResponds
<1>9. CASE RetireLooksUp(r)    BY <1>9 DEF RetireLooksUp
<1>10. CASE RetireMarks(r)     BY <1>10 DEF RetireMarks
<1>11. CASE RetirePops(r)      BY <1>11 DEF RetirePops
<1> QED BY <1>2, <1>3, <1>4, <1>5, <1>6, <1>7, <1>8, <1>9, <1>10, <1>11 DEF Pipeline

THEOREM GateInvariant == Spec => []GateInv
<1>1. Init => GateInv
  BY DEF Init, GateInv, Opened
<1>2. TypeInv /\ GateInv /\ UNCHANGED vars => GateInv'
  BY DEF GateInv, Opened, vars, thread, control, service, history
<1>3. TypeInv /\ GateInv /\ [Next]_vars => GateInv'
  BY <1>2, GateInvService, GateInvPipeline DEF Next
<1>4. QED BY <1>1, <1>3, TypeCorrect, PTL DEF Spec

\* No stage after the first starts unless resume() was accepted at the stage
\* before it.
THEOREM StageNeedsResumeHolds == Spec => []StageNeedsResume
<1>1. GateInv => StageNeedsResume  BY DEF GateInv, Opened, StageNeedsResume
<1>2. QED BY <1>1, GateInvariant, PTL

-----------------------------------------------------------------------------
(* Stale reads.                                                            *)

\* A thread that completes no further stage unless another command comes.
Quiet(r) ==
    \/ pc[r] \in {"announce", "clear", "respond", "retire", "mark", "pop", "exited"}
    \/ pc[r] = "wait" /\ ~event[r]
    \/ pc[r] = "check" /\ ~signaled[r]

\* What a handler read is still true, or one stage old and the thread quiet.
StaleInv ==
    /\ svcPc = "resume" => \/ completed[svcRun] = svcCmd - 1
                           \/ completed[svcRun] = svcCmd /\ Quiet(svcRun)
    /\ svcPc = "next" => \/ completed[svcRun] = svcSeen
                         \/ completed[svcRun] = svcSeen + 1 /\ Quiet(svcRun)

LEMMA StaleInvService == TypeInv /\ StaleInv /\ Service => StaleInv'
<1> SUFFICES ASSUME TypeInv, StaleInv, Service PROVE StaleInv'
  OBVIOUS
<1>1. CASE svcPc' \notin {"resume", "next"}
  BY <1>1 DEF StaleInv
<1>2. CASE AdvanceChecks /\ svcPc' = "resume"
  <2>1. NextExpected(svcRun) = svcCmd /\ svcRun' = svcRun /\ svcCmd' = svcCmd
    BY <1>2 DEF AdvanceChecks, HandlerReturns
  <2>2. svcRun \in Runs /\ svcCmd \in 2..LastStage /\ svcPc' = "resume"
    BY <1>2 DEF AdvanceChecks, TypeInv, ServiceInv, Commands
  <2>3. completed[svcRun] = svcCmd - 1
    BY <2>1, <2>2, StageGateAssumption DEF NextExpected, TypeInv, TypeOK
  <2>4. QED BY <1>2, <2>1, <2>2, <2>3 DEF StaleInv, AdvanceChecks, control
<1>3. ASSUME NEW r \in Runs, StatusReadsState(r) PROVE StaleInv'
  BY <1>3 DEF StatusReadsState, StaleInv, control
<1>4. QED
  BY <1>1, <1>2, <1>3 DEF Service, HandleCollect, HandleAdvance, HandleAbort, HandleStatus,
     Lookup, AdvanceChecks, Resume, Abort, StatusReadsNext, HandlerReturns, service

\* A quiet thread stays quiet, and a thread that completes a stage becomes so.
LEMMA QuietPipeline ==
    ASSUME TypeInv, NEW r \in Runs, NEW q \in Runs, Pipeline(r)
    PROVE  /\ Quiet(q) => Quiet(q)' /\ completed'[q] = completed[q]
           /\ completed'[q] = completed[q] \/ (completed'[q] = completed[q] + 1 /\ Quiet(q)')
<1> USE DEF Quiet, Goto, TypeInv, TypeOK, control, thread
<1>1. CASE StageEnds(r)        BY <1>1 DEF StageEnds
<1>2. CASE HookCompletes(r)    BY <1>2 DEF HookCompletes, ThreadInv
<1>3. CASE HookAnnounces(r)    BY <1>3 DEF HookAnnounces
<1>4. CASE HookClears(r)       BY <1>4 DEF HookClears
<1>5. CASE WaitReturns(r)      BY <1>5 DEF WaitReturns
<1>6. CASE HookChecks(r)       BY <1>6 DEF HookChecks
<1>7. CASE PipelineResponds(r) BY <1>7 DEF PipelineResponds
<1>8. CASE RetireLooksUp(r)    BY <1>8 DEF RetireLooksUp
<1>9. CASE RetireMarks(r)      BY <1>9 DEF RetireMarks
<1>10. CASE RetirePops(r)      BY <1>10 DEF RetirePops
<1> QED BY <1>1, <1>2, <1>3, <1>4, <1>5, <1>6, <1>7, <1>8, <1>9, <1>10 DEF Pipeline

LEMMA StaleInvPipeline ==
    ASSUME TypeInv, StaleInv, NEW r \in Runs, Pipeline(r) PROVE StaleInv'
<1>1. UNCHANGED <<svcPc, svcRun, svcCmd, svcSeen>>
  BY DEF Pipeline, StageEnds, HookCompletes, HookAnnounces, HookClears, WaitReturns,
     HookChecks, PipelineResponds, RetireLooksUp, RetireMarks, RetirePops, service
<1>2. CASE svcPc \notin {"resume", "next"}
  BY <1>1, <1>2 DEF StaleInv
<1>3. CASE svcPc \in {"resume", "next"}
  <2>1. PICK q \in Runs : q = svcRun
    BY <1>3 DEF TypeInv, ServiceInv
  <2>2. /\ Quiet(q) => Quiet(q)' /\ completed'[q] = completed[q]
        /\ completed'[q] = completed[q] \/ (completed'[q] = completed[q] + 1 /\ Quiet(q)')
    BY QuietPipeline
  <2>3. Quiet(svcRun) = Quiet(q) /\ Quiet(svcRun)' = Quiet(q)'
    BY <1>1, <2>1 DEF Quiet
  <2>4. completed[q] \in Nat /\ svcCmd \in Nat /\ svcSeen \in Nat
    BY StageGateAssumption DEF TypeInv, TypeOK, Commands
  <2>5. QED BY <1>1, <1>3, <2>1, <2>2, <2>3, <2>4 DEF StaleInv
<1>4. QED BY <1>2, <1>3

\* The advance handler and the status handler use what is at most one stage
\* old.
THEOREM HandlerStaleByAtMostOneStageHolds == Spec => []HandlerStaleByAtMostOneStage
<1>1. Init => StaleInv
  BY DEF Init, StaleInv
<1>2. TypeInv /\ StaleInv /\ UNCHANGED vars => StaleInv'
  BY DEF StaleInv, Quiet, vars, thread, control, service
<1>3. TypeInv /\ StaleInv /\ [Next]_vars => StaleInv'
  BY <1>2, StaleInvService, StaleInvPipeline DEF Next
<1>4. StaleInv => HandlerStaleByAtMostOneStage
  BY DEF StaleInv, HandlerStaleByAtMostOneStage
<1>5. QED BY <1>1, <1>3, <1>4, TypeCorrect, PTL DEF Spec

-----------------------------------------------------------------------------
(* The registry, where two collects may read the same timestamp.           *)

\* A pipeline no other shares its id with: registered while it runs, and marked
\* as done by itself alone, on its way out.
OwnEntry(r) == debugSessions[sid[r]] = r /\ (done[r] => pc[r] = "pop")

\* Entries and session ids belong together: a run has an id from its collect
\* on, an entry is for a run of that id, and what a retiring thread marks and
\* removes is a run of its own id, itself unless the id is shared.
RegistryInv ==
    /\ \A r \in Runs : sid[r] = None <=> pc[r] = "unborn"
    /\ \A r \in Runs : pc[r] = "unborn" => ~done[r]
    /\ \A id \in Ids : debugSessions[id] # None => sid[debugSessions[id]] = id
    /\ \A r \in Runs : pc[r] = "mark" => target[r] \in Runs /\ sid[target[r]] = sid[r]
    /\ \A r \in Live : SharesNoId(r) => OwnEntry(r)

LEMMA RegistryInvCollect ==
    ASSUME TypeInv, RegistryInv, NEW r \in Runs, NEW id \in Ids, HandleCollect(r, id)
    PROVE  RegistryInv'
<1> USE StageGateAssumption DEF TypeInv, TypeOK, ThreadInv
<1>1. /\ pc' = [pc EXCEPT ![r] = "run"] /\ sid' = [sid EXCEPT ![r] = id]
      /\ debugSessions' = [debugSessions EXCEPT ![id] = r]
      /\ target' = target /\ done' = done
      /\ pc[r] = "unborn" /\ sid[r] = None
  BY DEF HandleCollect, Unborn, RegistryInv, thread, control
<1>2. (\A q \in Runs : sid[q] = None <=> pc[q] = "unborn")'
  BY <1>1 DEF RegistryInv
<1>3. (\A q \in Runs : pc[q] = "unborn" => ~done[q])'
  BY <1>1 DEF RegistryInv
<1>4. (\A i \in Ids : debugSessions[i] # None => sid[debugSessions[i]] = i)'
  BY <1>1 DEF RegistryInv
<1>5. (\A q \in Runs : pc[q] = "mark" => target[q] \in Runs /\ sid[target[q]] = sid[q])'
  <2> SUFFICES ASSUME NEW q \in Runs, pc'[q] = "mark"
               PROVE  target[q] \in Runs /\ sid'[target[q]] = sid'[q]
    BY <1>1
  <2>1. q # r /\ pc[q] = "mark"
    BY <1>1
  <2>2. target[q] \in Runs /\ sid[target[q]] = sid[q] /\ sid[q] # None
    BY <2>1 DEF RegistryInv
  <2>3. target[q] # r
    BY <1>1, <2>2
  <2>4. QED BY <1>1, <2>1, <2>2, <2>3
<1>6. (\A q \in Live : SharesNoId(q) => OwnEntry(q))'
  <2> SUFFICES ASSUME NEW q \in Live', SharesNoId(q)' PROVE OwnEntry(q)'
    OBVIOUS
  <2>1. CASE q = r
    BY <1>1, <2>1 DEF OwnEntry, RegistryInv
  <2>2. CASE q # r
    <3>1. q \in Live /\ sid'[q] = sid[q] /\ sid[q] # id /\ sid[q] \in Ids
      BY <1>1, <2>2 DEF Live, SharesNoId
    <3>2. SharesNoId(q)
      BY <1>1, <2>2, <3>1 DEF SharesNoId
    <3>3. OwnEntry(q)
      BY <3>1, <3>2 DEF RegistryInv
    <3>4. QED BY <1>1, <2>2, <3>1, <3>3 DEF OwnEntry
  <2>3. QED BY <2>1, <2>2
<1>7. QED BY <1>2, <1>3, <1>4, <1>5, <1>6 DEF RegistryInv

LEMMA RegistryInvPops ==
    ASSUME TypeInv, RegistryInv, NEW r \in Runs, RetirePops(r)
    PROVE  RegistryInv'
<1> USE StageGateAssumption DEF TypeInv, TypeOK, ThreadInv
<1>1. /\ pc' = [pc EXCEPT ![r] = "exited"] /\ sid' = sid /\ pc[r] = "pop"
      /\ debugSessions' = [debugSessions EXCEPT ![sid[r]] = None]
      /\ target' = target /\ done' = done
  BY DEF RetirePops, Goto, control
<1>2. (\A q \in Runs : sid[q] = None <=> pc[q] = "unborn")'
  BY <1>1 DEF RegistryInv
<1>3. (\A q \in Runs : pc[q] = "unborn" => ~done[q])'
  BY <1>1 DEF RegistryInv
<1>4. (\A i \in Ids : debugSessions[i] # None => sid[debugSessions[i]] = i)'
  BY <1>1 DEF RegistryInv
<1>5. (\A q \in Runs : pc[q] = "mark" => target[q] \in Runs /\ sid[target[q]] = sid[q])'
  BY <1>1 DEF RegistryInv
<1>6. (\A q \in Live : SharesNoId(q) => OwnEntry(q))'
  <2> SUFFICES ASSUME NEW q \in Live', SharesNoId(q)' PROVE OwnEntry(q)'
    OBVIOUS
  <2>1. q \in Live /\ q # r
    BY <1>1 DEF Live
  <2>2. SharesNoId(q) /\ sid[q] # sid[r] /\ sid[q] \in Ids
    BY <1>1, <2>1 DEF SharesNoId, Live
  <2>3. OwnEntry(q)
    BY <2>1, <2>2 DEF RegistryInv
  <2>4. QED BY <1>1, <2>1, <2>2, <2>3 DEF OwnEntry
<1>7. QED BY <1>2, <1>3, <1>4, <1>5, <1>6 DEF RegistryInv

\* What a thread looks up is a run of its own id.
LEMMA RegistryInvLooksUp ==
    ASSUME TypeInv, RegistryInv, NEW r \in Runs, RetireLooksUp(r)
    PROVE  RegistryInv'
<1> USE StageGateAssumption DEF TypeInv, TypeOK, ThreadInv
<1> DEFINE to == IF debugSessions[sid[r]] = None THEN "exited" ELSE "mark"
<1>1. /\ pc' = [pc EXCEPT ![r] = to] /\ pc[r] = "retire" /\ sid[r] \in Ids
      /\ target' = [target EXCEPT ![r] = debugSessions[sid[r]]]
      /\ UNCHANGED <<debugSessions, sid, done>>
  BY DEF RetireLooksUp, Goto, control
<1>2. to \in {"exited", "mark"}
  OBVIOUS
<1>3. pc'[r] = "mark" => target'[r] \in Runs /\ sid[target'[r]] = sid[r]
  BY <1>1 DEF RegistryInv
<1>4. (\A q \in Runs : pc[q] = "mark" => target[q] \in Runs /\ sid[target[q]] = sid[q])'
  BY <1>1, <1>3 DEF RegistryInv
<1>5. (\A q \in Live : SharesNoId(q) => OwnEntry(q))'
  <2> SUFFICES ASSUME NEW q \in Live', SharesNoId(q)' PROVE OwnEntry(q)'
    OBVIOUS
  <2>1. q \in Live /\ SharesNoId(q) /\ (pc[q] = "pop" => pc'[q] = "pop")
    BY <1>1 DEF Live, SharesNoId
  <2>2. QED BY <1>1, <2>1 DEF RegistryInv, OwnEntry
<1>6. QED BY <1>1, <1>2, <1>4, <1>5 DEF RegistryInv

\* Nobody marks a run that shares its id with nobody but the run itself.
LEMMA RegistryInvMarks ==
    ASSUME TypeInv, RegistryInv, NEW r \in Runs, RetireMarks(r)
    PROVE  RegistryInv'
<1> USE StageGateAssumption DEF TypeInv, TypeOK, ThreadInv
<1>1. /\ pc' = [pc EXCEPT ![r] = "pop"] /\ pc[r] = "mark" /\ sid[r] \in Ids
      /\ done' = [done EXCEPT ![target[r]] = TRUE]
      /\ UNCHANGED <<debugSessions, sid, target>>
  BY DEF RetireMarks, Goto
<1>2. target[r] \in Runs /\ sid[target[r]] = sid[r] /\ sid[r] # None
  BY <1>1 DEF RegistryInv
<1>3. (\A q \in Runs : pc[q] = "unborn" => ~done[q])'
  BY <1>1, <1>2 DEF RegistryInv
<1>4. (\A q \in Live : SharesNoId(q) => OwnEntry(q))'
  <2> SUFFICES ASSUME NEW q \in Live', SharesNoId(q)' PROVE OwnEntry(q)'
    OBVIOUS
  <2>1. q \in Live /\ SharesNoId(q)
    BY <1>1 DEF Live, SharesNoId
  <2>2. CASE q = r
    BY <1>1, <2>1, <2>2 DEF RegistryInv, OwnEntry
  <2>3. CASE q # r
    <3>1. target[r] # q
      BY <1>2, <2>1, <2>3 DEF SharesNoId
    <3>2. QED BY <1>1, <2>1, <2>3, <3>1 DEF RegistryInv, OwnEntry
  <2>4. QED BY <2>2, <2>3
<1>5. QED BY <1>1, <1>3, <1>4 DEF RegistryInv

\* Every other step leaves the registry, the ids and the marks alone, starts no
\* run and moves none into the retirement's last two steps.
LEMMA RegistryInvOther ==
    ASSUME TypeInv, RegistryInv, UNCHANGED <<debugSessions, sid, target, done>>,
           \A q \in Runs : /\ pc'[q] = "unborn" <=> pc[q] = "unborn"
                           /\ pc'[q] = "mark" => pc[q] = "mark"
                           /\ pc[q] = "pop" => pc'[q] = "pop"
                           /\ pc'[q] \notin {"unborn", "exited"} => q \in Live
    PROVE  RegistryInv'
<1>1. (\A q \in Live : SharesNoId(q) => OwnEntry(q))'
  BY DEF RegistryInv, Live, SharesNoId, OwnEntry
<1>2. QED BY <1>1 DEF RegistryInv

LEMMA RegistryInvNext == ASSUME TypeInv, RegistryInv, Next PROVE RegistryInv'
<1>1. ASSUME NEW r \in Runs, NEW id \in Ids, HandleCollect(r, id) PROVE RegistryInv'
  BY <1>1, RegistryInvCollect
<1>2. ASSUME NEW r \in Runs, RetirePops(r) \/ RetireLooksUp(r) \/ RetireMarks(r)
      PROVE  RegistryInv'
  BY <1>2, RegistryInvPops, RegistryInvLooksUp, RegistryInvMarks
<1>3. ASSUME UNCHANGED <<debugSessions, sid, pc, target, done>> PROVE RegistryInv'
  BY <1>3, RegistryInvOther DEF Live
<1>4. ASSUME NEW r \in Runs, Pipeline(r),
             ~(RetirePops(r) \/ RetireLooksUp(r) \/ RetireMarks(r))
      PROVE  RegistryInv'
  <2>1. UNCHANGED <<debugSessions, sid, target, done>>
    BY <1>4 DEF Pipeline, StageEnds, HookCompletes, HookAnnounces, HookClears, WaitReturns,
       HookChecks, PipelineResponds, control
  <2>2. PICK from, to \in {"run", "hook", "announce", "clear", "wait", "check", "respond",
                           "retire"} :
          pc[r] = from /\ pc' = [pc EXCEPT ![r] = to]
    BY <1>4 DEF Pipeline, StageEnds, HookCompletes, HookAnnounces, HookClears, WaitReturns,
       HookChecks, PipelineResponds, Goto
  <2>3. QED BY <2>1, <2>2, RegistryInvOther DEF Live, TypeInv, TypeOK
<1>5. QED
  BY <1>1, <1>2, <1>3, <1>4 DEF Next, Service, HandleAdvance, HandleAbort,
     HandleStatus, Lookup, AdvanceChecks, Resume, Abort, StatusReadsState, StatusReadsNext,
     thread, control

\* The registry never outgrows its limit: only a collect adds an entry.
LimitInv == Cardinality(Registered) <= MaxSessions

LEMMA LimitNext == ASSUME TypeInv, LimitInv, [Next]_vars PROVE LimitInv'
<1>1. IsFiniteSet(Registered) /\ IsFiniteSet(Registered')
  BY FS_Subset, StageGateAssumption DEF Registered
<1>2. ASSUME NEW r \in Runs, NEW id \in Ids, HandleCollect(r, id) PROVE LimitInv'
  <2>1. Registered' \subseteq Registered \cup {id}
    BY <1>2 DEF HandleCollect, Registered, TypeInv, TypeOK
  <2>2. /\ IsFiniteSet(Registered \cup {id})
        /\ Cardinality(Registered \cup {id}) <= Cardinality(Registered) + 1
    <3>1. Cardinality(Registered) \in Nat
      BY <1>1, FS_CardinalityType
    <3>2. Cardinality(Registered \cup {id})
            = IF id \in Registered THEN Cardinality(Registered) ELSE Cardinality(Registered) + 1
      BY <1>1, FS_AddElement
    <3>3. IsFiniteSet(Registered \cup {id})
      BY <1>1, FS_AddElement
    <3>4. QED BY <3>1, <3>2, <3>3
  <2>3. Cardinality(Registered') <= Cardinality(Registered \cup {id})
    BY <2>1, <2>2, FS_Subset
  <2>4. Cardinality(Registered) < MaxSessions
    BY <1>2 DEF HandleCollect
  <2>5. QED
    BY <1>1, <2>1, <2>2, <2>3, <2>4, FS_CardinalityType, StageGateAssumption DEF LimitInv
<1>3. ASSUME Registered' \subseteq Registered PROVE LimitInv'
  BY <1>1, <1>3, FS_Subset, FS_CardinalityType, StageGateAssumption DEF LimitInv
<1>4. ASSUME debugSessions' = debugSessions PROVE LimitInv'
  BY <1>3, <1>4 DEF Registered
<1>5. ASSUME NEW r \in Runs, RetirePops(r) PROVE LimitInv'
  BY <1>3, <1>5 DEF RetirePops, Registered, TypeInv, TypeOK
<1>6. QED
  BY <1>2, <1>4, <1>5 DEF Next, Service, HandleAdvance, HandleAbort, HandleStatus, Lookup,
     AdvanceChecks, Resume, Abort, StatusReadsState, StatusReadsNext, vars, Pipeline,
     StageEnds, HookCompletes, HookAnnounces, HookClears, WaitReturns, HookChecks,
     PipelineResponds, RetireLooksUp, RetireMarks

\* Every live run whose id no other run got is registered under it and open to
\* resumes until its response is out, and the registry keeps to its limit,
\* whether or not two collects may read the same timestamp.
THEOREM LiveRunsRegisteredHolds == Spec => []LiveRunsRegistered
<1>1. Init => RegistryInv
  BY StageGateAssumption DEF Init, RegistryInv, Live
<1>2. Init => LimitInv
  <2> SUFFICES ASSUME Init PROVE LimitInv
    OBVIOUS
  <2>1. Registered = {}
    BY DEF Init, Registered
  <2>2. QED BY <2>1, FS_EmptySet, StageGateAssumption DEF LimitInv
<1>3. TypeInv /\ RegistryInv /\ UNCHANGED vars => RegistryInv'
  BY RegistryInvOther DEF Live, vars, thread, control
<1>4. TypeInv /\ RegistryInv /\ [Next]_vars => RegistryInv'
  BY <1>3, RegistryInvNext
<1>5. TypeInv /\ LimitInv /\ [Next]_vars => LimitInv'
  BY LimitNext
<1>6. RegistryInv /\ LimitInv => LiveRunsRegistered
  BY DEF RegistryInv, LimitInv, LiveRunsRegistered, OwnEntry
<1>7. QED BY <1>1, <1>2, <1>4, <1>5, <1>6, TypeCorrect, PTL DEF Spec

-----------------------------------------------------------------------------
(* Refinement.                                                             *)

phaseBar == [r \in Runs |-> Phase(r)]

\* A step that moves no thread between phases and changes neither completed_state
\* nor the accepted resumes is a stutter of the abstract gate.
LEMMA GateStutters ==
    ASSUME UNCHANGED <<completed, released>>, \A q \in Runs : Phase(q)' = Phase(q)
    PROVE  UNCHANGED Gate!vars
BY DEF Gate!vars

\* A step of thread r alone changes its phase only.
LEMMA PhaseMoves ==
    ASSUME TypeInv, NEW r \in Runs, NEW to, pc' = [pc EXCEPT ![r] = to]
    PROVE  phaseBar' = [phaseBar EXCEPT ![r] = Phase(r)']
<1>1. \A q \in Runs : q # r => Phase(q)' = Phase(q)
  BY DEF Phase, AtGate, TypeInv, TypeOK
<1>2. QED BY <1>1 DEF phaseBar

LEMMA GateServiceStep == TypeInv /\ Service => [Gate!Next]_(Gate!vars)
<1> SUFFICES ASSUME TypeInv, Service PROVE [Gate!Next]_(Gate!vars)
  OBVIOUS
<1>1. ASSUME NEW r \in Runs, NEW id \in Ids, HandleCollect(r, id)
      PROVE  Gate!Start(r)
  <2>1. pc' = [pc EXCEPT ![r] = "run"] /\ pc[r] = "unborn"
        /\ UNCHANGED <<completed, released>>
    BY <1>1 DEF HandleCollect, Unborn, control, history
  <2>2. phaseBar' = [phaseBar EXCEPT ![r] = Phase(r)']
    BY <2>1, PhaseMoves
  <2>3. Phase(r) = "unborn" /\ Phase(r)' = "working"
    BY <2>1 DEF Phase, AtGate, TypeInv, TypeOK
  <2>4. QED BY <2>1, <2>2, <2>3 DEF Gate!Start, Gate!Moves, phaseBar
<1>2. CASE Resume /\ ~done[svcRun]
  <2>1. PICK r \in Runs : r = svcRun
    BY <1>2 DEF Resume, TypeInv, ServiceInv
  <2>2. released' = [released EXCEPT ![r] = @ \cup {completed[r]}] /\ completed' = completed
        /\ pc' = pc
    BY <1>2, <2>1 DEF Resume, thread
  <2>3. phaseBar' = phaseBar
    BY <2>2 DEF phaseBar, Phase, AtGate
  <2>4. phaseBar[r] # "unborn"
    BY <1>2, <2>1 DEF Resume, TypeInv, ServiceInv, phaseBar, Phase, AtGate
  <2>5. Gate!Grant(r)
    BY <2>2, <2>3, <2>4 DEF Gate!Grant, phaseBar
  <2>6. QED BY <2>5 DEF Gate!Next
<1>3. ASSUME UNCHANGED <<pc, completed, released>> PROVE UNCHANGED Gate!vars
  BY <1>3 DEF Gate!vars, Phase, AtGate
<1>4. CASE Abort
  <2>1. PICK r \in Runs : r = svcRun
    BY <1>4 DEF Abort, TypeInv, ServiceInv
  <2>2. /\ released' = [released EXCEPT ![r] = IF AtGate(r) THEN @ \ {completed[r]} ELSE @]
        /\ completed' = completed /\ pc' = pc
    BY <1>4, <2>1 DEF Abort, thread
  <2>3. CASE AtGate(r)
    <3>1. phaseBar' = phaseBar /\ phaseBar[r] = "gated"
      BY <2>2, <2>3 DEF phaseBar, Phase, AtGate
    <3>2. Gate!Revoke(r)
      BY <2>2, <2>3, <3>1 DEF Gate!Revoke, phaseBar
    <3>3. QED BY <3>2 DEF Gate!Next
  <2>4. CASE ~AtGate(r)
    <3>1. released' = released
      BY <2>2, <2>4 DEF TypeInv, TypeOK
    <3>2. QED BY <1>3, <2>2, <3>1
  <2>5. QED BY <2>3, <2>4
<1>5. QED
  BY <1>1, <1>2, <1>3, <1>4 DEF Service, HandleAdvance, HandleAbort, HandleStatus, Lookup,
     AdvanceChecks, Resume, StatusReadsState, StatusReadsNext, Gate!Next, thread,
     control, history

\* The abstract step a thread's step maps to, from its place before and after.
LEMMA GatePipelineStep ==
    ASSUME TypeInv, GateInv, NEW r \in Runs, Pipeline(r)
    PROVE  [Gate!Next]_(Gate!vars)
<1> USE DEF Goto
<1>1. ASSUME NEW to, pc' = [pc EXCEPT ![r] = to], Phase(r)' = Phase(r),
             UNCHANGED <<completed, released>>
      PROVE  UNCHANGED Gate!vars
  <2>1. phaseBar' = [phaseBar EXCEPT ![r] = Phase(r)']
    BY <1>1, PhaseMoves
  <2>2. phaseBar' = phaseBar
    BY <1>1, <2>1 DEF phaseBar
  <2>3. QED BY <1>1, <2>2 DEF Gate!vars, phaseBar
<1>2. ASSUME NEW to, pc' = [pc EXCEPT ![r] = to], Phase(r) \in {"working", "gated"},
             Phase(r)' = "over", UNCHANGED <<completed, released>>
      PROVE  Gate!End(r)
  <2>1. phaseBar' = [phaseBar EXCEPT ![r] = "over"]
    BY <1>2, PhaseMoves
  <2>2. QED BY <1>2, <2>1 DEF Gate!End, Gate!Moves, phaseBar
<1>3. CASE HookCompletes(r)
  <2>1. pc' = [pc EXCEPT ![r] = "announce"] /\ pc[r] = "hook" /\ released' = released
        /\ completed' = [completed EXCEPT ![r] = completed[r] + 1]
    BY <1>3 DEF HookCompletes, TypeInv, ThreadInv, history
  <2>2. phaseBar' = [phaseBar EXCEPT ![r] = "gated"] /\ phaseBar[r] = "working"
    BY <2>1, PhaseMoves DEF Phase, AtGate, phaseBar, TypeInv, TypeOK
  <2>3. Gate!Reach(r)
    BY <2>1, <2>2 DEF Gate!Reach, Gate!Moves, phaseBar
  <2>4. QED BY <2>3 DEF Gate!Next
<1>4. CASE HookChecks(r) /\ signaled[r] /\ ~aborted[r]
  <2>1. pc' = [pc EXCEPT ![r] = "run"] /\ pc[r] = "check" /\ UNCHANGED <<completed, released>>
    BY <1>4 DEF HookChecks, control, history
  <2>2. phaseBar' = [phaseBar EXCEPT ![r] = "working"] /\ phaseBar[r] = "gated"
    BY <2>1, PhaseMoves DEF Phase, AtGate, phaseBar, TypeInv, TypeOK
  <2>3. completed[r] = stage[r] /\ stage[r] < LastStage /\ stage[r] \in released[r]
    BY <1>4, <2>1 DEF TypeInv, ThreadInv, GateInv, Opened
  <2>4. Gate!Pass(r)
    BY <2>1, <2>2, <2>3 DEF Gate!Pass, Gate!Moves, phaseBar
  <2>5. QED BY <2>4 DEF Gate!Next
<1>5. CASE ~HookCompletes(r) /\ ~(HookChecks(r) /\ signaled[r] /\ ~aborted[r])
  <2>1. PICK from, to :
          /\ pc[r] = from /\ pc' = [pc EXCEPT ![r] = to] /\ UNCHANGED <<completed, released>>
          /\ <<from, to>> \in {<<"run", "hook">>, <<"run", "respond">>,
               <<"announce", "clear">>, <<"announce", "respond">>, <<"clear", "wait">>,
               <<"wait", "check">>, <<"check", "respond">>, <<"respond", "retire">>,
               <<"retire", "exited">>, <<"retire", "mark">>, <<"mark", "pop">>,
               <<"pop", "exited">>}
    BY <1>5 DEF Pipeline, StageEnds, HookAnnounces, HookClears, WaitReturns, HookChecks,
       PipelineResponds, RetireLooksUp, RetireMarks, RetirePops, control, history
  <2>2. pc'[r] = to
    BY <2>1 DEF TypeInv, TypeOK
  <2>3. Phase(r)' = Phase(r) \/ (Phase(r) \in {"working", "gated"} /\ Phase(r)' = "over")
    BY <2>1, <2>2 DEF Phase, AtGate
  <2>4. QED BY <1>1, <1>2, <2>1, <2>3 DEF Gate!Next
<1>6. QED BY <1>3, <1>4, <1>5

\* Every behaviour of the threads, locks and events is one of the abstract
\* gate, for any number of pipelines and stages.
THEOREM GateRefinement == Spec => ImplementsGate
<1>1. Init => Gate!Init
  BY DEF Init, Gate!Init, Phase, AtGate
<1>2. TypeInv /\ GateInv /\ [Next]_vars => [Gate!Next]_(Gate!vars)
  <2>1. UNCHANGED vars => UNCHANGED Gate!vars
    BY DEF vars, Gate!vars, Phase, AtGate, thread, control, history
  <2>2. QED BY <2>1, GateServiceStep, GatePipelineStep DEF Next
<1>3. QED
  BY <1>1, <1>2, TypeCorrect, GateInvariant, PTL DEF Spec, ImplementsGate, Gate!Spec
=============================================================================
