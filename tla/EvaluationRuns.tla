----------------------------- MODULE EvaluationRuns -----------------------------
(***************************************************************************)
(* The evaluation of the agents (evaluation/): a dataset's tasks are run   *)
(* one after the other, each with an agent and a browser of its own; the   *)
(* runs are copied without those that the infrastructure failed; a judge   *)
(* then labels every copied run, with several workers.  All of it is done  *)
(* again and again on the same files: after an interruption, for the tasks *)
(* to be retried, or to label what a failed evaluation left.               *)
(*                                                                         *)
(* Screenshots are files named by their step; what matters of one is the   *)
(* attempt that took it (0: there is no such file).  The agent, the judge  *)
(* and the user are external.                                              *)
(***************************************************************************)
EXTENDS Naturals, Sequences, FiniteSets, FiniteSetsExt

CONSTANTS
    EvalTasks,
    Workers,       \* of one evaluation
    MaxAttempts,   \* bound: runs of tasks
    MaxStep,       \* bound: steps of a run
    MaxEvals       \* bound: evaluations

VARIABLES
    saves,       \* where screenshots are kept: "session" (the log has a directory), "task", or "undecided"
    results,     \* <task>/result.json
    trajectory,  \* <task>/trajectory/, which all attempts of the task share
    session,     \* the session directories' screenshots/, one of each attempt
    answers,     \* answers.jsonl: the attempt whose answer is there
    runner,      \* the runner: [pc, todo, task, raised, captured]
    attempts,
    browsers,    \* attempts whose browser runs
    lastDriver,  \* WebAxonAdapter._last_webdriver, and the directory of its screenshots
    sanitized,   \* the copies
    labels,      \* the lines of the results file of the evaluations
    judge,       \* the evaluation's workers
    evaluation   \* "none", "running" or "failed", and its number and labels
evalVars == <<saves, results, trajectory, session, answers, runner, attempts, browsers, lastDriver,
              sanitized, labels, judge, evaluation>>

Steps == 0 .. MaxStep
NoFiles == [s \in Steps |-> 0]
NoResult == [attempt |-> 0, outcome |-> "none", infra |-> FALSE, dir |-> "none"]
NoCopy == [result |-> NoResult, shots |-> NoFiles]
NoTask == "none"
ASSUME EvalAssumption == NoTask \notin EvalTasks /\ MaxAttempts \in Nat
RunnerOff == [pc |-> "off", todo |-> {}, task |-> NoTask, raised |-> FALSE]
JudgeOff == [todo |-> {}, task |-> NoTask]
NoEvaluation == [state |-> "none", count |-> 0]

EvalInit ==
    /\ saves = "undecided" /\ attempts = 0 /\ browsers = {} /\ lastDriver = 0
    /\ results = [t \in EvalTasks |-> NoResult] /\ trajectory = [t \in EvalTasks |-> NoFiles]
    /\ session = [n \in 1 .. MaxAttempts |-> NoFiles] /\ answers = [t \in EvalTasks |-> 0]
    /\ runner = RunnerOff /\ sanitized = [t \in EvalTasks |-> NoCopy] /\ labels = <<>>
    /\ judge = [w \in Workers |-> JudgeOff] /\ evaluation = NoEvaluation

UnchangedJudging == UNCHANGED <<sanitized, labels, judge, evaluation>>
UnchangedRunning == UNCHANGED <<saves, results, trajectory, session, answers, runner, attempts, browsers, lastDriver>>

-----------------------------------------------------------------------------
(* Running a dataset, or the tasks to be retried.  answers.jsonl is opened *)
(* anew, result.json of a task is kept until the task is run.              *)

RunDataset(tasks) ==
    /\ runner.pc = "off" /\ evaluation.state = "none" /\ tasks # {}
    /\ runner' = [RunnerOff EXCEPT !.pc = "next", !.todo = tasks]
    /\ answers' = [t \in EvalTasks |-> 0]
    /\ saves' \in IF saves = "undecided" THEN {"session", "task"} ELSE {saves}
    /\ UnchangedJudging
    /\ UNCHANGED <<results, trajectory, session, attempts, browsers, lastDriver>>

(* What the run's agent leaves behind: a browser once the agent has been   *)
(* created, screenshots once the browser has been hooked.                  *)
Outcomes == {o \in [created : BOOLEAN, hooked : BOOLEAN, raises : BOOLEAN, taken : SUBSET Steps] :
                /\ o.hooked => o.created
                /\ o.taken # {} => o.hooked
                /\ ~o.raises => o.created}

Taken(files, steps, attempt) == [s \in Steps |-> IF s \in steps THEN attempt ELSE files[s]]

RunWithHooks(t, o) ==
    LET attempt == attempts + 1
    IN /\ runner.pc = "next" /\ t \in runner.todo /\ attempts < MaxAttempts
       /\ attempts' = attempt
       /\ browsers' = IF o.created THEN browsers \cup {attempt} ELSE browsers
       /\ session' = IF saves = "session" THEN [session EXCEPT ![attempt] = Taken(NoFiles, o.taken, attempt)] ELSE session
       /\ trajectory' = IF saves = "session" THEN trajectory ELSE [trajectory EXCEPT ![t] = Taken(@, o.taken, attempt)]
       /\ lastDriver' = IF o.hooked /\ ~o.raises THEN attempt ELSE 0
       /\ runner' = [runner EXCEPT !.pc = "ran", !.task = t, !.todo = @ \ {t}, !.raised = o.raises]
       /\ UnchangedJudging /\ UNCHANGED <<saves, results, answers>>

CleanupRunResources == lastDriver' = 0 /\ browsers' = browsers \ {lastDriver}

(* Missing screenshots before the last one get placeholders.               *)
CollectScreenshots(files, attempt) ==
    LET present == {s \in Steps : files[s] # 0}
    IN [s \in Steps |-> IF files[s] = 0 /\ present # {} /\ s < Max(present) THEN attempt ELSE files[s]]

(* The last thing the agent said that is not about its next step is its    *)
(* answer; without one, what it said last is.                              *)
ParseSessionLogs(said) == IF "answer" \in said THEN "answered" ELSE "unfinished"

(* A run that raised is exported as an error, with the screenshots of the  *)
(* task's own directory.                                                   *)
Outcome(said) == IF runner.raised THEN "error" ELSE ParseSessionLogs(said)

ExportResult(outcome, named, dir) == [attempt |-> attempts, outcome |-> outcome, infra |-> named, dir |-> dir]

(* The end of run_task: the browser quits, the log and the screenshots are *)
(* read, result.json is written.  "named": the answer or the last thought  *)
(* names a failure of the infrastructure.                                  *)
RunTaskEnds(said, named) ==
    LET t == runner.task
        inSession == saves = "session" /\ lastDriver # 0
        dir == IF inSession THEN "session" ELSE "trajectory"
    IN /\ runner.pc = "ran"
       /\ CleanupRunResources
       /\ session' = IF inSession /\ ~runner.raised THEN [session EXCEPT ![attempts] = CollectScreenshots(@, attempts)] ELSE session
       /\ trajectory' = IF ~inSession /\ ~runner.raised THEN [trajectory EXCEPT ![t] = CollectScreenshots(@, attempts)] ELSE trajectory
       /\ results' = [results EXCEPT ![t] = ExportResult(Outcome(said), named, dir)]
       /\ runner' = [runner EXCEPT !.pc = "exported"]
       /\ UnchangedJudging /\ UNCHANGED <<saves, answers, attempts>>

AnswerLine ==
    /\ runner.pc = "exported"
    /\ answers' = [answers EXCEPT ![runner.task] = attempts]
    /\ CleanupRunResources
    /\ runner' = IF runner.todo = {} THEN RunnerOff ELSE [RunnerOff EXCEPT !.pc = "next", !.todo = runner.todo]
    /\ UnchangedJudging /\ UNCHANGED <<saves, results, trajectory, session, attempts>>

(* Interrupted, or killed: nothing quits the browser.                      *)
RunInterrupted ==
    /\ runner.pc # "off" /\ runner' = RunnerOff /\ lastDriver' = 0
    /\ UnchangedJudging
    /\ UNCHANGED <<saves, results, trajectory, session, answers, attempts, browsers>>

-----------------------------------------------------------------------------
(* Copying the runs.                                                       *)

IsInfraFailure(result) == result.infra

(* Mutant of ScreenshotsOf: the directory the result names is not read.    *)
TaskScreenshots(t) == trajectory[t]

ScreenshotsOf(t) == IF results[t].dir = "session" THEN session[results[t].attempt] ELSE trajectory[t]

SanitizeRuns ==
    [t \in EvalTasks |-> IF results[t] = NoResult \/ IsInfraFailure(results[t]) THEN NoCopy
                         ELSE [result |-> results[t], shots |-> ScreenshotsOf(t)]]

Excluded == {t \in EvalTasks : results[t] # NoResult /\ IsInfraFailure(results[t])}

(* The user runs the tasks that were left out once more.                   *)
RunRetryTasks == RunDataset(Excluded)

Chunks(tasks) == {f \in [Workers -> SUBSET tasks] :
                     /\ UNION {f[w] : w \in Workers} = tasks
                     /\ \A v, w \in Workers : v # w => f[v] \cap f[w] = {}}

RunEval ==
    LET copies == SanitizeRuns
        tasks == {t \in EvalTasks : copies[t] # NoCopy}
    IN /\ runner.pc = "off" /\ evaluation.state = "none" /\ evaluation.count < MaxEvals
       /\ sanitized' = copies /\ tasks # {}
       /\ \E chunks \in Chunks(tasks) : judge' = [w \in Workers |-> [JudgeOff EXCEPT !.todo = chunks[w]]]
       /\ evaluation' = [state |-> "running", count |-> evaluation.count + 1]
       /\ UnchangedRunning /\ UNCHANGED labels

-----------------------------------------------------------------------------
(* Judging.  The judge scores each screenshot and is asked for a verdict   *)
(* on those that score high enough.                                        *)

Responses == [status : {"none", "success", "other"}, lastWord : {"none", "success", "failure"}]

(* "success" anywhere after the last "Status:" is a success.               *)
ExtractStatusLabel(response) ==
    IF response.status # "none" THEN IF response.status = "success" THEN 1 ELSE 0
    ELSE IF response.lastWord = "success" THEN 1 ELSE 0

AlreadyIds == {labels[i].task : i \in DOMAIN labels}

IsDone(t) == t \in AlreadyIds

TakesTask(w, t) ==
    /\ evaluation.state # "none" /\ judge[w].task = NoTask /\ t \in judge[w].todo
    /\ judge' = [judge EXCEPT ![w] = [todo |-> @.todo \ {t}, task |-> IF IsDone(t) THEN NoTask ELSE t]]
    /\ UnchangedRunning /\ UNCHANGED <<sanitized, labels, evaluation>>

AutoEval(w, response) ==
    LET t == judge[w].task
        copy == sanitized[t]
    IN /\ t # NoTask
       /\ labels' = Append(labels, [task |-> t, attempt |-> copy.result.attempt, outcome |-> copy.result.outcome,
                                    shots |-> copy.shots, label |-> ExtractStatusLabel(response)])
       /\ judge' = [judge EXCEPT ![w].task = NoTask]
       /\ UnchangedRunning /\ UNCHANGED <<sanitized, evaluation>>

(* The judge raises: the worker leaves its other tasks, and there is no    *)
(* accuracy at the end.                                                    *)
AutoEvalRaises(w) ==
    /\ judge[w].task # NoTask
    /\ judge' = [judge EXCEPT ![w] = JudgeOff]
    /\ evaluation' = [evaluation EXCEPT !.state = "failed"]
    /\ UnchangedRunning /\ UNCHANGED <<sanitized, labels>>

EvalEnds ==
    /\ evaluation.state # "none" /\ \A w \in Workers : judge[w] = JudgeOff
    /\ evaluation' = [evaluation EXCEPT !.state = "none"]
    /\ UnchangedRunning /\ UNCHANGED <<sanitized, labels, judge>>

EvalKilled ==
    /\ evaluation.state # "none"
    /\ judge' = [w \in Workers |-> JudgeOff] /\ evaluation' = [evaluation EXCEPT !.state = "none"]
    /\ UnchangedRunning /\ UNCHANGED <<sanitized, labels>>

-----------------------------------------------------------------------------
EvalNext ==
    \/ \E tasks \in SUBSET EvalTasks : RunDataset(tasks)
    \/ \E t \in EvalTasks, o \in Outcomes : RunWithHooks(t, o)
    \/ \E said \in SUBSET {"answer", "next_step"}, named \in BOOLEAN : RunTaskEnds(said, named)
    \/ AnswerLine \/ RunInterrupted \/ RunRetryTasks \/ RunEval \/ EvalEnds \/ EvalKilled
    \/ \E w \in Workers :
          \/ \E t \in EvalTasks : TakesTask(w, t)
          \/ \E response \in Responses : AutoEval(w, response)
          \/ AutoEvalRaises(w)

EvalSpec == EvalInit /\ [][EvalNext]_evalVars

-----------------------------------------------------------------------------
(* However often runs and evaluations are repeated, interrupted or fail    *)
(* half-way, a task is labelled at most once; and where screenshots are    *)
(* kept with the session, the ones the judge saw with a result are those   *)
(* its own run took, none of an earlier attempt and none missing.          *)
LabelsOnceAndOnOwnRun ==
    /\ \A i, j \in DOMAIN labels : labels[i].task = labels[j].task => i = j
    /\ \A i \in DOMAIN labels : saves = "session" =>
          labels[i].shots = IF labels[i].outcome # "error" THEN session[labels[i].attempt] ELSE NoFiles
=============================================================================
