------------------------------ MODULE DeepLoop ------------------------------
(***************************************************************************)
(* The deep-agent loop (greentic-dw-runtime, deep_loop.rs): plan, act,     *)
(* review, record, until the plan is settled, a review ends the run or the *)
(* iteration budget is spent.  The planner, delegator, reflector and       *)
(* executor are model-backed providers that may answer anything their      *)
(* contracts allow, or fail; every change of the task goes through the     *)
(* runtime kernel, whose hooks may veto and whose store may fail.  The     *)
(* caller may run an unfinished task again.                                *)
(***************************************************************************)
EXTENDS TaskLifecycle, PlanSteps, Naturals, Sequences, FiniteSets

CONSTANTS
  Steps,                    \* step ids of the plan
  DelegateSteps,            \* the steps whose kind is Delegate
  Deps,                     \* depends_on: step -> set of steps
  InitialPlans,             \* statuses a plan may be handed in with
  EntryStates,              \* states a task may be handed in with
  Decisions,                \* engine decisions, as sequences of operations
  Vetoed,                   \* <<operation, state>> pairs some hook blocks
  StoreMayFail,             \* may the task-state store fail a save?
  Verdicts,                 \* what the reflector wired into the run may answer
  HasExecutor,              \* is a StepExecutor wired?
  ToolReports,              \* tool_calls_used an executor may report
  MaxIterations,            \* max_iterations of the coordinator
  MaxActions,               \* bound: actions in one answer of the planner
  MaxRuns                   \* bound: runs of the same task

PER_STEP_TOOL_CAP == 6
TOOL_CALLS_PER_ITERATION == 3

\* ReviewVerdict, named for the phase each one leads to.
ReviewVerdicts == {"accept", "retry", "revise", "redelegate", "fail"}

ASSUME DeepLoopAssumption ==
  /\ DelegateSteps \subseteq Steps
  /\ Deps \in [Steps -> SUBSET Steps]
  /\ ValidDependencies(Steps, Deps)
  /\ InitialPlans \subseteq [Steps -> StepStatuses]
  /\ EntryStates \subseteq States
  /\ Decisions \subseteq Seq(Operations)
  /\ Vetoed \subseteq Operations \X States
  /\ StoreMayFail \in BOOLEAN
  /\ Verdicts \subseteq ReviewVerdicts
  /\ HasExecutor \in BOOLEAN
  /\ ToolReports \subseteq Nat
  /\ MaxIterations \in Nat
  /\ MaxActions \in Nat
  /\ MaxRuns \in Nat \ {0}

VARIABLES
  env,                      \* lifecycle state of the task envelope
  plan,                     \* status of every step
  given,                    \* the plan as it was handed to the current run
  phase,                    \* where the run is, see Phases
  iter,                     \* planner iterations begun
  todo,                     \* steps of the planner's answer still to act on
  ops,                      \* operations of the engine decision still to apply
  seq,                      \* artifact_seq
  used,                     \* tool calls charged to the run
  emitted,                  \* emitted_subtasks of the current run
  status,                   \* "working", or how the run returned
  runs,                     \* runs begun on this task
  started,                  \* subtasks the delegator was given, over all runs
  artifacts                 \* artifact ids in the workspace, over all runs

taskVars == <<env, plan, given>>
runVars == <<phase, iter, todo, ops, seq, used, emitted, status, runs>>
worldVars == <<started, artifacts>>
vars == <<taskVars, runVars, worldVars>>

Phases == {"enter", "plan", "judge", "complete", "fail", "act", "delegate", "handoff",
           "tick", "execute", "review", "accept", "retry", "revise", "redelegate",
           "done"}

Statuses == {"working", "completed", "failed", "delegating", "revising",
             "budget_exhausted", "error"}

\* A SubtaskEnvelope: its id is the task's and the step's, so the step stands
\* for it; via, env and run say how, in which state and when it was started.
Handoffs == [step : Steps, via : {"plan", "review"}, env : States, run : Nat]

ArtifactIds == Steps \X Nat

-----------------------------------------------------------------------------
Init ==
  /\ env \in EntryStates
  /\ plan \in InitialPlans
  /\ given = plan
  /\ phase = "enter"
  /\ iter = 0
  /\ todo = <<>>
  /\ ops = <<>>
  /\ seq = 0
  /\ used = 0
  /\ emitted = <<>>
  /\ status = "working"
  /\ runs = 1
  /\ started = <<>>
  /\ artifacts = {}

Step == Head(todo)

\* The run returns a DeepLoopRun.
Report(result) ==
  /\ phase' = "done"
  /\ status' = result

\* The `?` of run: the DeepLoopRun is dropped with everything it holds and the
\* caller is left with the plan it handed in.
Abort ==
  /\ phase' = "done"
  /\ status' = "error"
  /\ plan' = given

\* The current action is done with: on to the next one or the next iteration.
NextAction ==
  /\ todo' = Tail(todo)
  /\ phase' = IF Len(todo) = 1 THEN "plan" ELSE "act"

RecordCompleted == plan' = RecordStepResult(plan, Deps, Step, "completed")

-----------------------------------------------------------------------------
(* The kernel, one operation at a time.                                    *)

\* The operation a phase has the runtime apply; a tick may have none left.
PendingOperations ==
  CASE phase = "enter"    -> IF env = "created" THEN {"start"} ELSE {}
    [] phase = "delegate" -> {"delegate"}
    [] phase = "tick"     -> IF ops # <<>> THEN {Head(ops)} ELSE {}
    [] phase = "complete" -> {"complete"}
    [] phase = "fail"     -> {"fail"}
    [] OTHER              -> {}

Allowed(op) == <<op, env>> \notin Vetoed /\ Applies(op, env)

\* The runtime applied the operation and returned its event.
Applied(op) == Allowed(op) /\ env' = TargetState(op, env)

\* A hook blocked it, the table forbids it, or it was applied and then the
\* save failed: the run ends with the runtime's error either way.
KernelRefuses ==
  /\ \E op \in PendingOperations :
       \/ ~Allowed(op) /\ UNCHANGED env
       \/ StoreMayFail /\ Applied(op)
  /\ Abort
  /\ UNCHANGED <<given, iter, todo, ops, seq, used, emitted, runs, worldVars>>

-----------------------------------------------------------------------------
(* The head of the run and of an iteration.                                *)

\* A fresh task is started; any other is taken as it is.
Enter ==
  /\ phase = "enter"
  /\ IF env = "created" THEN Applied("start") ELSE UNCHANGED env
  /\ phase' = "plan"
  /\ UNCHANGED <<plan, given, iter, todo, ops, seq, used, emitted, status, runs, worldVars>>

\* for _ in 0..self.max_iterations
IterationsLeft == iter < MaxIterations

\* next_actions answered with steps to act on.  The provider checks that the
\* ids are known, nothing else.
SelectActions ==
  /\ phase = "plan"
  /\ IterationsLeft
  /\ iter' = iter + 1
  /\ \E n \in 1..MaxActions : todo' \in [1..n -> Steps]
  /\ phase' = "act"
  /\ UNCHANGED <<taskVars, ops, seq, used, emitted, status, runs, worldVars>>

\* Mutant: an incomplete plan is asked about again for free.
IdleIterationFree == iter

\* `continue`: an iteration in which the planner had nothing to do.
IdleIteration == iter + 1

\* Mutant: the completion check is made although subtasks are out.
NothingHandedOffUnchecked == TRUE

\* emitted_subtasks.is_empty()
NothingHandedOff == emitted = <<>>

\* next_actions answered with nothing.
PlannerIsDone ==
  /\ phase = "plan"
  /\ IterationsLeft
  /\ iter' = IdleIteration
  /\ IF NothingHandedOff
       THEN phase' = "judge" /\ UNCHANGED status
       ELSE Report("delegating")
  /\ UNCHANGED <<taskVars, todo, ops, seq, used, emitted, runs, worldVars>>

\* evaluate_completion, and review_final for a satisfied plan: any verdict but
\* Fail completes the task.
JudgePlan ==
  /\ phase = "judge"
  /\ \/ /\ EvaluateCompletion(plan) = "satisfied"
        /\ \E verdict \in Verdicts : phase' = IF verdict = "fail" THEN "fail" ELSE "complete"
     \/ /\ EvaluateCompletion(plan) = "unsatisfied"
        /\ phase' = "fail"
     \/ /\ EvaluateCompletion(plan) = "incomplete"
        /\ phase' = "plan"
  /\ UNCHANGED <<taskVars, iter, todo, ops, seq, used, emitted, status, runs, worldVars>>

CompleteTask ==
  /\ phase = "complete"
  /\ Applied("complete")
  /\ Report("completed")
  /\ UNCHANGED <<plan, given, iter, todo, ops, seq, used, emitted, runs, worldVars>>

\* After a failed final review, an unsatisfied plan or a Fail verdict.
FailTask ==
  /\ phase = "fail"
  /\ Applied("fail")
  /\ Report("failed")
  /\ UNCHANGED <<plan, given, iter, todo, ops, seq, used, emitted, runs, worldVars>>

BudgetExhausted ==
  /\ phase = "plan"
  /\ ~IterationsLeft
  /\ Report("budget_exhausted")
  /\ UNCHANGED <<taskVars, iter, todo, ops, seq, used, emitted, runs, worldVars>>

-----------------------------------------------------------------------------
(* A Delegate step: choose_delegate, runtime.delegate, start_subtask.      *)

\* Mutant: a Delegate step goes straight to the delegator.
DelegatePhaseDirect == "handoff"

DelegatePhase == "delegate"

ChooseDelegate ==
  /\ phase = "act"
  /\ Step \in DelegateSteps
  /\ phase' = DelegatePhase
  /\ UNCHANGED <<taskVars, iter, todo, ops, seq, used, emitted, status, runs, worldVars>>

DelegateTask ==
  /\ phase = "delegate"
  /\ Applied("delegate")
  /\ phase' = "handoff"
  /\ UNCHANGED <<plan, given, iter, todo, ops, seq, used, emitted, status, runs, worldVars>>

Handoff(via) == [step |-> Step, via |-> via, env |-> env, run |-> runs]

\* emitted_subtasks.push
Emit(handoff) == Append(emitted, handoff)

\* delegator.start_subtask, then the step is recorded as completed.
StartSubtask(via) ==
  /\ started' = Append(started, Handoff(via))
  /\ emitted' = Emit(Handoff(via))
  /\ RecordCompleted
  /\ NextAction
  /\ UNCHANGED <<env, given, iter, ops, seq, used, status, runs, artifacts>>

StartPlannedSubtask == phase = "handoff" /\ StartSubtask("plan")

\* The delegator took the subtask but its answer was an error.
HandoffAnswerLost ==
  /\ \E via \in {"plan", "review"} :
       /\ phase = IF via = "plan" THEN "handoff" ELSE "redelegate"
       /\ started' = Append(started, Handoff(via))
  /\ Abort
  /\ UNCHANGED <<env, given, iter, todo, ops, seq, used, emitted, runs, artifacts>>

-----------------------------------------------------------------------------
(* Any other step: tick, execute, create the artifact, review.             *)

\* execute_action asks the engine for a decision.
TickBegin ==
  /\ phase = "act"
  /\ Step \notin DelegateSteps
  /\ ops' \in Decisions
  /\ phase' = "tick"
  /\ UNCHANGED <<taskVars, iter, todo, seq, used, emitted, status, runs, worldVars>>

TickOperation ==
  /\ phase = "tick"
  /\ ops # <<>>
  /\ Applied(Head(ops))
  /\ ops' = Tail(ops)
  /\ UNCHANGED <<plan, given, phase, iter, todo, seq, used, emitted, status, runs, worldVars>>

AfterTick == "execute"

TickEnd ==
  /\ phase = "tick"
  /\ ops = <<>>
  /\ phase' = AfterTick
  /\ UNCHANGED <<taskVars, iter, todo, ops, seq, used, emitted, status, runs, worldVars>>

\* ToolBudget
ToolTotal == MaxIterations * TOOL_CALLS_PER_ITERATION
Remaining == IF used < ToolTotal THEN ToolTotal - used ELSE 0
Smaller(m, n) == IF m < n THEN m ELSE n
Grant == Smaller(PER_STEP_TOOL_CAP, Remaining)

\* Mutant: the executor is charged what it says it used.
ChargeReported(reported) == used + reported

Charge(reported) == used + Smaller(reported, Grant)

ExecuteStep ==
  IF HasExecutor
    THEN \E reported \in ToolReports : used' = Charge(reported)
    ELSE UNCHANGED used

ArtifactId == <<Step, seq>>

\* Mutant: the sequence number restarts with every answer of the planner.
NextArtifactSeqPerAnswer == IF Len(todo) = 1 THEN 0 ELSE seq + 1

\* artifact_seq += 1
NextArtifactSeq == seq + 1

\* execute_step and create_artifact under a fresh id.
ExecuteAndPersist ==
  /\ phase = "execute"
  /\ ArtifactId \notin artifacts
  /\ ExecuteStep
  /\ artifacts' = artifacts \cup {ArtifactId}
  /\ seq' = NextArtifactSeq
  /\ phase' = "review"
  /\ UNCHANGED <<taskVars, iter, todo, ops, emitted, status, runs, started>>

\* The workspace already holds an artifact of that id: the step has been
\* executed, but the run ends with the workspace's error.
ArtifactCollides ==
  /\ phase = "execute"
  /\ ArtifactId \in artifacts
  /\ ExecuteStep
  /\ Abort
  /\ UNCHANGED <<env, given, iter, todo, ops, seq, emitted, runs, worldVars>>

\* review_step answered with a verdict.
ReviewStep ==
  /\ phase = "review"
  /\ phase' \in Verdicts
  /\ UNCHANGED <<taskVars, iter, todo, ops, seq, used, emitted, status, runs, worldVars>>

\* Accept and Retry are treated alike.
AcceptStep ==
  /\ phase \in {"accept", "retry"}
  /\ RecordCompleted
  /\ NextAction
  /\ UNCHANGED <<env, given, iter, ops, seq, used, emitted, status, runs, worldVars>>

\* revise_plan only changes the revision number; the step keeps its status.
ReviseStep ==
  /\ phase = "revise"
  /\ Report("revising")
  /\ UNCHANGED <<taskVars, iter, todo, ops, seq, used, emitted, runs, worldVars>>

\* A Delegate verdict hands the step off without a word to the runtime.
DelegateReviewedStep == phase = "redelegate" /\ StartSubtask("review")

-----------------------------------------------------------------------------
\* A provider answered with an error or with something its validation refuses:
\* context and planner (plan), planner and final review (judge), context,
\* engine and delegator (act), delegator (handoff, redelegate), executor and
\* workspace (execute), reflector (review), planner (revise).
ProviderFails ==
  /\ \/ phase = "plan" /\ IterationsLeft
     \/ phase \in {"judge", "act", "handoff", "execute", "review", "revise", "redelegate"}
  /\ Abort
  /\ UNCHANGED <<env, given, iter, todo, ops, seq, used, emitted, runs, worldVars>>

\* Mutant: the subtasks of the previous run are still on the list.
EmittedAtEntryKept == emitted

\* let mut emitted_subtasks = Vec::new()
EmittedAtEntry == <<>>

\* The caller runs an unfinished task again: with the plan the last run
\* returned or, after an error, the one it had handed in.
RunAgain ==
  /\ phase = "done"
  /\ status \notin {"completed", "failed"}
  /\ runs < MaxRuns
  /\ runs' = runs + 1
  /\ given' = plan
  /\ phase' = "enter"
  /\ status' = "working"
  /\ iter' = 0
  /\ todo' = <<>>
  /\ ops' = <<>>
  /\ seq' = 0
  /\ used' = 0
  /\ emitted' = EmittedAtEntry
  /\ UNCHANGED <<env, plan, worldVars>>

\* The last run has returned.
Terminating ==
  /\ phase = "done"
  /\ status \in {"completed", "failed"} \/ runs = MaxRuns
  /\ UNCHANGED vars

RunStep ==
  \/ Enter \/ SelectActions \/ PlannerIsDone \/ JudgePlan
  \/ CompleteTask \/ FailTask \/ BudgetExhausted
  \/ ChooseDelegate \/ DelegateTask \/ StartPlannedSubtask \/ HandoffAnswerLost
  \/ TickBegin \/ TickOperation \/ TickEnd \/ ExecuteAndPersist \/ ArtifactCollides
  \/ ReviewStep \/ AcceptStep \/ ReviseStep \/ DelegateReviewedStep
  \/ KernelRefuses \/ ProviderFails

Next == RunStep \/ RunAgain \/ Terminating

Spec == Init /\ [][Next]_vars

\* run is a plain sequential function: as long as its providers return, it
\* takes the next step.
FairSpec == Spec /\ WF_vars(RunStep)

-----------------------------------------------------------------------------
TypeOK ==
  /\ env \in States
  /\ plan \in [Steps -> StepStatuses]
  /\ given \in [Steps -> StepStatuses]
  /\ phase \in Phases
  /\ iter \in 0..MaxIterations
  /\ todo \in Seq(Steps)
  /\ (phase \notin {"enter", "plan", "judge", "complete", "fail", "done"}) => todo # <<>>
  /\ ops \in Seq(Operations)
  /\ seq \in Nat
  /\ used \in Nat
  /\ emitted \in Seq(Handoffs)
  /\ status \in Statuses
  /\ (status = "working") = (phase # "done")
  /\ runs \in 1..MaxRuns
  /\ started \in Seq(Handoffs)
  /\ artifacts \subseteq ArtifactIds

StartedThisRun == {started[i] : i \in {j \in DOMAIN started : started[j].run = runs}}

\* A run that returns a DeepLoopRun names in it exactly the subtasks the
\* delegator was given during that run, planned handoffs and those a review
\* asked for alike (emitted_subtasks is pushed on both paths).
SubtasksReported ==
  (status \notin {"working", "error"}) =>
    {emitted[i] : i \in DOMAIN emitted} = StartedThisRun

\* A task reported Completed has a plan whose every step is done or skipped:
\* no failed step, however the planner, the reviews and the engine combine
\* (evaluate_completion comes before runtime.complete).
CompletedPlanIsSatisfied ==
  (status = "completed") => \A step \in Steps : plan[step] \in SatisfyingStatuses

\* The tool calls charged to a run stay within its budget although executors
\* may report more than they were granted (ToolBudget::charge).
BudgetRespected == used <= ToolTotal

\* A step the planner revisits gets a fresh artifact id, in the same answer or
\* in a later iteration: in the first run on a workspace no id collides
\* (artifact_seq counts per run).
RevisitsDoNotCollide ==
  (phase = "execute" /\ runs = 1) => ArtifactId \notin artifacts

\* A subtask of a Delegate step is started only on a task the runtime has
\* moved to Delegated, past its hooks and its transition table
\* (runtime.delegate comes before start_subtask).
PlannedHandoffsDelegateTheTask ==
  \A i \in DOMAIN started : started[i].via = "plan" => started[i].env = "delegated"

\* A step the run recorded as completed has been worked on: an artifact of it
\* is in the workspace or a subtask for it has been started.
RecordedWorkHappened ==
  \A step \in Steps :
    plan[step] = "completed" /\ given[step] # "completed" =>
      \/ \E n \in 0..seq : <<step, n>> \in artifacts
      \/ \E i \in DOMAIN started : started[i].step = step

\* Once a run has recorded a result, no step whose dependencies are all
\* satisfied is left Pending (record_step_result promotes against the updated
\* statuses).
NothingLeftPending ==
  (plan # given) =>
    \A step \in Steps : plan[step] = "pending" => ~DependenciesSatisfied(plan, Deps, step)

\* What a run completed stays completed, in that run and in the next one on
\* the same task; only an error, which hands the caller its own plan back,
\* opens a step again (record_step_result touches no other settled step).
OnlyErrorsReopenSteps ==
  [][\A step \in Steps :
       plan[step] = "completed" /\ plan'[step] # "completed" => status' = "error"]_vars

\* A run ends: with a planner that never settles, revisited steps and idle
\* iterations, max_iterations cuts it off.
RunReturns == (phase = "enter") ~> (phase = "done")

\* The loop implements the contract of a deep run: its verdict agrees with
\* the task and with what was handed off.
Run == INSTANCE DeepRun WITH task <- env, handedOff <- StartedThisRun, verdict <- status
ImplementsDeepRun == Run!Spec

-----------------------------------------------------------------------------
(* What the documentation says of the loop.                                *)

\* design-principles.md: the new families do not bypass runtime authority, so
\* every subtask is started on a task the runtime has delegated.
HandoffsThroughRuntime == \A i \in DOMAIN started : started[i].env = "delegated"
=============================================================================
