-------------------------- MODULE DeepWorkerInvoke --------------------------
(***************************************************************************)
(* One dispatch of the deep worker (greentic-dw-operala-invoker, lib.rs,   *)
(* settings.rs, guards.rs): the designer's settings are resolved, the      *)
(* model plans, the settings decide which planner output, reflector and    *)
(* delegator the deep loop gets, the loop runs on a blocking thread, and   *)
(* its run is turned into an outcome.  The loop itself is DeepLoop, wired  *)
(* the way the invoker wires it: a Step engine, no hooks, no state store,  *)
(* a fresh task and a fresh workspace.                                     *)
(***************************************************************************)
EXTENDS PlanSteps, Naturals, Sequences

CONSTANTS
  Settings,                 \* input.deep_worker, as an optional record
  Steps,                    \* step ids of the plan the model makes
  PlannedDelegates,         \* steps the model makes of kind Delegate
  Deps,                     \* depends_on: step -> set of steps
  PlanStatuses,             \* statuses the model may give its steps
  HasTools,                 \* are tools wired and supported by the model?
  ToolReports,              \* tool_calls_used the executor may report
  MaxActions                \* bound: actions in one answer of the planner

\* An optional value is a set of at most one.
IsOption(option, values) == option \subseteq values /\ \A v, w \in option : v = w
UnwrapOr(option, default) ==
  IF option = {} THEN default ELSE CHOOSE value \in option : TRUE

\* DeepWorkerSettings
ASSUME InvokeAssumption ==
  /\ \A sent \in Settings :
       /\ DOMAIN sent = {"iteration_budget", "reflection", "delegation"}
       /\ IsOption(sent.iteration_budget, Nat)
       /\ IsOption(sent.reflection, BOOLEAN)
       /\ IsOption(sent.delegation, BOOLEAN)
  /\ \A v, w \in Settings : v = w
  /\ PlannedDelegates \subseteq Steps
  /\ Deps \in [Steps -> SUBSET Steps]
  /\ ValidDependencies(Steps, Deps)
  /\ PlanStatuses \subseteq StepStatuses
  /\ HasTools \in BOOLEAN
  /\ ToolReports \subseteq Nat
  /\ MaxActions \in Nat

DEFAULT_MAX_ITERATIONS == 64
DESIGNER_DEFAULT_ITERATION_BUDGET == 8

\* .max(1)
Clamp(budget) == IF budget < 1 THEN 1 ELSE budget

\* ResolvedSettings::resolve: without settings everything is on; with them a
\* missing field takes the designer's default.
Resolve(settings) ==
  IF settings = {}
    THEN [max_iterations |-> DEFAULT_MAX_ITERATIONS, reflection |-> TRUE, delegation |-> TRUE]
    ELSE LET sent == CHOOSE record \in settings : TRUE
         IN  [max_iterations |->
                Clamp(UnwrapOr(sent.iteration_budget, DESIGNER_DEFAULT_ITERATION_BUDGET)),
              reflection |-> UnwrapOr(sent.reflection, FALSE),
              delegation |-> UnwrapOr(sent.delegation, FALSE)]

Resolved == Resolve(Settings)

\* Mutant: the plan goes to the loop the way the model made it.
DelegatesUnstripped == PlannedDelegates

\* strip_delegate_steps: the Delegate steps left in the plan of the loop.
DelegatesKept == IF Resolved.delegation THEN PlannedDelegates ELSE {}

AllVerdicts == {"accept", "retry", "revise", "redelegate", "fail"}

\* Mutant: the model's reviewer is wired without the guard.
WiredVerdictsUnguarded == IF Resolved.reflection THEN AllVerdicts ELSE {"accept"}

\* AcceptAllReflection, the model's reflector, or NoDelegateVerdict around it,
\* which turns a Delegate verdict into Accept.
WiredVerdicts ==
  CASE ~Resolved.reflection -> {"accept"}
    [] Resolved.reflection /\ Resolved.delegation -> AllVerdicts
    [] OTHER -> AllVerdicts \ {"redelegate"}

VARIABLES
  env, plan, given, phase, iter, todo, ops, seq, used, emitted, status, runs,
  started, artifacts,       \* the variables of DeepLoop
  stage,                    \* where invoke is, see Stages
  outcome                   \* what invoke returned

loopVars == <<env, plan, given, phase, iter, todo, ops, seq, used, emitted, status, runs,
              started, artifacts>>
vars == <<loopVars, stage, outcome>>

Loop == INSTANCE DeepLoop WITH
  DelegateSteps <- DelegatesKept,
  Verdicts <- WiredVerdicts,
  MaxIterations <- Resolved.max_iterations,
  InitialPlans <- [Steps -> PlanStatuses],
  EntryStates <- {"created"},
  Decisions <- {<<"step">>},
  Vetoed <- {},
  StoreMayFail <- FALSE,
  HasExecutor <- HasTools,
  MaxRuns <- 1

Stages == {"checking", "planning", "looping", "replying", "returned"}

\* "ok" and "not_ok" are an InvokeOutcome with that flag, "error" is an Err.
Outcomes == {"none", "ok", "not_ok", "error"}

\* The plan stands for the one the model will make.
Init ==
  /\ Loop!Init
  /\ stage = "checking"
  /\ outcome = "none"

Return(result) ==
  /\ stage' = "returned"
  /\ outcome' = result

\* validate_operation and settings_from_input pass.
AcceptDispatch ==
  /\ stage = "checking"
  /\ stage' = "planning"
  /\ UNCHANGED <<loopVars, outcome>>

\* They do not, or create_plan fails or makes a plan that validate_plan refuses.
RefuseDispatch ==
  /\ stage \in {"checking", "planning"}
  /\ Return("error")
  /\ UNCHANGED loopVars

\* create_plan, strip_delegate_steps and the wiring of the coordinator.
PlanMade ==
  /\ stage = "planning"
  /\ stage' = "looping"
  /\ UNCHANGED <<loopVars, outcome>>

\* coordinator.run, one step of it.
LoopStep ==
  /\ stage = "looping"
  /\ Loop!RunStep
  /\ UNCHANGED <<stage, outcome>>

\* coordinator.run returned a run; the outputs are read back for the reply.
LoopReturned ==
  /\ stage = "looping"
  /\ phase = "done"
  /\ status # "error"
  /\ stage' = "replying"
  /\ UNCHANGED <<loopVars, outcome>>

\* coordinator.run returned an error, or a provider panicked and the join of
\* the blocking thread failed.
LoopFailed ==
  /\ stage = "looping"
  /\ \/ status = "error"
     \/ phase # "done"
  /\ Return("error")
  /\ UNCHANGED loopVars

\* Mutant: a run that spent its budget counts as a success.
SucceedsUnlessFailed == status # "failed"

\* matches!(run.status, DeepLoopStatus::Completed)
Succeeds == status = "completed"

\* synthesize_reply, which falls back to a sentence of its own, then
\* outcome_from_run.
Reply ==
  /\ stage = "replying"
  /\ Return(IF Succeeds THEN "ok" ELSE "not_ok")
  /\ UNCHANGED loopVars

Returned == stage = "returned" /\ UNCHANGED vars

Next ==
  \/ AcceptDispatch \/ RefuseDispatch \/ PlanMade
  \/ LoopStep \/ LoopReturned \/ LoopFailed \/ Reply \/ Returned

Spec == Init /\ [][Next]_vars

-----------------------------------------------------------------------------
TypeOK ==
  /\ Loop!TypeOK
  /\ stage \in Stages
  /\ outcome \in Outcomes
  /\ (outcome = "none") = (stage # "returned")
  /\ (stage \in {"checking", "planning"}) => phase = "enter" /\ started = <<>>

\* With delegation off nothing is handed to anybody: not by a Delegate step the
\* model planned against its instructions, not by a reviewer's Delegate verdict,
\* and RefuseDelegation, which would fail the turn, is never asked
\* (strip_delegate_steps, NoDelegateVerdict).
NothingIsDelegated ==
  ~Resolved.delegation =>
    /\ started = <<>>
    /\ env # "delegated"
    /\ phase \notin {"delegate", "handoff", "redelegate"}

\* The outcome is ok exactly when the task itself was completed, and then
\* every step of the plan is done and no subtask is still out
\* (outcome_from_run reads the run's status, not the task).
OutcomeTellsTheTask ==
  (stage = "returned") =>
    /\ (outcome = "ok") = (env = "completed")
    /\ (outcome = "ok") =>
         /\ \A step \in Steps : plan[step] \in SatisfyingStatuses
         /\ started = <<>>
=============================================================================
