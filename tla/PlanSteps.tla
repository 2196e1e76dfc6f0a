----------------------------- MODULE PlanSteps -----------------------------
(***************************************************************************)
(* The deterministic half of planning: how a step result changes a plan    *)
(* and when a plan is complete (greentic-dw-planning-llm, lib.rs), and the *)
(* contract's table of step transitions (greentic-dw-planning,             *)
(* validate.rs).  A plan is a function from steps to statuses beside the   *)
(* function deps from steps to the steps they depend on.                   *)
(***************************************************************************)

StepStatuses == {"pending", "ready", "running", "blocked",
                 "completed", "failed", "skipped"}

\* is_terminal: no further transition is expected.
SettledStatuses == {"completed", "skipped", "failed"}

\* satisfies_dependency
SatisfyingStatuses == {"completed", "skipped"}

DependenciesSatisfied(plan, deps, step) ==
  \A dependency \in deps[step] :
    /\ dependency \in DOMAIN plan
    /\ plan[dependency] \in SatisfyingStatuses

\* Mutant: any step whose dependencies are satisfied becomes Ready.
PromoteAny(plan, deps) ==
  [step \in DOMAIN plan |->
    IF DependenciesSatisfied(plan, deps, step) THEN "ready" ELSE plan[step]]

\* Pending steps whose every dependency is satisfied become Ready.
Promote(plan, deps) ==
  [step \in DOMAIN plan |->
    IF plan[step] = "pending" /\ DependenciesSatisfied(plan, deps, step)
      THEN "ready"
      ELSE plan[step]]

\* Mutant: dependencies are looked up in the plan as it was before the result.
RecordStepResultStale(plan, deps, step, status) ==
  [Promote(plan, deps) EXCEPT ![step] = status]

\* record_step_result: the status is set whatever it was, then Pending steps
\* are promoted against the updated statuses.
RecordStepResult(plan, deps, step, status) ==
  Promote([plan EXCEPT ![step] = status], deps)

\* evaluate_completion: one failed step settles the matter; an empty plan is
\* satisfied.
EvaluateCompletion(plan) ==
  CASE \E step \in DOMAIN plan : plan[step] = "failed" -> "unsatisfied"
    [] \A step \in DOMAIN plan : plan[step] \in SatisfyingStatuses -> "satisfied"
    [] OTHER -> "incomplete"

\* validate_plan, the part about dependencies: they are steps of the plan and
\* no step depends on itself.  Longer cycles are accepted.
ValidDependencies(steps, deps) ==
  \A step \in steps : deps[step] \subseteq steps \ {step}

\* validate_step_transition, as the set of allowed pairs.
StepTransitions ==
  { <<"pending", "ready">>, <<"ready", "running">>, <<"running", "completed">>,
    <<"running", "failed">>, <<"running", "blocked">>, <<"blocked", "ready">>,
    <<"pending", "skipped">>, <<"ready", "skipped">>, <<"running", "running">>,
    <<"completed", "completed">>, <<"failed", "failed">>, <<"skipped", "skipped">> }
=============================================================================
