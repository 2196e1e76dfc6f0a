---------------------------- MODULE InvokeProofs ----------------------------
(***************************************************************************)
(* Proofs about one dispatch of the deep worker, for any settings, any     *)
(* plan of the model and any number of its steps.  What the loop keeps is  *)
(* not proved again: the theorems of DeepLoop hold of the loop the way     *)
(* invoke wires it, once its wiring meets the assumptions of DeepLoop.     *)
(***************************************************************************)
EXTENDS DeepWorkerInvoke, TLAPS

\* The proofs about the loop, for the wiring of invoke.
Wired == INSTANCE DeepLoopProofs WITH
  DelegateSteps <- DelegatesKept,
  Verdicts <- WiredVerdicts,
  MaxIterations <- Resolved.max_iterations,
  InitialPlans <- [Steps -> PlanStatuses],
  EntryStates <- {"created"},
  Decisions <- {<<"step">>},
  Vetoed <- {},
  StoreMayFail <- FALSE,
  HasExecutor <- HasTools,
  MaxRuns <- 1

-----------------------------------------------------------------------------
(* The wiring.                                                             *)

\* An optional value is resolved to one of its kind.
LEMMA OptionResolved ==
  ASSUME NEW S, NEW option, IsOption(option, S), NEW default \in S
  PROVE  UnwrapOr(option, default) \in S
BY DEF IsOption, UnwrapOr

\* Whatever the designer sent, the settings of the run are complete
\* (ResolvedSettings::resolve).
LEMMA SettingsResolved ==
  /\ Resolved.max_iterations \in Nat
  /\ Resolved.reflection \in BOOLEAN
  /\ Resolved.delegation \in BOOLEAN
<1>1. CASE Settings = {}
  BY <1>1 DEF Resolved, Resolve, DEFAULT_MAX_ITERATIONS
<1>2. CASE Settings # {}
  <2> DEFINE sent == CHOOSE record \in Settings : TRUE
  <2>1. /\ IsOption(sent.iteration_budget, Nat)
        /\ IsOption(sent.reflection, BOOLEAN)
        /\ IsOption(sent.delegation, BOOLEAN)
    BY <1>2, InvokeAssumption
  <2>2. Resolved = [max_iterations |->
                      Clamp(UnwrapOr(sent.iteration_budget, DESIGNER_DEFAULT_ITERATION_BUDGET)),
                    reflection |-> UnwrapOr(sent.reflection, FALSE),
                    delegation |-> UnwrapOr(sent.delegation, FALSE)]
    BY <1>2 DEF Resolved, Resolve
  <2> HIDE DEF sent
  <2>3. UnwrapOr(sent.iteration_budget, DESIGNER_DEFAULT_ITERATION_BUDGET) \in Nat
    BY <2>1, OptionResolved DEF DESIGNER_DEFAULT_ITERATION_BUDGET
  <2>4. UnwrapOr(sent.reflection, FALSE) \in BOOLEAN /\ UnwrapOr(sent.delegation, FALSE) \in BOOLEAN
    BY <2>1, OptionResolved
  <2>5. QED
    BY <2>2, <2>3, <2>4 DEF Clamp
<1>3. QED
  BY <1>1, <1>2

\* The reflector answers verdicts the loop knows, and no Delegate verdict when
\* delegation is off (AcceptAllReflection, NoDelegateVerdict).
LEMMA VerdictsWired ==
  /\ WiredVerdicts \subseteq {"accept", "retry", "revise", "redelegate", "fail"}
  /\ ~Resolved.delegation => "redelegate" \notin WiredVerdicts
<1>1. CASE ~Resolved.reflection
  <2>1. WiredVerdicts = {"accept"}
    BY <1>1 DEF WiredVerdicts
  <2>2. QED
    BY <2>1
<1>2. CASE Resolved.reflection /\ Resolved.delegation
  <2>1. WiredVerdicts = AllVerdicts
    BY <1>2 DEF WiredVerdicts
  <2>2. QED
    BY <1>2, <2>1 DEF AllVerdicts
<1>3. CASE Resolved.reflection /\ ~Resolved.delegation
  <2>1. WiredVerdicts = AllVerdicts \ {"redelegate"}
    BY <1>3 DEF WiredVerdicts
  <2>2. QED
    BY <2>1 DEF AllVerdicts
<1>4. QED
  BY <1>1, <1>2, <1>3, SettingsResolved

\* The proofs are about the loop of invoke: its steps are the same.
LEMMA LoopIsWired == (Loop!Init = Wired!Init) /\ (Loop!RunStep = Wired!RunStep)
<1> USE DEF Loop!Abort, Wired!Abort, Loop!AfterTick, Wired!AfterTick, Loop!Allowed,
        Wired!Allowed, Loop!Applied, Wired!Applied, Loop!Applies, Wired!Applies,
        Loop!ArtifactId, Wired!ArtifactId, Loop!CanTransition, Wired!CanTransition,
        Loop!Charge, Wired!Charge, Loop!DelegatePhase, Wired!DelegatePhase,
        Loop!DependenciesSatisfied, Wired!DependenciesSatisfied, Loop!Emit, Wired!Emit,
        Loop!EvaluateCompletion, Wired!EvaluateCompletion, Loop!ExecuteStep,
        Wired!ExecuteStep, Loop!Grant, Wired!Grant, Loop!Handoff, Wired!Handoff,
        Loop!IdleIteration, Wired!IdleIteration, Loop!IterationsLeft, Wired!IterationsLeft,
        Loop!LegalTransitions, Wired!LegalTransitions, Loop!NextAction, Wired!NextAction,
        Loop!NextArtifactSeq, Wired!NextArtifactSeq, Loop!NothingHandedOff,
        Wired!NothingHandedOff, Loop!PER_STEP_TOOL_CAP, Wired!PER_STEP_TOOL_CAP,
        Loop!PendingOperations, Wired!PendingOperations, Loop!Promote, Wired!Promote,
        Loop!RecordCompleted, Wired!RecordCompleted, Loop!RecordStepResult,
        Wired!RecordStepResult, Loop!Remaining, Wired!Remaining, Loop!Report, Wired!Report,
        Loop!SatisfyingStatuses, Wired!SatisfyingStatuses, Loop!Smaller, Wired!Smaller,
        Loop!StartSubtask, Wired!StartSubtask, Loop!Step, Wired!Step,
        Loop!TOOL_CALLS_PER_ITERATION, Wired!TOOL_CALLS_PER_ITERATION, Loop!TargetState,
        Wired!TargetState, Loop!ToolTotal, Wired!ToolTotal, Loop!taskVars, Wired!taskVars,
        Loop!worldVars, Wired!worldVars
<1>1. Loop!Init = Wired!Init
  BY DEF Loop!Init, Wired!Init
<1>2. Loop!Enter = Wired!Enter
  BY DEF Loop!Enter, Wired!Enter
<1>3. Loop!SelectActions = Wired!SelectActions
  BY DEF Loop!SelectActions, Wired!SelectActions
<1>4. Loop!PlannerIsDone = Wired!PlannerIsDone
  BY DEF Loop!PlannerIsDone, Wired!PlannerIsDone
<1>5. Loop!JudgePlan = Wired!JudgePlan
  BY DEF Loop!JudgePlan, Wired!JudgePlan
<1>6. Loop!CompleteTask = Wired!CompleteTask
  BY DEF Loop!CompleteTask, Wired!CompleteTask
<1>7. Loop!FailTask = Wired!FailTask
  BY DEF Loop!FailTask, Wired!FailTask
<1>8. Loop!BudgetExhausted = Wired!BudgetExhausted
  BY DEF Loop!BudgetExhausted, Wired!BudgetExhausted
<1>9. Loop!ChooseDelegate = Wired!ChooseDelegate
  BY DEF Loop!ChooseDelegate, Wired!ChooseDelegate
<1>10. Loop!DelegateTask = Wired!DelegateTask
  BY DEF Loop!DelegateTask, Wired!DelegateTask
<1>11. Loop!StartPlannedSubtask = Wired!StartPlannedSubtask
  BY DEF Loop!StartPlannedSubtask, Wired!StartPlannedSubtask
<1>12. Loop!HandoffAnswerLost = Wired!HandoffAnswerLost
  BY DEF Loop!HandoffAnswerLost, Wired!HandoffAnswerLost
<1>13. Loop!TickBegin = Wired!TickBegin
  BY DEF Loop!TickBegin, Wired!TickBegin
<1>14. Loop!TickOperation = Wired!TickOperation
  BY DEF Loop!TickOperation, Wired!TickOperation
<1>15. Loop!TickEnd = Wired!TickEnd
  BY DEF Loop!TickEnd, Wired!TickEnd
<1>16. Loop!ExecuteAndPersist = Wired!ExecuteAndPersist
  BY DEF Loop!ExecuteAndPersist, Wired!ExecuteAndPersist
<1>17. Loop!ArtifactCollides = Wired!ArtifactCollides
  BY DEF Loop!ArtifactCollides, Wired!ArtifactCollides
<1>18. Loop!ReviewStep = Wired!ReviewStep
  BY DEF Loop!ReviewStep, Wired!ReviewStep
<1>19. Loop!AcceptStep = Wired!AcceptStep
  BY DEF Loop!AcceptStep, Wired!AcceptStep
<1>20. Loop!ReviseStep = Wired!ReviseStep
  BY DEF Loop!ReviseStep, Wired!ReviseStep
<1>21. Loop!DelegateReviewedStep = Wired!DelegateReviewedStep
  BY DEF Loop!DelegateReviewedStep, Wired!DelegateReviewedStep
<1>22. Loop!KernelRefuses = Wired!KernelRefuses
  BY DEF Loop!KernelRefuses, Wired!KernelRefuses
<1>23. Loop!ProviderFails = Wired!ProviderFails
  BY DEF Loop!ProviderFails, Wired!ProviderFails
<1>24. QED
  BY <1>1, <1>2, <1>3, <1>4, <1>5, <1>6, <1>7, <1>8, <1>9, <1>10, <1>11, <1>12, <1>13,
     <1>14, <1>15, <1>16, <1>17, <1>18, <1>19, <1>20, <1>21, <1>22, <1>23 DEF Loop!RunStep, Wired!RunStep

-----------------------------------------------------------------------------
(* The inductive invariant.                                                *)

\* The engine of a dispatch always decides Step.
EngineSteps == ops \in {<<>>, <<"step">>}

\* The task is completed exactly when its run says so, and then nothing has
\* been handed off.
CompletedTogether ==
  /\ (env = "completed") = (status = "completed")
  /\ status = "completed" => emitted = <<>>

\* In the one run of a dispatch the run's list has every subtask that was
\* started, unless an error dropped it.
ListIsWhole == status # "error" => emitted = started

\* What the loop adds for the wiring of invoke.
WiringInv == EngineSteps /\ CompletedTogether /\ ListIsWhole /\ NothingIsDelegated

\* Where invoke is agrees with where its loop is.
StagesFollow ==
  /\ stage \in Stages
  /\ outcome \in Outcomes
  /\ (outcome = "none") = (stage # "returned")
  /\ stage \in {"checking", "planning"} => phase = "enter" /\ started = <<>>
  /\ stage = "replying" => phase = "done" /\ status # "error"
  /\ stage = "returned" => (outcome = "ok") = (status = "completed")

InvokeInv == Wired!LoopInv /\ WiringInv /\ StagesFollow

\* The wiring meets what DeepLoop assumes of its constants.
LEMMA WiringMeetsAssumption ==
  /\ DelegatesKept \subseteq Steps
  /\ WiredVerdicts \subseteq Wired!ReviewVerdicts
  /\ [Steps -> PlanStatuses] \subseteq [Steps -> Wired!StepStatuses]
  /\ Deps \in [Steps -> SUBSET Steps]
  /\ Wired!ValidDependencies(Steps, Deps)
  /\ {<<"step">>} \subseteq Seq(Wired!Operations)
  /\ {"created"} \subseteq Wired!States
  /\ {} \subseteq Wired!Operations \X Wired!States
  /\ FALSE \in BOOLEAN
  /\ HasTools \in BOOLEAN
  /\ ToolReports \subseteq Nat
  /\ Resolved.max_iterations \in Nat
  /\ MaxActions \in Nat
  /\ 1 \in Nat \ {0}
<1>1. /\ DelegatesKept \subseteq Steps
      /\ WiredVerdicts \subseteq Wired!ReviewVerdicts
      /\ [Steps -> PlanStatuses] \subseteq [Steps -> Wired!StepStatuses]
  BY InvokeAssumption, VerdictsWired
     DEF DelegatesKept, Wired!ReviewVerdicts, Wired!StepStatuses, StepStatuses
<1>2. /\ {<<"step">>} \subseteq Seq(Wired!Operations)
      /\ {"created"} \subseteq Wired!States
  BY DEF Wired!Operations, Wired!States
<1>3. Wired!ValidDependencies(Steps, Deps)
  BY InvokeAssumption DEF Wired!ValidDependencies, ValidDependencies
<1>4. QED
  BY <1>1, <1>2, <1>3, SettingsResolved, InvokeAssumption

\* So the invariant of the loop holds of the loop of a dispatch.
LEMMA LoopFacts ==
  /\ Loop!Init => Wired!LoopInv
  /\ Wired!LoopInv /\ [Wired!Next]_Wired!vars => Wired!LoopInv'
BY WiringMeetsAssumption, LoopIsWired, Wired!LoopInvInit, Wired!LoopInvStep

\* The invariant holds before the first step.
LEMMA InvokeInvInit == Init => InvokeInv
<1> SUFFICES ASSUME Init PROVE InvokeInv
  OBVIOUS
<1>1. Wired!LoopInv
  BY LoopFacts DEF Init
<1>2. WiringInv
  BY DEF Init, Loop!Init, WiringInv, EngineSteps, CompletedTogether, ListIsWhole,
     NothingIsDelegated
<1>3. StagesFollow
  BY DEF Init, Loop!Init, StagesFollow, Stages, Outcomes
<1>4. QED
  BY <1>1, <1>2, <1>3 DEF InvokeInv

\* The engine's operation leaves the task where it is.
LEMMA StepStays ==
  ASSUME NEW op, op = "step", Wired!Applied(op) PROVE env' = env
BY DEF Wired!Applied, Wired!TargetState

\* A step of the loop keeps what the wiring adds.
LEMMA WiringStep ==
  ASSUME Wired!LoopInv, WiringInv, Wired!RunStep PROVE WiringInv'
<1> USE DEF WiringInv, EngineSteps, CompletedTogether, ListIsWhole, NothingIsDelegated,
            Wired!taskVars, Wired!worldVars
<1>1. /\ status = "working" <=> phase # "done"
      /\ phase \in {"judge", "complete"} => emitted = <<>>
  BY DEF Wired!LoopInv, Wired!TypeOK, Wired!JudgedWithoutSubtasks
<1>2. CASE Wired!Enter
  BY <1>1, <1>2 DEF Wired!Enter, Wired!Applied, Wired!TargetState
<1>3. CASE Wired!SelectActions \/ Wired!JudgePlan \/ Wired!TickEnd
  BY <1>1, <1>3 DEF Wired!SelectActions, Wired!JudgePlan, Wired!TickEnd, Wired!AfterTick
<1>4. CASE Wired!PlannerIsDone \/ Wired!BudgetExhausted \/ Wired!ReviseStep
  BY <1>1, <1>4 DEF Wired!PlannerIsDone, Wired!BudgetExhausted, Wired!ReviseStep, Wired!Report
<1>5. CASE Wired!CompleteTask \/ Wired!FailTask
  BY <1>1, <1>5 DEF Wired!CompleteTask, Wired!FailTask, Wired!Applied, Wired!TargetState,
     Wired!Report
<1>6. CASE Wired!ChooseDelegate \/ Wired!DelegateTask
  BY <1>1, <1>6 DEF Wired!ChooseDelegate, Wired!DelegateTask, DelegatesKept, Wired!Applied,
     Wired!TargetState, Wired!DelegatePhase
<1>7. CASE Wired!StartPlannedSubtask \/ Wired!DelegateReviewedStep
  BY <1>1, <1>7 DEF Wired!StartPlannedSubtask, Wired!DelegateReviewedStep, Wired!StartSubtask,
     Wired!Emit, Wired!NextAction
<1>8. CASE Wired!HandoffAnswerLost
  BY <1>1, <1>8 DEF Wired!HandoffAnswerLost, Wired!Abort
<1>9. CASE Wired!TickBegin
  BY <1>1, <1>9 DEF Wired!TickBegin
<1>10. CASE Wired!TickOperation
  <2>1. Head(ops) = "step" /\ ops' = <<>> /\ Wired!Applied(Head(ops))
    BY <1>10 DEF Wired!TickOperation
  <2>2. UNCHANGED env
    BY <2>1, StepStays
  <2>3. UNCHANGED <<phase, started, emitted, status>>
    BY <1>10 DEF Wired!TickOperation
  <2>4. QED
    BY <2>1, <2>2, <2>3
<1>11. CASE Wired!ExecuteAndPersist
  BY <1>1, <1>11 DEF Wired!ExecuteAndPersist
<1>12. CASE Wired!ArtifactCollides \/ Wired!ProviderFails
  BY <1>1, <1>12 DEF Wired!ArtifactCollides, Wired!ProviderFails, Wired!Abort
<1>13. CASE Wired!ReviewStep
  BY <1>1, <1>13, VerdictsWired DEF Wired!ReviewStep
<1>14. CASE Wired!AcceptStep
  BY <1>1, <1>14 DEF Wired!AcceptStep, Wired!NextAction
<1>15. CASE Wired!KernelRefuses
  <2>1. phase # "done" /\ UNCHANGED env
    BY <1>15 DEF Wired!KernelRefuses, Wired!PendingOperations
  <2>2. QED
    BY <1>1, <1>15, <2>1 DEF Wired!KernelRefuses, Wired!Abort
<1>16. QED
  BY <1>2, <1>3, <1>4, <1>5, <1>6, <1>7, <1>8, <1>9, <1>10, <1>11, <1>12, <1>13, <1>14, <1>15
     DEF Wired!RunStep

\* Every step of a dispatch keeps the invariant.
LEMMA InvokeInvStep == InvokeInv /\ [Next]_vars => InvokeInv'
<1> SUFFICES ASSUME InvokeInv, [Next]_vars PROVE InvokeInv'
  OBVIOUS
<1>1. CASE LoopStep
  <2>1. Wired!RunStep /\ stage = "looping" /\ UNCHANGED <<stage, outcome>>
    BY <1>1, LoopIsWired DEF LoopStep
  <2>2. Wired!LoopInv'
    BY <2>1, LoopFacts DEF InvokeInv, Wired!Next
  <2>3. WiringInv'
    BY <2>1, WiringStep DEF InvokeInv
  <2>4. StagesFollow'
    BY <2>1 DEF InvokeInv, StagesFollow
  <2>5. QED
    BY <2>2, <2>3, <2>4 DEF InvokeInv
<1>2. CASE UNCHANGED loopVars
  <2>1. Wired!LoopInv'
    BY <1>2, LoopFacts
       DEF InvokeInv, loopVars, Wired!vars, Wired!taskVars, Wired!runVars, Wired!worldVars
  <2>2. WiringInv'
    BY <1>2 DEF InvokeInv, loopVars, WiringInv, EngineSteps, CompletedTogether, ListIsWhole,
       NothingIsDelegated
  <2>3. (phase # "done") = (status = "working")
    BY DEF InvokeInv, Wired!LoopInv, Wired!TypeOK
  <2>4. StagesFollow'
    BY <1>2, <2>3 DEF InvokeInv, StagesFollow, Stages, Outcomes, loopVars, Next, vars, Return,
       LoopStep, AcceptDispatch, RefuseDispatch, PlanMade, LoopReturned, LoopFailed, Reply,
       Succeeds, Returned
  <2>5. QED
    BY <2>1, <2>2, <2>4 DEF InvokeInv
<1>3. QED
  BY <1>1, <1>2 DEF Next, vars, AcceptDispatch, RefuseDispatch, PlanMade, LoopReturned,
     LoopFailed, Reply, Returned

\* Hence it holds in every state.
LEMMA InvokeInvariant == Spec => []InvokeInv
BY InvokeInvInit, InvokeInvStep, PTL DEF Spec

-----------------------------------------------------------------------------
\* A dispatch runs the deep loop and nothing else: whatever DeepLoop promises
\* of its task, plan, budget and subtasks holds of every dispatch
\* (DeepWorkerInvoker::invoke builds the coordinator it runs).
THEOREM DispatchRunsTheLoop == Spec => Loop!Spec
<1>1. Init => Loop!Init
  BY DEF Init
<1>2. [Next]_vars => [Loop!Next]_Loop!vars
  BY DEF Next, vars, loopVars, AcceptDispatch, RefuseDispatch, PlanMade, LoopStep,
     LoopReturned, LoopFailed, Reply, Returned, Loop!Next, Loop!vars, Loop!taskVars,
     Loop!runVars, Loop!worldVars
<1>3. QED
  BY <1>1, <1>2, PTL DEF Spec, Loop!Spec

\* With delegation off nothing is handed to anybody, for any plan and any
\* answers of the model (strip_delegate_steps, NoDelegateVerdict).
THEOREM DelegationStaysOff == Spec => []NothingIsDelegated
<1>1. InvokeInv => NothingIsDelegated
  BY DEF InvokeInv, WiringInv
<1>2. QED
  BY <1>1, InvokeInvariant, PTL

\* The outcome is ok exactly when the task was completed, with its plan done
\* and no subtask out (outcome_from_run).
THEOREM OutcomesAreTrue == Spec => []OutcomeTellsTheTask
<1>1. InvokeInv => OutcomeTellsTheTask
  <2> SUFFICES ASSUME InvokeInv, stage = "returned"
               PROVE  /\ (outcome = "ok") = (env = "completed")
                      /\ (outcome = "ok") =>
                           /\ \A step \in Steps : plan[step] \in SatisfyingStatuses
                           /\ started = <<>>
    BY DEF OutcomeTellsTheTask
  <2>1. (outcome = "ok") = (status = "completed")
    BY DEF InvokeInv, StagesFollow
  <2>2. (env = "completed") = (status = "completed")
    BY DEF InvokeInv, WiringInv, CompletedTogether
  <2>3. ASSUME status = "completed"
        PROVE  (\A step \in Steps : plan[step] \in SatisfyingStatuses) /\ started = <<>>
    BY <2>3 DEF InvokeInv, WiringInv, CompletedTogether, ListIsWhole, Wired!LoopInv,
       Wired!CompletedPlanIsSatisfied, Wired!SatisfyingStatuses, SatisfyingStatuses
  <2>4. QED
    BY <2>1, <2>2, <2>3
<1>2. QED
  BY <1>1, InvokeInvariant, PTL

\* A dispatch keeps the contract of a deep run: its task and its verdict agree,
\* and what it handed off is told (DeepRun, through the loop's refinement).
THEOREM DispatchIsADeepRun == Spec => Wired!ImplementsDeepRun
<1>1. Init => Wired!Init
  BY LoopIsWired DEF Init
<1>2. [Next]_vars => [Wired!Next]_Wired!vars
  BY LoopIsWired DEF Next, vars, loopVars, AcceptDispatch, RefuseDispatch, PlanMade, LoopStep,
     LoopReturned, LoopFailed, Reply, Returned, Wired!Next, Wired!vars, Wired!taskVars,
     Wired!runVars, Wired!worldVars
<1>3. Spec => Wired!Spec
  BY <1>1, <1>2, PTL DEF Spec, Wired!Spec
<1>4. Wired!Spec => Wired!ImplementsDeepRun
  BY WiringMeetsAssumption, Wired!RunRefinement
<1>5. QED
  BY <1>3, <1>4, PTL

\* Every variable keeps its type, and the stages of a dispatch follow its loop
\* (TypeOK of DeepWorkerInvoke).
THEOREM DispatchTypeCorrect == Spec => []TypeOK
<1>1. InvokeInv => TypeOK
  <2>1. Wired!TypeOK => Loop!TypeOK
    BY DEF Wired!TypeOK, Loop!TypeOK, Wired!States, Loop!States, Wired!StepStatuses,
       Loop!StepStatuses, Wired!Phases, Loop!Phases, Wired!Operations, Loop!Operations,
       Wired!Handoffs, Loop!Handoffs, Wired!Statuses, Loop!Statuses, Wired!ArtifactIds,
       Loop!ArtifactIds
  <2>2. QED
    BY <2>1 DEF InvokeInv, Wired!LoopInv, StagesFollow, TypeOK
<1>2. QED
  BY <1>1, InvokeInvariant, PTL
=============================================================================
