--------------------------- MODULE DeepLoopProofs ---------------------------
(***************************************************************************)
(* Proofs about the deep loop for every plan, planner, set of engine       *)
(* decisions, vetoes, budgets and number of runs.                          *)
(***************************************************************************)
EXTENDS DeepLoop, Integers, SequenceTheorems, TLAPS

\* An operation that applies leads to a lifecycle state, and out of a
\* terminal state it leads nowhere (core apply_operation).
LEMMA OperationTargets ==
  ASSUME NEW op \in Operations, NEW s \in States
  PROVE  /\ TargetState(op, s) \in States
         /\ Applies(op, s) /\ s \in Terminal => TargetState(op, s) = s
         /\ Applies(op, s) /\ TargetState(op, s) # s
              => CanTransition(s, TargetState(op, s))
BY DEF TargetState, Applies, CanTransition, LegalTransitions, States, Terminal, Operations

\* Dropping the head of a sequence of several elements leaves some.
LEMMA LongTail ==
  ASSUME NEW S, NEW s \in Seq(S), Len(s) > 1
  PROVE  Tail(s) \in Seq(S) /\ Tail(s) # <<>>
<1>1. s # <<>>
  BY Len(<<>>) = 0
<1> DEFINE n == Len(s)
           m == Len(Tail(s))
<1>2. Tail(s) \in Seq(S) /\ m = n - 1 /\ n \in Nat /\ n > 1
  BY <1>1, HeadTailProperties, LenProperties
<1> HIDE DEF n
<1>3. m # 0
  <2> HIDE DEF m
  <2>1. QED
    BY <1>2
<1>4. QED
  BY <1>2, <1>3, EmptySeq

\* An operation the runtime applied moves the task along the table.
LEMMA AppliedMovesTask ==
  ASSUME NEW op \in Operations, env \in States, Applied(op)
  PROVE  /\ env' \in States
         /\ env' = env \/ CanTransition(env, env')
BY OperationTargets DEF Applied, Allowed

\* What recording a completed step does to a plan (record_step_result): it
\* stays a plan, no other step becomes completed, no completed or skipped step
\* changes and nothing is left Pending behind satisfied dependencies.
LEMMA RecordedPlan ==
  ASSUME NEW p \in [Steps -> StepStatuses], NEW step \in Steps,
         NEW q, q = RecordStepResult(p, Deps, step, "completed")
  PROVE  /\ q \in [Steps -> StepStatuses]
         /\ \A s \in Steps : q[s] = "completed" => s = step \/ p[s] = "completed"
         /\ \A s \in Steps : p[s] = "completed" => q[s] = "completed"
         /\ \A s \in Steps : q[s] = "pending" => ~DependenciesSatisfied(q, Deps, s)
<1> DEFINE r == [p EXCEPT ![step] = "completed"]
<1>1. r \in [Steps -> StepStatuses] /\ DOMAIN r = Steps
  BY DEF StepStatuses
<1>2. q = [s \in Steps |-> IF r[s] = "pending" /\ DependenciesSatisfied(r, Deps, s)
                             THEN "ready" ELSE r[s]]
  BY <1>1 DEF RecordStepResult, Promote
<1>3. \A s \in Steps : r[s] = IF s = step THEN "completed" ELSE p[s]
  OBVIOUS
<1> HIDE DEF r
<1>4. q \in [Steps -> StepStatuses] /\ DOMAIN q = Steps
  BY <1>1, <1>2 DEF StepStatuses
<1>5. \A s \in Steps : q[s] \in SatisfyingStatuses <=> r[s] \in SatisfyingStatuses
  BY <1>2 DEF SatisfyingStatuses
<1>6. \A s \in Steps : DependenciesSatisfied(q, Deps, s) <=> DependenciesSatisfied(r, Deps, s)
  BY <1>1, <1>4, <1>5 DEF DependenciesSatisfied
<1>7. \A s \in Steps : q[s] = "pending" => ~DependenciesSatisfied(q, Deps, s)
  BY <1>2, <1>6
<1>8. \A s \in Steps : q[s] = "completed" => s = step \/ p[s] = "completed"
  BY <1>2, <1>3
<1>9. \A s \in Steps : p[s] = "completed" => q[s] = "completed"
  BY <1>2, <1>3
<1>10. QED
  BY <1>4, <1>7, <1>8, <1>9

\* The budget arithmetic of ToolBudget: a charge never exceeds the total.
LEMMA ChargeBounded ==
  ASSUME used \in Nat, used <= ToolTotal, NEW reported \in Nat
  PROVE  Charge(reported) \in Nat /\ Charge(reported) <= ToolTotal
<1>1. ToolTotal \in Nat
  BY DeepLoopAssumption DEF ToolTotal, TOOL_CALLS_PER_ITERATION
<1> HIDE DEF ToolTotal
<1>2. Remaining \in Nat /\ used + Remaining <= ToolTotal
  BY <1>1 DEF Remaining
<1> HIDE DEF Remaining
<1>3. Grant \in Nat /\ Grant <= Remaining
  BY <1>2 DEF Grant, Smaller, PER_STEP_TOOL_CAP
<1> HIDE DEF Grant
<1>4. QED
  BY <1>1, <1>2, <1>3 DEF Charge, Smaller

\* The queue of a current action: it has a head, and a rest unless it is the
\* last one.
LEMMA CurrentAction ==
  ASSUME todo \in Seq(Steps), todo # <<>>
  PROVE  /\ Step \in Steps
         /\ Tail(todo) \in Seq(Steps)
         /\ Len(todo) # 1 => Tail(todo) # <<>>
<1>1. Step \in Steps /\ Tail(todo) \in Seq(Steps)
  BY HeadTailProperties DEF Step
<1>2. ASSUME Len(todo) # 1 PROVE Len(todo) > 1
  <2> DEFINE n == Len(todo)
  <2>1. n \in Nat /\ n # 0 /\ n # 1
    BY <1>2, EmptySeq, LenProperties
  <2> HIDE DEF n
  <2>2. n > 1
    BY <2>1
  <2>3. QED
    BY <2>2 DEF n
<1>3. QED
  BY <1>1, <1>2, LongTail

-----------------------------------------------------------------------------
\* The strengthening under which the properties are inductive.

\* No subtask carries a run that has not begun.
RunsBegun == \A i \in DOMAIN started : started[i].run <= runs

\* The list of the run and the delegator agree at every step of a run.
EmittedIsStarted ==
  status # "error" => {emitted[i] : i \in DOMAIN emitted} = StartedThisRun

\* Ids of the first run are below the sequence number.
FreshIds == runs = 1 => \A id \in artifacts : id[2] < seq

\* Between runtime.delegate and start_subtask the task is Delegated.
DelegatedBeforeHandoff == phase = "handoff" => env = "delegated"

\* A plan is judged, and a task completed, with nothing handed off.
JudgedWithoutSubtasks ==
  /\ phase \in {"judge", "complete"} => emitted = <<>>
  /\ phase = "complete" => \A step \in Steps : plan[step] \in SatisfyingStatuses

\* What is reviewed has been executed.
WorkBeforeReview ==
  phase \in {"review", "accept", "retry", "revise", "redelegate"} =>
    \E n \in 0..seq : <<Step, n>> \in artifacts

LoopInv ==
  /\ TypeOK
  /\ RunsBegun
  /\ EmittedIsStarted
  /\ BudgetRespected
  /\ FreshIds
  /\ DelegatedBeforeHandoff
  /\ PlannedHandoffsDelegateTheTask
  /\ JudgedWithoutSubtasks
  /\ CompletedPlanIsSatisfied
  /\ WorkBeforeReview
  /\ RecordedWorkHappened
  /\ NothingLeftPending

\* LoopInv holds initially.
LEMMA LoopInvInit == Init => LoopInv
<1> SUFFICES ASSUME Init PROVE LoopInv
  OBVIOUS
<1> USE DeepLoopAssumption DEF Init
<1>1. TypeOK
  BY DEF TypeOK, Phases, Statuses, States
<1>2. StartedThisRun = {}
  BY DEF StartedThisRun
<1>3. BudgetRespected
  BY DEF BudgetRespected, ToolTotal, TOOL_CALLS_PER_ITERATION
<1>4. EmittedIsStarted
  BY <1>2 DEF EmittedIsStarted
<1>5. QED
  BY <1>1, <1>3, <1>4
     DEF LoopInv, RunsBegun, FreshIds, DelegatedBeforeHandoff, PlannedHandoffsDelegateTheTask,
         JudgedWithoutSubtasks, CompletedPlanIsSatisfied, WorkBeforeReview,
         RecordedWorkHappened, NothingLeftPending

\* Every step keeps the types of the variables.
LEMMA TypeStep == TypeOK /\ [Next]_vars => TypeOK'
<1> SUFFICES ASSUME TypeOK, [Next]_vars PROVE TypeOK'
  OBVIOUS
<1> USE DEF TypeOK, Phases, Statuses, taskVars, worldVars
<1>1. CASE Enter
  BY <1>1, AppliedMovesTask DEF Enter, Operations
<1>2. CASE SelectActions
  <2> PICK n \in 1..MaxActions : todo' \in [1..n -> Steps]
    BY <1>2 DEF SelectActions
  <2>1. todo' \in Seq(Steps) /\ todo' # <<>>
    BY DeepLoopAssumption
  <2>2. iter' \in 0..MaxIterations
    BY <1>2, DeepLoopAssumption DEF SelectActions, IterationsLeft
  <2>3. QED
    BY <1>2, <2>1, <2>2 DEF SelectActions
<1>3. CASE PlannerIsDone
  <2>1. iter' \in 0..MaxIterations
    BY <1>3, DeepLoopAssumption DEF PlannerIsDone, IterationsLeft, IdleIteration
  <2>2. QED
    BY <1>3, <2>1 DEF PlannerIsDone, Report
<1>4. CASE JudgePlan
  BY <1>4 DEF JudgePlan
<1>5. CASE CompleteTask
  BY <1>5, AppliedMovesTask DEF CompleteTask, Report, Operations
<1>6. CASE FailTask
  BY <1>6, AppliedMovesTask DEF FailTask, Report, Operations
<1>7. CASE BudgetExhausted
  BY <1>7 DEF BudgetExhausted, Report
<1>8. CASE ChooseDelegate
  BY <1>8 DEF ChooseDelegate, DelegatePhase
<1>9. CASE DelegateTask
  BY <1>9, AppliedMovesTask DEF DelegateTask, Operations
<1>10. ASSUME NEW via \in {"plan", "review"}, todo # <<>>, phase # "done", StartSubtask(via)
       PROVE  TypeOK'
  <2>1. Handoff(via) \in Handoffs
    BY <1>10, CurrentAction DEF Handoff, Handoffs
  <2>2. plan' \in [Steps -> StepStatuses]
    BY <1>10, CurrentAction, RecordedPlan DEF StartSubtask, RecordCompleted
  <2>3. /\ todo' \in Seq(Steps)
        /\ phase' \in {"plan", "act"}
        /\ phase' = "act" => todo' # <<>>
    BY <1>10, CurrentAction DEF StartSubtask, NextAction
  <2>4. QED
    BY <1>10, <2>1, <2>2, <2>3 DEF StartSubtask, Emit
<1>11. CASE StartPlannedSubtask
  BY <1>10, <1>11 DEF StartPlannedSubtask
<1>12. CASE DelegateReviewedStep
  BY <1>10, <1>12 DEF DelegateReviewedStep
<1>13. CASE HandoffAnswerLost
  <2> PICK via \in {"plan", "review"} :
        /\ phase = IF via = "plan" THEN "handoff" ELSE "redelegate"
        /\ started' = Append(started, Handoff(via))
    BY <1>13 DEF HandoffAnswerLost
  <2>1. Handoff(via) \in Handoffs
    BY CurrentAction DEF Handoff, Handoffs
  <2>2. QED
    BY <1>13, <2>1 DEF HandoffAnswerLost, Abort
<1>14. CASE TickBegin
  BY <1>14, DeepLoopAssumption DEF TickBegin
<1>15. CASE TickOperation
  <2>1. Head(ops) \in Operations /\ Tail(ops) \in Seq(Operations)
    BY <1>15, HeadTailProperties DEF TickOperation
  <2>2. QED
    BY <1>15, <2>1, AppliedMovesTask DEF TickOperation
<1>16. CASE TickEnd
  BY <1>16 DEF TickEnd, AfterTick
<1>17. ASSUME ExecuteStep PROVE used' \in Nat
  BY <1>17, DeepLoopAssumption DEF ExecuteStep, Charge, Smaller, Grant, Remaining,
     ToolTotal, TOOL_CALLS_PER_ITERATION, PER_STEP_TOOL_CAP
<1>18. CASE ExecuteAndPersist
  <2>1. ArtifactId \in ArtifactIds
    BY <1>18, CurrentAction DEF ExecuteAndPersist, ArtifactId, ArtifactIds
  <2>2. QED
    BY <1>18, <1>17, <2>1 DEF ExecuteAndPersist, NextArtifactSeq
<1>19. CASE ArtifactCollides
  BY <1>19, <1>17 DEF ArtifactCollides, Abort
<1>20. CASE ReviewStep
  BY <1>20, DeepLoopAssumption DEF ReviewStep, ReviewVerdicts
<1>21. CASE AcceptStep
  <2>1. plan' \in [Steps -> StepStatuses]
    BY <1>21, CurrentAction, RecordedPlan DEF AcceptStep, RecordCompleted
  <2>2. /\ todo' \in Seq(Steps)
        /\ phase' \in {"plan", "act"}
        /\ phase' = "act" => todo' # <<>>
    BY <1>21, CurrentAction DEF AcceptStep, NextAction
  <2>3. QED
    BY <1>21, <2>1, <2>2 DEF AcceptStep
<1>22. CASE ReviseStep
  BY <1>22 DEF ReviseStep, Report
<1>23. CASE KernelRefuses
  <2> PICK op \in PendingOperations :
        \/ ~Allowed(op) /\ UNCHANGED env
        \/ StoreMayFail /\ Applied(op)
    BY <1>23 DEF KernelRefuses
  <2>1. op \in Operations
    BY HeadTailProperties DEF PendingOperations, Operations
  <2>2. env' \in States /\ phase # "done"
    BY <2>1, AppliedMovesTask DEF PendingOperations
  <2>3. QED
    BY <1>23, <2>2 DEF KernelRefuses, Abort
<1>24. CASE ProviderFails
  BY <1>24 DEF ProviderFails, Abort
<1>25. CASE RunAgain
  BY <1>25, DeepLoopAssumption DEF RunAgain, EmittedAtEntry
<1>26. CASE Terminating
  BY <1>26 DEF Terminating, vars, runVars
<1>27. CASE UNCHANGED vars
  BY <1>27 DEF vars, runVars
<1>28. QED
  BY <1>1, <1>2, <1>3, <1>4, <1>5, <1>6, <1>7, <1>8, <1>9, <1>11, <1>12, <1>13, <1>14,
     <1>15, <1>16, <1>18, <1>19, <1>20, <1>21, <1>22, <1>23, <1>24, <1>25, <1>26, <1>27
     DEF Next, RunStep

\* Every variable of the loop keeps its type (TypeOK of DeepLoop).
THEOREM LoopTypeCorrect == Spec => []TypeOK
<1>1. Init => TypeOK
  BY LoopInvInit DEF LoopInv
<1>2. QED
  BY <1>1, TypeStep, PTL DEF Spec

-----------------------------------------------------------------------------
\* A step that only moves control and the task keeps LoopInv if it enters the
\* phases that carry an obligation with the obligation met.
LEMMA ControlStep ==
  ASSUME LoopInv, TypeOK',
         UNCHANGED <<plan, given, emitted, used, seq, runs, started, artifacts>>,
         status # "error", status' # "error",
         phase' = "handoff" => env' = "delegated",
         phase' \in {"judge", "complete"} => emitted = <<>>,
         phase' = "complete" \/ status' = "completed" =>
           \A step \in Steps : plan[step] \in SatisfyingStatuses,
         phase' \in {"review", "accept", "retry", "revise", "redelegate"} =>
           \E n \in 0..seq : <<Step', n>> \in artifacts
  PROVE  LoopInv'
<1> USE DEF LoopInv
<1>1. RunsBegun' /\ BudgetRespected' /\ FreshIds' /\ PlannedHandoffsDelegateTheTask'
  BY DEF RunsBegun, BudgetRespected, ToolTotal, FreshIds, PlannedHandoffsDelegateTheTask
<1>2. EmittedIsStarted'
  BY DEF EmittedIsStarted, StartedThisRun
<1>3. DelegatedBeforeHandoff' /\ JudgedWithoutSubtasks' /\ CompletedPlanIsSatisfied'
  BY DEF DelegatedBeforeHandoff, JudgedWithoutSubtasks, CompletedPlanIsSatisfied
<1>4. WorkBeforeReview'
  BY DEF WorkBeforeReview
<1>5. RecordedWorkHappened' /\ NothingLeftPending'
  BY DEF RecordedWorkHappened, NothingLeftPending, DependenciesSatisfied
<1>6. QED
  BY <1>1, <1>2, <1>3, <1>4, <1>5

\* Appending a subtask of the current run adds it to those of the run.
LEMMA AppendedHandoff ==
  ASSUME TypeOK, NEW h \in Handoffs, h.run = runs,
         started' = Append(started, h), UNCHANGED runs
  PROVE  /\ StartedThisRun' = StartedThisRun \cup {h}
         /\ RunsBegun => RunsBegun'
         /\ PlannedHandoffsDelegateTheTask /\ (h.via = "plan" => h.env = "delegated")
              => PlannedHandoffsDelegateTheTask'
         /\ \A i \in DOMAIN started : i \in DOMAIN started' /\ started'[i] = started[i]
         /\ \E i \in DOMAIN started' : started'[i] = h
<1> DEFINE n == Len(started)
<1>1. started \in Seq(Handoffs) /\ runs \in Nat
  BY DeepLoopAssumption DEF TypeOK
<1>2. /\ n \in Nat
      /\ DOMAIN started = 1..n
      /\ DOMAIN started' = 1..(n + 1)
      /\ \A i \in 1..n : started'[i] = started[i]
      /\ started'[n + 1] = h
  BY <1>1, LenProperties, AppendProperties
<1> HIDE DEF n
<1>3. 1..(n + 1) = (1..n) \cup {n + 1}
  BY <1>2
<1>4. StartedThisRun' = StartedThisRun \cup {h}
  BY <1>2, <1>3 DEF StartedThisRun
<1>5. RunsBegun => RunsBegun'
  BY <1>1, <1>2, <1>3 DEF RunsBegun
<1>6. PlannedHandoffsDelegateTheTask /\ (h.via = "plan" => h.env = "delegated")
        => PlannedHandoffsDelegateTheTask'
  BY <1>2, <1>3 DEF PlannedHandoffsDelegateTheTask
<1>7. QED
  BY <1>2, <1>3, <1>4, <1>5, <1>6

\* An error return keeps LoopInv: the plan is the caller's again.
LEMMA AbortStep ==
  ASSUME LoopInv, TypeOK', Abort, UNCHANGED <<given, seq, runs, artifacts>>,
         RunsBegun', BudgetRespected', PlannedHandoffsDelegateTheTask'
  PROVE  LoopInv'
<1>1. FreshIds'
  BY DEF LoopInv, FreshIds
<1>2. plan' = given' /\ status' = "error" /\ phase' = "done"
  BY DEF Abort
<1>3. QED
  BY <1>1, <1>2
     DEF LoopInv, EmittedIsStarted, DelegatedBeforeHandoff, JudgedWithoutSubtasks,
         CompletedPlanIsSatisfied, WorkBeforeReview, RecordedWorkHappened, NothingLeftPending

\* Recording the current step as completed keeps what a record promises, if
\* there is work to show for the step.
LEMMA RecordStep ==
  ASSUME LoopInv, todo # <<>>, RecordCompleted, UNCHANGED <<given, seq>>,
         artifacts \subseteq artifacts',
         \A i \in DOMAIN started : i \in DOMAIN started' /\ started'[i] = started[i],
         \/ \E n \in 0..seq : <<Step, n>> \in artifacts
         \/ \E i \in DOMAIN started' : started'[i].step = Step
  PROVE  RecordedWorkHappened' /\ NothingLeftPending'
<1>1. Step \in Steps
  BY CurrentAction DEF LoopInv, TypeOK
<1>2. /\ \A s \in Steps : plan'[s] = "completed" => s = Step \/ plan[s] = "completed"
      /\ \A s \in Steps : plan'[s] = "pending" => ~DependenciesSatisfied(plan', Deps, s)
  <2>1. plan \in [Steps -> StepStatuses]
    BY DEF LoopInv, TypeOK
  <2>2. plan' = RecordStepResult(plan, Deps, Step, "completed")
    BY DEF RecordCompleted
  <2>3. QED
    BY <1>1, <2>1, <2>2, RecordedPlan
<1>3. NothingLeftPending'
  BY <1>2 DEF NothingLeftPending
<1>4. ASSUME NEW s \in Steps, plan'[s] = "completed", given'[s] # "completed"
      PROVE  \/ \E n \in 0..seq' : <<s, n>> \in artifacts'
             \/ \E i \in DOMAIN started' : started'[i].step = s
  <2>1. CASE s = Step
    BY <2>1
  <2>2. CASE s # Step
    <3>1. plan[s] = "completed" /\ given[s] # "completed"
      BY <1>2, <1>4, <2>2
    <3>2. \/ \E n \in 0..seq : <<s, n>> \in artifacts
          \/ \E i \in DOMAIN started : started[i].step = s
      BY <3>1 DEF LoopInv, RecordedWorkHappened
    <3>3. QED
      BY <3>2
  <2>3. QED
    BY <2>1, <2>2
<1>5. RecordedWorkHappened'
  BY <1>4 DEF RecordedWorkHappened
<1>6. QED
  BY <1>3, <1>5

\* Every step of the loop and every further run keeps LoopInv.
LEMMA LoopInvStep == LoopInv /\ [Next]_vars => LoopInv'
<1> SUFFICES ASSUME LoopInv, [Next]_vars PROVE LoopInv'
  OBVIOUS
<1>1. TypeOK /\ TypeOK'
  BY TypeStep DEF LoopInv
<1>2. phase # "done" => status = "working"
  BY <1>1 DEF TypeOK
<1> USE <1>1, <1>2 DEF taskVars, worldVars
<1>3. CASE Enter
  BY <1>3, ControlStep DEF Enter
<1>4. CASE SelectActions
  BY <1>4, ControlStep DEF SelectActions
<1>5. CASE PlannerIsDone
  BY <1>5, ControlStep DEF PlannerIsDone, Report, NothingHandedOff
<1>6. CASE JudgePlan
  <2>1. emitted = <<>>
    BY <1>6 DEF JudgePlan, LoopInv, JudgedWithoutSubtasks
  <2>2. EvaluateCompletion(plan) = "satisfied" =>
          \A step \in Steps : plan[step] \in SatisfyingStatuses
    BY DEF EvaluateCompletion, TypeOK
  <2>3. QED
    BY <1>6, <2>1, <2>2, ControlStep DEF JudgePlan
<1>7. CASE CompleteTask
  BY <1>7, ControlStep DEF CompleteTask, Report, LoopInv, JudgedWithoutSubtasks
<1>8. CASE FailTask
  BY <1>8, ControlStep DEF FailTask, Report
<1>9. CASE BudgetExhausted
  BY <1>9, ControlStep DEF BudgetExhausted, Report
<1>10. CASE ChooseDelegate
  BY <1>10, ControlStep DEF ChooseDelegate, DelegatePhase
<1>11. CASE DelegateTask
  <2>1. env' = "delegated"
    BY <1>11 DEF DelegateTask, Applied, TargetState
  <2>2. QED
    BY <1>11, <2>1, ControlStep DEF DelegateTask
<1>12. CASE TickBegin
  BY <1>12, ControlStep DEF TickBegin
<1>13. CASE TickOperation
  BY <1>13, ControlStep DEF TickOperation
<1>14. CASE TickEnd
  BY <1>14, ControlStep DEF TickEnd, AfterTick
<1>15. CASE ReviewStep
  <2>1. \E n \in 0..seq : <<Step', n>> \in artifacts
    BY <1>15 DEF ReviewStep, LoopInv, WorkBeforeReview, Step
  <2>2. QED
    BY <1>15, <2>1, ControlStep, DeepLoopAssumption DEF ReviewStep, ReviewVerdicts
<1>16. CASE ReviseStep
  BY <1>16, ControlStep DEF ReviseStep, Report
<1>17. CASE AcceptStep
  <2>1. \E n \in 0..seq : <<Step, n>> \in artifacts
    BY <1>17 DEF AcceptStep, LoopInv, WorkBeforeReview
  <2>2. todo # <<>>
    BY <1>17 DEF AcceptStep, TypeOK
  <2>3. RecordedWorkHappened' /\ NothingLeftPending'
    BY <1>17, <2>1, <2>2, RecordStep DEF AcceptStep
  <2>4. phase' \in {"plan", "act"} /\ status' = "working"
    BY <1>17 DEF AcceptStep, NextAction, TypeOK
  <2>5. UNCHANGED <<emitted, started, runs, artifacts, seq, used, status>>
    BY <1>17 DEF AcceptStep
  <2>6. QED
    BY <2>3, <2>4, <2>5
       DEF LoopInv, RunsBegun, EmittedIsStarted, StartedThisRun, BudgetRespected, ToolTotal,
           FreshIds, DelegatedBeforeHandoff, PlannedHandoffsDelegateTheTask,
           JudgedWithoutSubtasks, CompletedPlanIsSatisfied, WorkBeforeReview
<1>18. ASSUME NEW via \in {"plan", "review"}, todo # <<>>, phase # "done", StartSubtask(via),
              via = "plan" => env = "delegated"
       PROVE  LoopInv'
  <2> DEFINE h == Handoff(via)
  <2>1. h \in Handoffs /\ h.run = runs /\ h.via = via /\ h.env = env /\ h.step = Step
    BY <1>18, CurrentAction, DeepLoopAssumption DEF Handoff, Handoffs, TypeOK
  <2>2. UNCHANGED <<runs, given, seq, used, status, artifacts>>
    BY <1>18 DEF StartSubtask
  <2>3. started' = Append(started, h) /\ emitted' = Append(emitted, h)
    BY <1>18 DEF StartSubtask, Emit
  <2> HIDE DEF h
  <2>4. /\ StartedThisRun' = StartedThisRun \cup {h}
        /\ RunsBegun'
        /\ PlannedHandoffsDelegateTheTask'
        /\ \A i \in DOMAIN started : i \in DOMAIN started' /\ started'[i] = started[i]
        /\ \E i \in DOMAIN started' : started'[i] = h
    BY <1>18, <2>1, <2>2, <2>3, AppendedHandoff DEF LoopInv
  <2>5. RecordedWorkHappened' /\ NothingLeftPending'
    BY <1>18, <2>1, <2>2, <2>4, RecordStep DEF StartSubtask
  <2>6. {emitted'[i] : i \in DOMAIN emitted'} = {emitted[i] : i \in DOMAIN emitted} \cup {h}
    <3> DEFINE n == Len(emitted)
    <3>1. /\ n \in Nat
          /\ DOMAIN emitted = 1..n
          /\ DOMAIN emitted' = 1..(n + 1)
          /\ \A i \in 1..n : emitted'[i] = emitted[i]
          /\ emitted'[n + 1] = h
      BY <2>1, <2>3, LenProperties, AppendProperties DEF TypeOK
    <3> HIDE DEF n
    <3>2. 1..(n + 1) = (1..n) \cup {n + 1}
      BY <3>1
    <3>3. QED
      BY <3>1, <3>2
  <2>7. EmittedIsStarted'
    BY <1>18, <2>2, <2>4, <2>6 DEF LoopInv, EmittedIsStarted, TypeOK
  <2>8. phase' \in {"plan", "act"} /\ status' = "working"
    BY <1>18 DEF StartSubtask, NextAction, TypeOK
  <2>9. BudgetRespected' /\ FreshIds'
    BY <2>2 DEF LoopInv, BudgetRespected, ToolTotal, FreshIds
  <2>10. QED
    BY <2>4, <2>5, <2>7, <2>8, <2>9
       DEF LoopInv, DelegatedBeforeHandoff, JudgedWithoutSubtasks,
           CompletedPlanIsSatisfied, WorkBeforeReview
<1>19. CASE StartPlannedSubtask
  <2>1. env = "delegated" /\ todo # <<>> /\ phase # "done"
    BY <1>19 DEF StartPlannedSubtask, LoopInv, DelegatedBeforeHandoff, TypeOK
  <2>2. QED
    BY <1>18, <1>19, <2>1 DEF StartPlannedSubtask
<1>20. CASE DelegateReviewedStep
  <2>1. todo # <<>> /\ phase # "done"
    BY <1>20 DEF DelegateReviewedStep, TypeOK
  <2>2. QED
    BY <1>18, <1>20, <2>1 DEF DelegateReviewedStep
<1>21. CASE HandoffAnswerLost
  <2> PICK via \in {"plan", "review"} :
        /\ phase = IF via = "plan" THEN "handoff" ELSE "redelegate"
        /\ started' = Append(started, Handoff(via))
    BY <1>21 DEF HandoffAnswerLost
  <2> DEFINE h == Handoff(via)
  <2>1. h \in Handoffs /\ h.run = runs /\ h.via = via /\ h.env = env
    BY CurrentAction, DeepLoopAssumption DEF Handoff, Handoffs, TypeOK
  <2>2. h.via = "plan" => h.env = "delegated"
    BY <2>1 DEF LoopInv, DelegatedBeforeHandoff
  <2>3. started' = Append(started, h)
    OBVIOUS
  <2> HIDE DEF h
  <2>4. UNCHANGED <<runs, given, seq, used, artifacts>> /\ Abort
    BY <1>21 DEF HandoffAnswerLost
  <2>5. RunsBegun' /\ PlannedHandoffsDelegateTheTask'
    BY <2>1, <2>2, <2>3, <2>4, AppendedHandoff DEF LoopInv
  <2>6. BudgetRespected'
    BY <2>4 DEF LoopInv, BudgetRespected, ToolTotal
  <2>7. QED
    BY <2>4, <2>5, <2>6, AbortStep
<1>22. ASSUME ExecuteStep PROVE BudgetRespected'
  <2>1. used \in Nat /\ used <= ToolTotal
    BY DEF LoopInv, BudgetRespected, TypeOK
  <2>2. used' <= ToolTotal
    BY <1>22, <2>1, ChargeBounded, DeepLoopAssumption DEF ExecuteStep
  <2>3. QED
    BY <2>2 DEF BudgetRespected, ToolTotal
<1>23. CASE ExecuteAndPersist
  <2>1. /\ artifacts' = artifacts \cup {<<Step, seq>>}
        /\ seq' = seq + 1
        /\ phase' = "review"
        /\ UNCHANGED <<env, plan, given, todo, emitted, status, runs, started>>
    BY <1>23 DEF ExecuteAndPersist, ArtifactId, NextArtifactSeq
  <2>2. BudgetRespected'
    BY <1>22, <1>23 DEF ExecuteAndPersist
  <2>3. FreshIds'
    BY <2>1 DEF LoopInv, FreshIds, TypeOK, ArtifactIds
  <2>4. WorkBeforeReview'
    <3>1. <<Step', seq>> \in artifacts' /\ seq \in 0..seq'
      BY <2>1 DEF Step, TypeOK
    <3>2. QED
      BY <3>1 DEF WorkBeforeReview
  <2>5. RecordedWorkHappened'
    <3>1. 0..seq \subseteq 0..seq'
      BY <2>1 DEF TypeOK
    <3>2. QED
      BY <2>1, <3>1 DEF LoopInv, RecordedWorkHappened
  <2>6. QED
    BY <2>1, <2>2, <2>3, <2>4, <2>5
       DEF LoopInv, RunsBegun, EmittedIsStarted, StartedThisRun, DelegatedBeforeHandoff,
           PlannedHandoffsDelegateTheTask, JudgedWithoutSubtasks, CompletedPlanIsSatisfied,
           NothingLeftPending, DependenciesSatisfied
<1>24. ASSUME Abort, UNCHANGED <<given, seq, used, runs, worldVars>>
       PROVE  LoopInv'
  <2>1. RunsBegun' /\ BudgetRespected' /\ PlannedHandoffsDelegateTheTask'
    BY <1>24 DEF LoopInv, RunsBegun, BudgetRespected, ToolTotal, PlannedHandoffsDelegateTheTask
  <2>2. QED
    BY <1>24, <2>1, AbortStep
<1>25. CASE ArtifactCollides
  <2>1. RunsBegun' /\ PlannedHandoffsDelegateTheTask'
    BY <1>25 DEF ArtifactCollides, LoopInv, RunsBegun, PlannedHandoffsDelegateTheTask
  <2>2. QED
    BY <1>22, <1>25, <2>1, AbortStep DEF ArtifactCollides
<1>26. CASE KernelRefuses
  BY <1>24, <1>26 DEF KernelRefuses
<1>27. CASE ProviderFails
  BY <1>24, <1>27 DEF ProviderFails
<1>28. CASE RunAgain
  <2>1. /\ runs' = runs + 1 /\ given' = plan /\ phase' = "enter" /\ status' = "working"
        /\ seq' = 0 /\ used' = 0 /\ emitted' = <<>>
        /\ UNCHANGED <<env, plan, started, artifacts>>
    BY <1>28 DEF RunAgain, EmittedAtEntry
  <2>2. runs \in Nat /\ runs >= 1 /\ \A i \in DOMAIN started : started[i].run \in Nat
    <3>1. runs \in 1..MaxRuns /\ started \in Seq(Handoffs) /\ MaxRuns \in Nat
      BY DeepLoopAssumption DEF TypeOK
    <3>2. \A i \in DOMAIN started : started[i] \in Handoffs
      BY <3>1
    <3>3. QED
      BY <3>1, <3>2 DEF Handoffs
  <2>3. RunsBegun'
    BY <2>1, <2>2 DEF LoopInv, RunsBegun
  <2>4. StartedThisRun' = {}
    BY <2>1, <2>2 DEF LoopInv, RunsBegun, StartedThisRun
  <2>5. FreshIds'
    BY <2>1, <2>2 DEF FreshIds
  <2>6. BudgetRespected'
    BY <2>1, DeepLoopAssumption DEF BudgetRespected, ToolTotal, TOOL_CALLS_PER_ITERATION
  <2>7. EmittedIsStarted'
    BY <2>1, <2>4 DEF EmittedIsStarted
  <2>8. QED
    BY <2>1, <2>3, <2>5, <2>6, <2>7
       DEF LoopInv, DelegatedBeforeHandoff, PlannedHandoffsDelegateTheTask,
           JudgedWithoutSubtasks, CompletedPlanIsSatisfied, WorkBeforeReview,
           RecordedWorkHappened, NothingLeftPending
<1>29. CASE UNCHANGED vars
  BY <1>29
     DEF vars, runVars, LoopInv, RunsBegun, EmittedIsStarted, StartedThisRun, BudgetRespected,
         ToolTotal, FreshIds, DelegatedBeforeHandoff, PlannedHandoffsDelegateTheTask,
         JudgedWithoutSubtasks, CompletedPlanIsSatisfied, WorkBeforeReview, Step,
         RecordedWorkHappened, NothingLeftPending, DependenciesSatisfied
<1>30. CASE Terminating
  BY <1>29, <1>30 DEF Terminating
<1>31. QED
  BY <1>3, <1>4, <1>5, <1>6, <1>7, <1>8, <1>9, <1>10, <1>11, <1>12, <1>13, <1>14, <1>15,
     <1>16, <1>17, <1>19, <1>20, <1>21, <1>23, <1>25, <1>26, <1>27, <1>28, <1>29, <1>30
     DEF Next, RunStep

\* Hence the inductive invariant holds in every state.
LEMMA LoopInvariant == Spec => []LoopInv
BY LoopInvInit, LoopInvStep, PTL DEF Spec

-----------------------------------------------------------------------------
\* What a run reports agrees with the delegator, and a plan it reports as
\* complete is (emitted_subtasks, evaluate_completion).
THEOREM ReportsAreTrue == Spec => [](SubtasksReported /\ CompletedPlanIsSatisfied)
<1>1. LoopInv => SubtasksReported /\ CompletedPlanIsSatisfied
  BY DEF LoopInv, EmittedIsStarted, SubtasksReported
<1>2. QED
  BY <1>1, LoopInvariant, PTL

\* The tool calls charged to a run stay within its budget, whatever executors
\* report (ToolBudget::charge).
THEOREM BudgetsHold == Spec => []BudgetRespected
<1>1. LoopInv => BudgetRespected
  BY DEF LoopInv
<1>2. QED
  BY <1>1, LoopInvariant, PTL

\* However often the planner revisits a step, a first run on a workspace never
\* writes under an id that is taken (artifact_seq).
THEOREM FirstRunsDoNotCollide == Spec => []RevisitsDoNotCollide
<1>1. LoopInv => RevisitsDoNotCollide
  <2> SUFFICES ASSUME LoopInv, runs = 1, ArtifactId \in artifacts PROVE FALSE
    BY DEF RevisitsDoNotCollide
  <2>1. seq \in Nat /\ ArtifactId[2] = seq
    BY DEF LoopInv, TypeOK, ArtifactId
  <2>2. ArtifactId[2] < seq
    BY DEF LoopInv, FreshIds
  <2>3. QED
    BY <2>1, <2>2
<1>2. QED
  BY <1>1, LoopInvariant, PTL

\* Subtasks of Delegate steps are only started on a task the runtime has
\* delegated (runtime.delegate), and recorded steps have been worked on.
THEOREM StepsAreDoneInOrder ==
  Spec => [](PlannedHandoffsDelegateTheTask /\ RecordedWorkHappened)
<1>1. LoopInv => PlannedHandoffsDelegateTheTask /\ RecordedWorkHappened
  BY DEF LoopInv
<1>2. QED
  BY <1>1, LoopInvariant, PTL

\* Once a result is recorded, no step is left Pending behind satisfied
\* dependencies, whatever the plan (record_step_result).
THEOREM PromotionsAreComplete == Spec => []NothingLeftPending
<1>1. LoopInv => NothingLeftPending
  BY DEF LoopInv
<1>2. QED
  BY <1>1, LoopInvariant, PTL

\* Only an error return opens a completed step again (record_step_result and
\* the `?` of DeepLoopCoordinator::run).
THEOREM CompletedStepsStay == Spec => OnlyErrorsReopenSteps
<1> DEFINE Kept == \A step \in Steps :
              plan[step] = "completed" /\ plan'[step] # "completed" => status' = "error"
<1>1. TypeOK /\ [Next]_vars => [Kept]_vars
  <2> SUFFICES ASSUME TypeOK, Next PROVE Kept
    OBVIOUS
  <2>1. ASSUME todo # <<>>, RecordCompleted PROVE Kept
    <3>1. Step \in Steps /\ plan \in [Steps -> StepStatuses]
      BY <2>1, CurrentAction DEF TypeOK
    <3>2. plan' = RecordStepResult(plan, Deps, Step, "completed")
      BY <2>1 DEF RecordCompleted
    <3>3. QED
      BY <3>1, <3>2, RecordedPlan
  <2>2. CASE AcceptStep
    BY <2>1, <2>2 DEF AcceptStep, TypeOK
  <2>3. CASE StartPlannedSubtask
    BY <2>1, <2>3 DEF StartPlannedSubtask, StartSubtask, TypeOK
  <2>4. CASE DelegateReviewedStep
    BY <2>1, <2>4 DEF DelegateReviewedStep, StartSubtask, TypeOK
  <2>5. CASE HandoffAnswerLost \/ ArtifactCollides \/ KernelRefuses \/ ProviderFails
    BY <2>5 DEF HandoffAnswerLost, ArtifactCollides, KernelRefuses, ProviderFails, Abort
  <2>6. CASE UNCHANGED plan
    BY <2>6
  <2>7. QED
    BY <2>2, <2>3, <2>4, <2>5, <2>6
       DEF Next, RunStep, Enter, SelectActions, PlannerIsDone, JudgePlan, CompleteTask,
           FailTask, BudgetExhausted, ChooseDelegate, DelegateTask, TickBegin, TickOperation,
           TickEnd, ExecuteAndPersist, ReviewStep, ReviseStep, RunAgain, Terminating,
           taskVars, vars
<1>2. QED
  BY <1>1, LoopTypeCorrect, PTL DEF Spec, OnlyErrorsReopenSteps

-----------------------------------------------------------------------------
(* The loop implements the contract of a deep run.                         *)

\* A step that hands nothing off and starts no run leaves what was handed off.
LEMMA HandedOffKept ==
  ASSUME UNCHANGED <<started, runs>> PROVE StartedThisRun' = StartedThisRun
BY DEF StartedThisRun

\* A working run that goes on, moving the task at most along the table.
LEMMA WorkStep ==
  ASSUME status = "working", UNCHANGED <<status, started, runs>>,
         env' = env \/ CanTransition(env, env')
  PROVE  Run!Work
BY HandedOffKept DEF Run!Work, Run!TaskMayMove, CanTransition, LegalTransitions, Run!CanTransition, Run!LegalTransitions

\* Every step of the loop is a step of the contract or stutters.
LEMMA RunStepSimulation == LoopInv /\ [Next]_vars => [Run!Next]_Run!runVars
<1> SUFFICES ASSUME LoopInv, [Next]_vars PROVE [Run!Next]_Run!runVars
  OBVIOUS
<1>1. TypeOK /\ (phase # "done" => status = "working")
  BY DEF LoopInv, TypeOK
<1> USE <1>1 DEF taskVars, worldVars, Run!Next
<1>2. CASE Enter
  BY <1>2, WorkStep, AppliedMovesTask DEF Enter, Operations, TypeOK
<1>3. CASE UNCHANGED <<env, status, started, runs>>
  BY <1>3, HandedOffKept DEF Run!runVars
<1>4. CASE DelegateTask
  BY <1>4, WorkStep, AppliedMovesTask DEF DelegateTask, Operations, TypeOK
<1>5. CASE TickOperation
  <2>1. Head(ops) \in Operations
    BY <1>5, HeadTailProperties DEF TickOperation, TypeOK
  <2>2. QED
    BY <1>5, <2>1, WorkStep, AppliedMovesTask DEF TickOperation, TypeOK
<1>6. CASE PlannerIsDone
  <2>1. CASE NothingHandedOff
    BY <1>3, <1>6, <2>1 DEF PlannerIsDone
  <2>2. CASE ~NothingHandedOff
    <3>1. /\ phase = "plan" /\ status' = "delegating"
          /\ UNCHANGED <<env, started, runs>>
      BY <1>6, <2>2 DEF PlannerIsDone, Report
    <3>2. StartedThisRun # {}
      <4>1. emitted # <<>> /\ emitted \in Seq(Handoffs)
        BY <2>2 DEF NothingHandedOff, TypeOK
      <4>2. 1 \in DOMAIN emitted
        BY <4>1
      <4>3. QED
        BY <3>1, <4>2 DEF LoopInv, EmittedIsStarted
    <3>3. Run!Suspend
      BY <3>1, <3>2, HandedOffKept DEF Run!Suspend, Run!OpenVerdicts
    <3>4. QED
      BY <3>3
  <2>3. QED
    BY <2>1, <2>2
<1>7. CASE CompleteTask
  <2>1. /\ phase = "complete" /\ status' = "completed" /\ env' = "completed"
        /\ UNCHANGED <<started, runs>>
        /\ Applied("complete")
    BY <1>7 DEF CompleteTask, Report, Applied, TargetState
  <2>2. env' = env \/ CanTransition(env, env')
    BY <2>1, AppliedMovesTask DEF Operations, TypeOK
  <2>3. StartedThisRun = {}
    <3>1. emitted = <<>>
      BY <2>1 DEF LoopInv, JudgedWithoutSubtasks
    <3>2. QED
      BY <2>1, <3>1 DEF LoopInv, EmittedIsStarted
  <2>4. Run!Complete
    BY <2>1, <2>2, <2>3, HandedOffKept DEF Run!Complete, Run!TaskMayMove,
       CanTransition, LegalTransitions, Run!CanTransition, Run!LegalTransitions
  <2>5. QED
    BY <2>4
<1>8. CASE FailTask
  <2>1. /\ phase = "fail" /\ status' = "failed" /\ env' = "failed"
        /\ UNCHANGED <<started, runs>>
        /\ Applied("fail")
    BY <1>8 DEF FailTask, Report, Applied, TargetState
  <2>2. env' = env \/ CanTransition(env, env')
    BY <2>1, AppliedMovesTask DEF Operations, TypeOK
  <2>3. Run!Fail
    BY <2>1, <2>2, HandedOffKept DEF Run!Fail, Run!TaskMayMove,
       CanTransition, LegalTransitions, Run!CanTransition, Run!LegalTransitions
  <2>4. QED
    BY <2>3
<1>9. CASE BudgetExhausted \/ ReviseStep
  <2>1. /\ phase # "done" /\ status' \in {"budget_exhausted", "revising"}
        /\ UNCHANGED <<env, started, runs>>
    BY <1>9 DEF BudgetExhausted, ReviseStep, Report
  <2>2. Run!Suspend
    BY <2>1, HandedOffKept DEF Run!Suspend, Run!OpenVerdicts
  <2>3. QED
    BY <2>2
<1>10. ASSUME NEW via \in {"plan", "review"}, todo # <<>>, phase # "done", StartSubtask(via)
       PROVE  Run!Work
  <2>1. Handoff(via) \in Handoffs /\ Handoff(via).run = runs
    BY <1>10, CurrentAction, DeepLoopAssumption DEF Handoff, Handoffs, TypeOK
  <2>2. UNCHANGED <<env, status, runs>> /\ started' = Append(started, Handoff(via))
    BY <1>10 DEF StartSubtask
  <2>3. StartedThisRun' = StartedThisRun \cup {Handoff(via)}
    BY <2>1, <2>2, AppendedHandoff
  <2>4. QED
    BY <1>10, <2>2, <2>3 DEF Run!Work, Run!TaskMayMove
<1>11. CASE StartPlannedSubtask
  BY <1>10, <1>11 DEF StartPlannedSubtask, TypeOK
<1>12. CASE DelegateReviewedStep
  BY <1>10, <1>12 DEF DelegateReviewedStep, TypeOK
<1>13. CASE HandoffAnswerLost
  <2> PICK via \in {"plan", "review"} :
        /\ phase = IF via = "plan" THEN "handoff" ELSE "redelegate"
        /\ started' = Append(started, Handoff(via))
    BY <1>13 DEF HandoffAnswerLost
  <2>1. Handoff(via) \in Handoffs /\ Handoff(via).run = runs
    BY CurrentAction, DeepLoopAssumption DEF Handoff, Handoffs, TypeOK
  <2>2. UNCHANGED <<env, runs>> /\ status' = "error"
    BY <1>13 DEF HandoffAnswerLost, Abort
  <2>3. StartedThisRun' = StartedThisRun \cup {Handoff(via)}
    BY <2>1, <2>2, AppendedHandoff
  <2>4. Run!Abort
    BY <2>2, <2>3 DEF Run!Abort, Run!TaskMayMove
  <2>5. QED
    BY <2>4
<1>14. CASE ArtifactCollides \/ ProviderFails
  <2>1. phase # "done" /\ status' = "error" /\ UNCHANGED <<env, started, runs>>
    BY <1>14 DEF ArtifactCollides, ProviderFails, Abort
  <2>2. Run!Abort
    BY <2>1, HandedOffKept DEF Run!Abort, Run!TaskMayMove
  <2>3. QED
    BY <2>2
<1>15. CASE KernelRefuses
  <2> PICK op \in PendingOperations :
        \/ ~Allowed(op) /\ UNCHANGED env
        \/ StoreMayFail /\ Applied(op)
    BY <1>15 DEF KernelRefuses
  <2>1. op \in Operations
    BY HeadTailProperties DEF PendingOperations, Operations, TypeOK
  <2>2. phase # "done" /\ status' = "error" /\ UNCHANGED <<started, runs>>
    BY <1>15 DEF KernelRefuses, Abort, PendingOperations
  <2>3. env' = env \/ CanTransition(env, env')
    BY <2>1, AppliedMovesTask DEF TypeOK
  <2>4. Run!Abort
    BY <2>2, <2>3, HandedOffKept DEF Run!Abort, Run!TaskMayMove,
       CanTransition, LegalTransitions, Run!CanTransition, Run!LegalTransitions
  <2>5. QED
    BY <2>4
<1>16. CASE RunAgain
  <2>1. /\ status \notin {"completed", "failed", "working"}
        /\ status' = "working" /\ runs' = runs + 1 /\ UNCHANGED <<env, started>>
    BY <1>16 DEF RunAgain, TypeOK
  <2>2. runs \in Nat /\ \A i \in DOMAIN started : started[i].run \in Nat
    <3>1. runs \in 1..MaxRuns /\ started \in Seq(Handoffs) /\ MaxRuns \in Nat
      BY DeepLoopAssumption DEF TypeOK
    <3>2. \A i \in DOMAIN started : started[i] \in Handoffs
      BY <3>1
    <3>3. QED
      BY <3>1, <3>2 DEF Handoffs
  <2>3. StartedThisRun' = {}
    BY <2>1, <2>2 DEF LoopInv, RunsBegun, StartedThisRun
  <2>4. Run!RunAgain
    BY <2>1, <2>3 DEF Run!RunAgain, Run!OpenVerdicts, TypeOK, Statuses
  <2>5. QED
    BY <2>4
<1>17. CASE UNCHANGED vars
  BY <1>3, <1>17 DEF vars, runVars
<1>18. QED
  BY <1>2, <1>3, <1>4, <1>5, <1>6, <1>7, <1>8, <1>9, <1>11, <1>12, <1>13, <1>14, <1>15,
     <1>16, <1>17
     DEF Next, RunStep, SelectActions, JudgePlan, ChooseDelegate, TickBegin, TickEnd,
         ExecuteAndPersist, ReviewStep, AcceptStep, Terminating

\* The deep loop implements its contract: a task is reported completed only
\* with nothing handed off and in Completed, failed only in Failed, and it is
\* left to another run otherwise (DeepLoopCoordinator::run).
THEOREM RunRefinement == Spec => ImplementsDeepRun
<1>1. Init => Run!Init
  BY DeepLoopAssumption DEF Init, Run!Init, StartedThisRun, States, Run!States
<1>2. QED
  BY <1>1, RunStepSimulation, LoopInvariant, PTL DEF Spec, ImplementsDeepRun, Run!Spec
=============================================================================
