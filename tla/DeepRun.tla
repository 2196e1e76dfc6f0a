------------------------------ MODULE DeepRun ------------------------------
(***************************************************************************)
(* What a run of the deep loop promises its caller, without its plan,      *)
(* providers, budgets or kernel: while it works it moves the task along    *)
(* the lifecycle table and hands subtasks off; the verdict it reports      *)
(* agrees with the task and with the subtasks, and whatever is neither     *)
(* completed nor failed can be run again on the same task.                 *)
(***************************************************************************)
EXTENDS TaskLifecycle

VARIABLES task,             \* lifecycle state of the task
          handedOff,        \* subtasks handed off during the current run
          verdict           \* "working", or what the run reported

runVars == <<task, handedOff, verdict>>

\* Reports that leave the task for another run.
OpenVerdicts == {"delegating", "revising", "budget_exhausted"}

Init == task \in States /\ handedOff = {} /\ verdict = "working"

TaskMayMove == task' = task \/ CanTransition(task, task')

Work ==
  /\ verdict = "working"
  /\ TaskMayMove
  /\ handedOff \subseteq handedOff'
  /\ UNCHANGED verdict

Complete ==
  /\ verdict = "working"
  /\ verdict' = "completed"
  /\ task' = "completed"
  /\ TaskMayMove
  /\ handedOff = {}
  /\ UNCHANGED handedOff

Fail ==
  /\ verdict = "working"
  /\ verdict' = "failed"
  /\ task' = "failed"
  /\ TaskMayMove
  /\ UNCHANGED handedOff

Suspend ==
  /\ verdict = "working"
  /\ verdict' \in OpenVerdicts
  /\ (verdict' = "delegating") => handedOff # {}
  /\ UNCHANGED <<task, handedOff>>

Abort ==
  /\ verdict = "working"
  /\ verdict' = "error"
  /\ TaskMayMove
  /\ handedOff \subseteq handedOff'

RunAgain ==
  /\ verdict \in OpenVerdicts \cup {"error"}
  /\ verdict' = "working"
  /\ handedOff' = {}
  /\ UNCHANGED task

Next == Work \/ Complete \/ Fail \/ Suspend \/ Abort \/ RunAgain

Spec == Init /\ [][Next]_runVars
=============================================================================
