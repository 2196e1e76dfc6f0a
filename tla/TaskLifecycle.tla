--------------------------- MODULE TaskLifecycle ---------------------------
(***************************************************************************)
(* The lifecycle of a Digital Worker task: the states of a TaskEnvelope,   *)
(* the table of legal transitions (greentic-dw-types, task.rs) and the     *)
(* pure half of the kernel (greentic-dw-core): which state an operation    *)
(* aims at and whether it applies.  Every stateful module builds on it.    *)
(***************************************************************************)

States == {"created", "running", "waiting", "delegated",
           "completed", "failed", "cancelled"}

\* TaskLifecycleState::is_terminal
Terminal == {"completed", "failed", "cancelled"}

\* Mutant: the table lets a failed task be started again.
LegalTransitionsRetryFailed ==
  ({"created", "failed"} \X {"running", "cancelled"})
    \cup ({"running"} \X {"waiting", "delegated", "completed", "failed", "cancelled"})
    \cup ({"waiting", "delegated"} \X {"running", "failed", "cancelled"})

\* TaskLifecycleState::can_transition_to, as the set of legal pairs.
LegalTransitions ==
  ({"created"} \X {"running", "cancelled"})
    \cup ({"running"} \X {"waiting", "delegated", "completed", "failed", "cancelled"})
    \cup ({"waiting", "delegated"} \X {"running", "failed", "cancelled"})

CanTransition(from, to) == <<from, to>> \in LegalTransitions

-----------------------------------------------------------------------------
Operations == {"start", "step", "wait", "delegate", "observe",
               "complete", "fail", "cancel"}

\* target_state: Step and Observe keep the current state.
TargetState(op, current) ==
  CASE op = "start"    -> "running"
    [] op = "wait"     -> "waiting"
    [] op = "delegate" -> "delegated"
    [] op = "complete" -> "completed"
    [] op = "fail"     -> "failed"
    [] op = "cancel"   -> "cancelled"
    [] OTHER           -> current

\* The check of apply_operation.  An operation that aims at the state the
\* task is already in always applies, even in a terminal state.
Applies(op, current) ==
  \/ TargetState(op, current) = current
  \/ CanTransition(current, TargetState(op, current))
=============================================================================
