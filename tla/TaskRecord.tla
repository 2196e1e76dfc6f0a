----------------------------- MODULE TaskRecord -----------------------------
(***************************************************************************)
(* What the kernel promises about the record of ONE task, without its      *)
(* hooks, observers, batches or errors: a live copy that moves only along  *)
(* the lifecycle table, a durable copy that only ever receives the live    *)
(* one, and a recovery that resumes from the durable copy (or from a fresh *)
(* Created envelope when nothing was ever saved).                          *)
(***************************************************************************)
EXTENDS TaskLifecycle

CONSTANT NoRecord           \* load_state answered None

VARIABLES live,             \* state of the envelope the caller holds
          durable           \* state in the task-state store

recordVars == <<live, durable>>

Init == live = "created" /\ durable = NoRecord

Advance == /\ \E to \in States : CanTransition(live, to) /\ live' = to
           /\ UNCHANGED durable

Persist == durable' = live /\ UNCHANGED live

Recover == /\ live' = IF durable = NoRecord THEN "created" ELSE durable
           /\ UNCHANGED durable

Next == Advance \/ Persist \/ Recover

Spec == Init /\ [][Next]_recordVars
=============================================================================
