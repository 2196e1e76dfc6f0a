----------------------------- MODULE DwRuntime -----------------------------
(***************************************************************************)
(* The runtime kernel (greentic-dw-runtime, runtime.rs) driving one task:  *)
(* direct calls and engine decisions (single operations and batches) are   *)
(* applied one operation at a time; each operation passes the control      *)
(* hooks, changes the envelope, is told to hooks and observers and is then *)
(* saved in the task-state store.  The store may fail a save before or     *)
(* after writing it, and the process may crash between any two of these    *)
(* steps; the caller then resumes from load_state.                         *)
(***************************************************************************)
EXTENDS TaskLifecycle, Naturals, Sequences

CONSTANTS
  NoRecord,                 \* load_state answered None
  HookChain,                \* one set of vetoed <<operation, state>> pairs per control hook
  Decisions,                \* engine decisions: sequences of operations, <<>> is Noop
  HasStore,                 \* is a TaskStateStore configured?
  MaxEvents,                \* bound: operations applied in a behaviour
  MaxCrashes                \* bound: crashes in a behaviour

Pairs == Operations \X States

ASSUME RuntimeAssumption ==
  /\ NoRecord \notin States
  /\ HookChain \in Seq(SUBSET Pairs)
  /\ Decisions \subseteq Seq(Operations)
  /\ HasStore \in BOOLEAN
  /\ MaxEvents \in Nat
  /\ MaxCrashes \in Nat

VARIABLES
  env,                      \* lifecycle state of the caller's TaskEnvelope
  stored,                   \* lifecycle state in the store, or NoRecord
  pc,                       \* "idle", "apply" (next operation), "save"
  queue,                    \* operations of the current call still to apply
  outcome,                  \* how the last call returned
  log,                      \* RuntimeEvents the observers were told, in order
  epoch,                    \* crashes so far
  resumedAt                 \* state the envelope had when this epoch began

vars == <<env, stored, pc, queue, outcome, log, epoch, resumedAt>>

Outcomes == {"none", "noop", "acked", "blocked", "illegal", "save_failed", "engine_error"}

Events == [op : Operations, from : States, to : States, epoch : Nat]

\* The operations with a method of their own on DwRuntime.
DirectOperations == {"start", "step", "delegate", "complete", "fail"}

-----------------------------------------------------------------------------
Init ==
  /\ env = "created"
  /\ stored = NoRecord
  /\ pc = "idle"
  /\ queue = <<>>
  /\ outcome = "none"
  /\ log = <<>>
  /\ epoch = 0
  /\ resumedAt = "created"

\* Every operation of the call still fits under the bound on events.
Fits(ops) == Len(log) + Len(ops) <= MaxEvents

Begin(ops) ==
  /\ pc = "idle"
  /\ Fits(ops)
  /\ queue' = ops
  /\ pc' = "apply"
  /\ outcome' = "none"
  /\ UNCHANGED <<env, stored, log, epoch, resumedAt>>

Return(result) ==
  /\ pc' = "idle"
  /\ queue' = <<>>
  /\ outcome' = result

\* DwRuntime::start, step, delegate, complete and fail.
Call == \E op \in DirectOperations : Begin(<<op>>)

\* DwRuntime::tick with a decision that holds at least one operation.
Tick == \E ops \in Decisions : ops # <<>> /\ Begin(ops)

\* EngineDecision::Noop: no operation, no event, no save.
TickNoop ==
  /\ pc = "idle"
  /\ <<>> \in Decisions
  /\ Return("noop")
  /\ UNCHANGED <<env, stored, log, epoch, resumedAt>>

\* The engine refuses to decide (StaticEngine on an empty batch).
TickRefused ==
  /\ pc = "idle"
  /\ Return("engine_error")
  /\ UNCHANGED <<env, stored, log, epoch, resumedAt>>

\* Mutant: only the first control hook is asked.
PreHooksPassFirstOnly(op, current) ==
  HookChain = <<>> \/ <<op, current>> \notin HookChain[1]

\* run_pre_hooks: hooks are asked in order until one blocks.
PreHooksPass(op, current) ==
  \A i \in DOMAIN HookChain : <<op, current>> \notin HookChain[i]

\* The call returns HookError::Blocked; the rest of a batch is dropped.
HookBlocks ==
  /\ pc = "apply"
  /\ ~PreHooksPass(Head(queue), env)
  /\ Return("blocked")
  /\ UNCHANGED <<env, stored, log, epoch, resumedAt>>

\* The call returns CoreRuntimeError::IllegalTransition.
RejectOperation ==
  /\ pc = "apply"
  /\ PreHooksPass(Head(queue), env)
  /\ ~Applies(Head(queue), env)
  /\ Return("illegal")
  /\ UNCHANGED <<env, stored, log, epoch, resumedAt>>

RuntimeEvent(op) ==
  [op |-> op, from |-> env, to |-> TargetState(op, env), epoch |-> epoch]

\* run_post_hooks and notify_observers.
Notify(event) == Append(log, event)

\* Core apply_operation and the notifications.
ApplyOperation ==
  /\ pc = "apply"
  /\ PreHooksPass(Head(queue), env)
  /\ Applies(Head(queue), env)
  /\ env' = TargetState(Head(queue), env)
  /\ log' = Notify(RuntimeEvent(Head(queue)))
  /\ pc' = "save"
  /\ UNCHANGED <<stored, queue, outcome, epoch, resumedAt>>

\* Mutant: the batch loop runs once too often.
MoreOperationsOffByOne == Len(queue) >= 1

\* Does the batch hold an operation after the current one?
MoreOperations == Len(queue) > 1

\* state_store.save_state succeeded (or there is no store): go on with the
\* batch, or return the events.
SaveState ==
  /\ pc = "save"
  /\ stored' = IF HasStore THEN env ELSE stored
  /\ IF MoreOperations
       THEN queue' = Tail(queue) /\ pc' = "apply" /\ UNCHANGED outcome
       ELSE Return("acked")
  /\ UNCHANGED <<env, log, epoch, resumedAt>>

\* The `?` on save_state.
SaveError == "save_failed"

\* Mutant: a failed save rolls the envelope back to the stored state.
AfterFailedSaveRolledBack == IF stored = NoRecord THEN "created" ELSE stored

\* The envelope is left as the operation made it.
AfterFailedSave == env

\* save_state failed, before or after the backend wrote: the call returns the
\* error although the envelope has moved and the observers know.
SaveFails ==
  /\ pc = "save"
  /\ HasStore
  /\ stored' \in {stored, env}
  /\ env' = AfterFailedSave
  /\ Return(SaveError)
  /\ UNCHANGED <<log, epoch, resumedAt>>

\* Mutant: the task is started afresh although the store knows it.
LoadedStateFresh == "created"

\* load_state: the stored envelope, or a fresh Created one if there is none.
LoadedState == IF stored = NoRecord THEN "created" ELSE stored

\* The process dies in the middle of anything and the caller resumes.
CrashAndResume ==
  /\ epoch < MaxCrashes
  /\ epoch' = epoch + 1
  /\ env' = LoadedState
  /\ resumedAt' = LoadedState
  /\ Return("none")
  /\ UNCHANGED <<stored, log>>

Next ==
  \/ Call \/ Tick \/ TickNoop \/ TickRefused
  \/ HookBlocks \/ RejectOperation \/ ApplyOperation
  \/ SaveState \/ SaveFails
  \/ CrashAndResume

Spec == Init /\ [][Next]_vars

-----------------------------------------------------------------------------
TypeOK ==
  /\ env \in States
  /\ stored \in States \cup {NoRecord}
  /\ pc \in {"idle", "apply", "save"}
  /\ queue \in Seq(Operations)
  /\ (pc # "idle") => queue # <<>>
  /\ outcome \in Outcomes
  /\ log \in Seq(Events)
  /\ epoch \in Nat
  /\ resumedAt \in States

\* The state the observers believe the task is in: where the last event of
\* this epoch led, or where the epoch resumed.
ObservedState ==
  IF log # <<>> /\ log[Len(log)].epoch = epoch THEN log[Len(log)].to ELSE resumedAt

\* Observers never disagree with the envelope: replaying the events of the
\* current epoch from the resumed state, each starts where the previous one
\* ended and the last one ends where the envelope is, whatever batches,
\* vetoes, illegal operations and failed saves came in between
\* (apply_operation notifies after the change and only then saves).
ObserversTrackTask ==
  /\ env = ObservedState
  /\ \A i \in 1..Len(log) - 1 :
       log[i].epoch = log[i + 1].epoch => log[i].to = log[i + 1].from

\* The store is never ahead of the observers: a durable state is one some
\* event already announced (notify_observers comes before save_state).
StoreBehindObservers ==
  stored # NoRecord => \E i \in 1..Len(log) : log[i].to = stored

\* A call that returned its events has left the envelope in the store, for a
\* batch as for a single operation (save_state's error is propagated).
AckedIsDurable ==
  HasStore /\ outcome = "acked" => stored = env

\* Hooks are consulted for every operation, those inside an engine batch and
\* those after a resume included: no event for a vetoed operation exists.
HookAuthority ==
  \A i \in 1..Len(log), h \in DOMAIN HookChain :
    <<log[i].op, log[i].from>> \notin HookChain[h]

\* A finished task stays finished: once a terminal state is durable neither
\* an operation, a failed save nor a crash and resume changes either copy.
FinishedStaysFinished ==
  [][(stored \in Terminal) => (env' = stored /\ stored' = stored)]_vars

\* The kernel implements the record of the task: the envelope moves only
\* along the table, the store only receives the envelope, a resume only
\* brings back the stored state.
Record == INSTANCE TaskRecord WITH live <- env, durable <- stored
ImplementsTaskRecord == Record!Spec
=============================================================================
