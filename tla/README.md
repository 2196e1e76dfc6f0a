# greentic-dw in TLA+

A verification project for greentic-dw, the Digital Worker runtime and its tools: TLA+ modules
that model the core of the system, TLC configurations that check them on small instances, and
proofs that TLAPS checks for every instance.  Paths below are relative to `src/`; `PROJECT.json`
maps every definition to the lines it models and lists the hazards each property is for.

Contents: [1 The system](#1-the-system) · [2 The modules](#2-the-modules) ·
[3 The runs](#3-the-runs) · [4 The proofs](#4-the-proofs) ·
[5 Where code and documentation disagree](#5-where-code-and-documentation-disagree) ·
[6 What is not modelled](#6-what-is-not-modelled) · [7 Plan](#7-plan)

## 1 The system

A Digital Worker carries out tasks.  A *kernel* moves a task along its lifecycle, asking hooks and
telling observers, and gives its caller two tiers of *memory*.  On top of it, a *deep loop* lets
model-backed providers plan, act, review and delegate, with a *workspace* for their artifacts and
compressed contexts; a *coordinator flow* calls other workers as tools.  An *invoker* wires the deep
loop for one request of the designer and a *bridge* serves such requests from a message bus.  Before
any of that, a *wizard* asks for the answers a worker is made of, a *composition* shares providers and
packs between agents, and a *pack builder* collects their assets into an archive; `worker` commands
scaffold and build packs from specs.

| Component | State it keeps | Operations | Hard about it | What makes it correct |
|---|---|---|---|---|
| Task lifecycle: `greentic-dw-types/src/task.rs`, `greentic-dw-core` | the task's state | eight operations | operations that aim at the current state apply even in a terminal one | a finished task stays finished |
| Kernel: `greentic-dw-runtime/src/runtime.rs`, `greentic-dw-engine`, `PackIntegration` of `greentic-dw-pack` | envelope, task-state store, what observers were told | five direct calls, `tick` with engine decisions, `load_state` | batches cut short, saves that fail after the envelope moved, crashes between notice and save | envelope, observers and store never contradict each other; vetoes hold everywhere |
| Memory: `greentic-dw-runtime/src/{memory,capability}.rs` | external stores, a list of bindings | remember and recall of either tier | both tiers dispatch through one list of bindings; writes fail before or after they take effect | a tier answers with what was written to it |
| Deep loop: `deep_loop.rs`, `step_executor.rs`; planning: `greentic-dw-planning*` | plan, artifacts, subtasks, tool budget, task | `DeepLoopCoordinator::run` | providers may answer anything or fail anywhere; steps are revisited; runs are repeated | what is reported agrees with plan, task and subtasks; budgets hold; the run ends |
| Coordinator flow: `coordinator_flow.rs`, `coordinator_planner.rs`, `worker_tool_*.rs`, `final_response.rs` | invocations, results, events | `run_agentic_coordinator_flow` | a result provider that mixes up calls and flows; failing workers | a result is only taken for the call it answers; the final response is backed by results |
| Tool executor: `greentic-dw-operala-invoker/src/executor.rs` | cache, budget, conversation | `execute_step`, `resolve_call` | repeated calls, failures that look like successes, a budget that runs low | side effects happen once; calls are charged exactly; conversations end |
| Invoker: `greentic-dw-operala-invoker/src/{lib,settings,guards,reply}.rs` | one dispatch | `invoke` | a model that plans or reviews against its settings | nothing is delegated unless it may be; the outcome tells the task's fate |
| Bridge: `greentic-dw-operala-bridge`, `greentic-dw-cli/src/serve.rs` | subscription, handlers, blocking threads | receive, handle, publish, stop | concurrent handlers, several servers, stop signals, kills, restarts, runs that never end | answers belong to their requests, go out at most once, and slow runs hold up nobody else |
| Workspace: `greentic-dw-workspace*`; context: `greentic-dw-context*` | artifacts, versions and links; a counter per provider | create, update, read, list, link; build, compress, summarise | callers and threads share a store; a number is drawn outside the lock | what a caller was told stays true; no provider loses a context to itself |
| Composition: `greentic-dw-types/src/{resolver,composition,pack_spec,bundle_plan}.rs` | shared list of packs with two indexes, bindings, requirements | `resolve`, `to_application_pack_spec`, `to_bundle_plan` | agents share packs in any order, ids of two kinds coincide | every pack serves exactly the agents that need it; nothing required is forgotten |
| Pack builder: `greentic-dw-pack-builder` | assets attached so far, stores asked | `build_dw_pack_with_options`, five suppliers | stores that fail while others lack the asset | an archive is complete or not written; a failure is never called a missing asset |
| Wizard: `greentic-dw-cli/src/wizard.rs`; `qa.rs`, `review.rs`, `template*.rs`, `provider_catalog.rs`, `source_ref.rs` of `greentic-dw-types`; `greentic-dw-manifest` | the answer document | `run_wizard`: flags, document, template, questions, validation, review, replay | four places for an agent's answers, five sources of a field, questions made before the answers that decide them | no answer is lost or changes hands; a printed document repeats the run |
| Worker packs: `greentic-dw-cli/src/worker.rs` | files | init, validate, build, new | a build of several steps that each may fail; names that exist in two directories | a pack holds what its spec says; a build touches only its own files |
| Reflection and delegation: `greentic-dw-{reflection,delegation}*` | none | review; choose, start, merge | anything a model may answer | part of the loop, the flow and the invoker |

How they interact:

    wizard --answers--> composition --spec--> pack builder --> suppliers, archive
    Wizard              Composition           PackBuild
    worker build --> packer, files                                  WorkerPacks

    bus --> bridge --spawn--> invoke --blocking thread--> deep loop --> kernel --> hooks, observers, store
            OperalaBridge     DeepWorkerInvoke            DeepLoop      DwRuntime \--> memory tiers
                                                           |  |                       RuntimeMemory
                                                           |  \--> planner, reflector, delegator,
                                                           |       workspace <-- context providers
                                                           |       Workspace
                                                           \--> step executor --> host tools
                                                                ToolExecutor
    coordinator flow --> delegator, workers, observers          CoordinatorFlow

Calls are synchronous within a deep loop or a flow.  Concurrency is between the handlers of a
bridge (one tokio task per message, one blocking thread per run), between servers of one subject,
between flows that share a runtime, and between threads and callers that share a workspace.  The
kernel's state survives a crash through its store, memory records through theirs, and the files of
the wizard and of `worker` from one command to the next; nothing else is persisted.

## 2 The modules

Every module but the abstract ones translates source.  A comment at its head names the files; every
action carries the name of the function or the branch it models, and mutants (`...Inclusive`,
`...Stale`, ...) stand before the definition they vary.

| Module | Models | Builds on |
|---|---|---|
| `TaskLifecycle` | states, transition table, operations | |
| `TaskRecord` | *abstract*: one task with a live and a durable copy | `TaskLifecycle` |
| `DwRuntime` | the kernel | `TaskLifecycle`; implements `TaskRecord` |
| `RuntimeMemory` | the memory methods of the kernel, between its calls | extends `DwRuntime` |
| `PlanSteps` | `record_step_result`, `evaluate_completion`, plan validation, as operators | |
| `DeepRun` | *abstract*: what a run of the deep loop promises its caller | `TaskLifecycle` |
| `DeepLoop` | `DeepLoopCoordinator::run` | `TaskLifecycle`, `PlanSteps`; implements `DeepRun` |
| `WorkerTools` | registry, routes, handoff and result checks, as operators | |
| `CoordinatorFlow` | `run_agentic_coordinator_flow`, several at a time | `WorkerTools` |
| `ToolExecutor` | `LlmToolStepExecutor` over the steps of one invoke | |
| `Workspace` | the in-memory artifact store and context providers on it | |
| `DeepWorkerInvoke` | `invoke` | composes `DeepLoop` (`INSTANCE ... WITH`) and `PlanSteps` |
| `OperalaBridge` | `run_bridge`, `handle_message`, `serve` | `invoke` by its outcomes |
| `Composition` | `resolve`, `to_bundle_plan` | |
| `PackBuild` | `to_application_pack_spec` and the pack builder | extends `Composition` |
| `TemplateSources` | paths, template catalogs and references to descriptors | |
| `WizardQuestions` | question blocks, visibility, scopes of answers, as operators | |
| `WorkerManifest` | validation of a manifest, scope resolution, the task of a request, as operators | |
| `Wizard` | `run_wizard` and the replay of its document | the three above, `TaskLifecycle` |
| `WorkerPacks` | `worker init`, `validate`, `build`, `new` | `TemplateSources` (paths) |
| `Cli` | the dispatch of `greentic-dw` | composes `Wizard` and `WorkerPacks` |
| `MC*` | instances for TLC | the module they are named for; `MCDispatch`: `ToolExecutor` and `Workspace` |
| `*Proofs` | lemmas, theorems and proofs | the module they are named for; `DispatchProofs`: `ToolExecutor` and `Workspace`; `InvokeProofs`: `DeepWorkerInvoke`; `CliProofs`: `Wizard`, `WorkerPacks` and `Cli` |

How state and actions correspond to the code:

* **DwRuntime.** `env` is the state of the caller's `TaskEnvelope`, `stored` that of the
  `TaskStateStore`, `log` the `RuntimeEvent`s observers were told, `queue` what is left of a batch.
  `Begin`/`Tick`/`TickNoop`/`TickRefused` enter `apply_decision`; each operation is then
  `HookBlocks`, `RejectOperation` or `ApplyOperation` (core, post-hooks and observers at once: they
  are one synchronous stretch without an error path) followed by `SaveState` or `SaveFails`.  A
  failed save may or may not have reached the backend.  `CrashAndResume` may fall between any two.
* **RuntimeMemory.** `wiring` says which extensions the runtime was built with and in which order
  its capabilities are bound; `stores` are the external records, which outlive a crash.  `Remember`
  and `Recall` are one call each, whose ends are the errors of `memory.rs`: not wired, denied by the
  policy (which sees the task's state), no binding, the backend's failure, a reply that does not
  parse.  `possible` is a history: what a tier may hold, failed writes included.
* **DeepLoop.** `phase` is the program counter of `run`; one action per provider call or kernel
  operation, so that an error may fall between any two.  A planner answers with any non-empty list
  of known steps (`SelectActions`) or with nothing (`PlannerIsDone`); reviews answer any verdict;
  `ProviderFails`, `KernelRefuses`, `HandoffAnswerLost` and `ArtifactCollides` are the error paths,
  all of which drop the run (`Abort`) as the code's `?` does.  `RunAgain` is the caller.  The
  kernel is used by its contract, one operation at a time, with vetoes and failing saves; that the
  kernel keeps it is what `DwRuntime` checks.
* **CoordinatorFlow.** Concatenated ids are tuples.  A result carries a ghost field `answers`, the
  subtask it was made for, which no check of the code reads.
* **ToolExecutor.** A call is its cache key; the host answers done, failed (an `Ok` with an error
  in it) or unreachable.  `effects` counts how often a call reached its tool.
* **Workspace.** A call of the store holds its lock from beginning to end, so it is one action
  (`Create`, `Update`, `Read`, `List`, `Link`).  A thread that compresses or summarises takes several:
  `Begin` asks the model, `DrawId` takes the provider's next number once the model has answered (or
  `ModelFails`), `WriteArtifact` creates the artifact of that number.  `seen`, `author` and
  `collisions` are histories for the properties.
* **DeepWorkerInvoke.** The variables of `DeepLoop` beside `stage` and `outcome`; the settings
  decide the constants the loop is instantiated with (`DelegatesKept`, `WiredVerdicts`,
  `Resolved.max_iterations`), as they decide its wiring in the code.
* **OperalaBridge.** `handler[s][m]` is where server `s` is with message `m`; a server's tasks
  share nothing but the pool of blocking threads.  A plain subscription gives every serving server a
  copy.  `StopSignal` drops every task at its next await (`Dropped`), which a running loop survives
  as an orphan; `Exit` waits for it; `Crash` does not.  Broker, client and tokio are external and
  modelled by how the code uses them.
* **Composition.** The three nested loops of `resolve` are the positions `agent`, `capability` and
  `pack`; `dependencies`, `provider_index` and `support_index` are the list and the two maps into
  it.  Lists whose order and repetitions nothing reads are sets.
* **PackBuild.** `Materialize` turns a resolved composition into a spec.  For each declared asset the
  chain asks one supplier after the other: `Supplied`, `NotFound`, `IoContinues` (the failure is
  remembered), `SupplierFails`, `Exhausted`; only then `WriteArchive`.  A supplier is its kind, the
  store behind it and what it looks an asset up by (id or path).
* **Wizard.** `phase` follows `run_wizard`: start, template, providers, overrides, mode, topology,
  questions, fields, build, emit, output, done or failed.  A key of the answers is a name and whom it
  is scoped to (everyone, the n-th agent, an agent's id); `todo` is the list of blocks made before
  the first answer, `told` a history of what the user said.  `Replay` is a second run on the document
  that a dry run printed, without flags and questions.
* **WorkerPacks.** `disk` maps paths to files.  A command is `Begin` and its steps (`LoadSpec`,
  `CheckSpec`, `ReadDocument`, `AssemblePack`, `FinalizePack`; `Scaffold`; `Explain`), each of which
  ends it with an error where the code returns one; `before` is the disk the command met.

## 3 The runs

All passing runs end within a minute or so.  Deadlock is checked in every one but `wizard` (and
`starter_catalog`), whose programs end: the other modules have a disjunct for the states in which the
program is done (`Terminating`, `Returned`, `Quiet`, `Finished`, `InvokeEnds`, `BoundReached`), and
any other state without a step is reported.

| Run | Instance | What it shows |
|---|---|---|
| `kernel` | `RuntimeMemory`: two hooks with one veto each, ten decisions (no-op, single operations, legal and illegal batches), 3 events, 2 crashes; three wirings, 2 memory calls | observers can replay the envelope's history (`ObserversTrackTask`), vetoes hold in batches and after resumes (`HookAuthority`), `FinishedStaysFinished`, the kernel implements `TaskRecord`, and each tier answers for itself (`TiersAnswerForThemselves`) |
| `deep_loop` | a step and a Delegate step that depends on it, three initial plans, entry in Created or Delegated, 3 iterations of 2 actions, two runs on one task and workspace, one veto, failing store | reports agree with the delegator, the plan and the task, in the second run too; budgets hold; artifact ids collide only in a second run; a planned handoff is only made on a Delegated task; nothing is left Pending behind satisfied dependencies; only an error reopens a completed step; the run ends; it implements `DeepRun` |
| `coordinator_flow` | two flows, two workers, five routings, eight requests, a provider that answers with any result of any call, complete or not | results answer their calls, final responses are backed, observers follow the flow, nobody gets stuck |
| `tool_executor` | `MCDispatch`, the tools: two calls, three steps, up to two calls per answer, a budget of 9; or the workspace: two context providers, two threads, other callers, 5 calls | a call reaches its tool once, the budget counts exactly the host's calls, a conversation is bounded; versions that somebody was told of stay (`WhatWasToldStays`), and `ProvidersDoNotCollideWithThemselves` |
| `invoke` | reflection on and delegation off, a Delegate step in the plan, budget 3 | nothing is delegated, and `ok` is said exactly of completed tasks |
| `bridge` | two servers (symmetric), two messages, one thread each, one stop or kill each, restarts | answers are true, go out at most once per delivery, and only stops lose requests |
| `bridge_live` | one server, two threads, three messages, any of which may run for ever | everybody else is served unless such runs hold the whole pool |
| `composition` | `MCPackBuild`: every request of up to two agents over 72 templates, three agents over 6, a provider outside the catalog, a support pack with a provider's id; a few of them packed with three additions over twelve chains of stores | packs serve their agents, nothing required is forgotten, the bundle has exactly what is needed; an archive is complete or not written, and `NotFoundIsTrue` |
| `wizard` | `Cli`: three templates (for several agents with one provider for two capabilities, with a setup, for one agent), four documents, some 150 command lines, every answer of the user; or two worker commands on the same files | answers keep their precedence, their agents and their values, setup questions follow the providers, a printed document repeats its request; packs hold what their specs say, builds touch only their own files |
| `handoff_authority`, `disallowed_routes`, `starter_catalog` | the instances above (`handoff_authority` with one run of two iterations) | see section 5 |

`ToolExecutor` and `Workspace`, and `Wizard` and `WorkerPacks`, share no variable: they run side by
side in one instance each, and a behaviour exercises one of the two.

**Bounds and why they are enough.**  `MaxEvents` 3 lets a batch of two be interrupted and continued
after a resume, and a second crash follow; the table's longest way to a terminal state takes three
operations.  `MaxAccesses` 2 is a write and a read, of either tier, with the kernel's steps and
crashes before and between them.  Three iterations of two actions let a step be revisited within an
answer and across answers, its dependents be promoted, and a subtask be handed off before, between and
after other steps; a budget of 9 then is smaller than two reports of 5 or one of 8 and one more, so
charging is cut off; two runs let a second one meet what the first left.  Two flows over two
workers are the least in which a result can be mixed up with another call of the same worker, of
another worker and of another flow.  Three steps under a total of 9 and a cap of 6 have a step with
the full grant, one with what is left and one with none.  `MaxCalls` 5 is a context built by either
provider, each compressed by a thread of its own, and a read; or a create, two updates, a link and a
list.  Two servers and two messages have every interleaving of two handlers and every crash between
two steps; what a third message adds is a queue behind a full pool, which `bridge_live` has.  Two
agents share a pack in either order; three are the least in which one that does not need it comes in
between.  Chains of up to three stores have a failing one before, between and after stores that have
or lack the asset.  `MaxCommands` 2 is a build and the build, validation or scaffold after it, on what
the first left behind.  The wizard needs no bound: its questions are finitely many.

**Fairness.**  `DeepLoop!FairSpec` has weak fairness of `RunStep`: `run` is a sequential function
whose providers return, so it takes its next step; `RunAgain` is the caller's choice and not fair.
`OperalaBridge!FairSpec` has weak fairness per task: the scheduler runs every task that can take a
step, each handler and the receiving loop on its own, and a run that is not slow returns, which is
`RunReturns` of the deep loop.  Nothing makes a server start, a client send, or a slow run end.

## 4 The proofs

TLAPS checks all of them; the assumptions are the named `ASSUME`s of the modules, which TLC
evaluates on every instance it checks.  Where a theorem states a property of a run, the run shows it
on the instance above and the theorem for every value of the constants.

* **`DwRuntimeProofs`** (`RuntimeAssumption`: hooks, decisions and bounds are of their types;
  `MemoryAssumption`).  `KernelInv` adds to the properties what happens between notice and save
  (`SavingWhatWasAnnounced`: in `pc = "save"` the last event led to the envelope), that no event is
  of an epoch to come, and that an envelope whose durable copy is terminal is that copy
  (`DurableTerminal`).  Without them a failed save or a resume could start from a state that the
  properties alone do not exclude.  Theorems: `TypeCorrect`, `ObserversAndStore`, `VetoesHold`,
  `Finished` (an action property), `RecordRefinement` (every step is a step of `TaskRecord` or a
  stutter).  `MemoryLeavesTheKernelAlone` carries all of them over to the kernel with its memory
  (`MemorySpec => Spec`).  `TiersKeepApart` is proved of wirings that give the two tiers different
  stores (`Separate`): nothing in the code prevents a list that binds both tiers to one provider, and
  whether that one keeps their records apart is its own matter.  `MemoryInv` says that every store holds, under each
  query, something its tier may hold (`StoresAnswer`).
  Under all of it lie two facts about the table: no transition leaves a terminal state, and an
  operation that applies follows the table or keeps the state.
* **`DeepLoopProofs`** (`DeepLoopAssumption`: any plan whose steps depend on other steps of it, in
  cycles or not, and any budget).  `LoopInv` joins twelve named parts; the strengthenings are that
  what is emitted was started in this run (`EmittedIsStarted`), artifact numbers stay below `seq` in a
  first run (`FreshIds`), the task is Delegated wherever a planned subtask is about to start, no
  subtask is out where the plan is judged, and a step under review has its artifact.  Theorems:
  `LoopTypeCorrect`, `ReportsAreTrue`, `BudgetsHold`, `FirstRunsDoNotCollide`, `StepsAreDoneInOrder`,
  `PromotionsAreComplete`, `CompletedStepsStay` (action property) and `RunRefinement` (the loop
  implements `DeepRun`).
* **`CoordinatorFlowProofs`** (`CoordinatorFlowAssumption`: flows have different run ids, a request
  has finitely many calls).  `FlowInv` adds that the delegator's subtasks are calls of flows that
  have begun (`SubtasksAreCalls`), that a flow's handoffs are calls the delegator has, and what a
  completed flow owes its caller; the argument is that a correlation id, made of run, tool and
  position, tells the call (`EnvelopeOf`).  `ObserverInv` says for every phase how far the story of
  a flow has been told (`Told`) and that every subtask is counted once in it (`Counted`).  Theorems:
  `FlowTypeCorrect`, `ResultsReachTheirCalls`, `ResponsesAreBacked`, `ObserversHearEverything`.
* **`InvokeProofs`** (`InvokeAssumption`: any settings, any of the plans `invoke` may start from).
  The loop's proofs are instantiated with the constants that the settings decide;
  `WiringMeetsAssumption` shows that these satisfy `DeepLoopAssumption`, so that a dispatched run is a
  run of the loop (`DispatchRunsTheLoop`), an implementation of `DeepRun` (`DispatchIsADeepRun`), and
  every theorem of the loop holds of it.  `InvokeInv` joins `LoopInv` with what only this wiring
  gives: the plan is the engine's (`EngineSteps`), task and plan complete together
  (`CompletedTogether`), the list of steps is the whole plan (`ListIsWhole`), and with delegation off
  no subtask starts, no step is offered for a handoff and no review delegates; `StagesFollow` ties
  the stage of `invoke` to the loop's phase.  Theorems, beside the two named: `DelegationStaysOff`
  (`NothingIsDelegated`), `OutcomesAreTrue` (`OutcomeTellsTheTask`), `DispatchTypeCorrect`.
* **`DispatchProofs`**, for the tools (`ToolExecutorAssumption`).  `ExecutorInv` adds that the grant
  fits in what the run has left, that a call that reached its tool is in the cache, and that rounds
  stay within their limit while tools are offered.  Theorems: `ExecutorTypeCorrect`,
  `SideEffectsAreNotRepeated`, `BudgetTellsTheCalls`, `ConversationsEnd`.  For the workspace
  (`WorkspaceAssumption`: callers are not providers), `NumbersAreDrawnOnce` adds that the numbers a
  provider has drawn lie below its counter, that no two threads hold the same one, and that no
  artifact of the provider has one that is still held; without it a write between another thread's
  draw and its write could not be excluded.  `ToldInv` adds that an artifact's versions are numbered
  from 1 without a gap and its body is that of the last.  Theorems: `ProvidersKeepTheirContexts`,
  `VersionsAreForever`.
* **`CliProofs`**, for `worker` (`WorkerAssumption`: the first files lie in known directories, a
  spec's documents are a list and its pack has a name; a command has at most one file and one
  `--out`).  `WorkerInv` says for every step of the command at hand what it has read
  (`SpecFollowsStep`, `DocumentsFollowStep`), what it has assembled (`PackFollowsStep`), and that the
  disk is the one it met until it writes (`UntouchedSoFar`); a file of a spec's directory is told from
  every other by its path alone.  Theorems: `PacksAreComplete` (`PacksHoldWhatTheSpecSays`),
  `BuildsStayInTheirDirectory` (`BuildsTouchTheirOwnFiles`).
* **`CliProofs`**, for the wizard (`WizardAssumption`: answer documents and command lines are maps of
  their kinds, design answers are under keys and an `agent_count` among them is a number, catalogs
  are lists of entries and what templates and entries list are lists; `CwdAssumption`: the working directory is an absolute path).
  `WizardShaped` says that the command line, the document and the printed one are of these shapes;
  with it `AnswersStep` goes through every way a document changes, and `AnsweredOnce`
  (`AnswersAreKept`, an action property) follows.  `Precedence` relates the document to the flags and
  the file phase by phase, because the file's values are only there once it is read and a flag's only
  once it is applied; theorem `PrecedenceIsKept`.  `ReplayIsFaithful` is about two runs.  `RunInv`
  says of the first that what it has settled would be settled the same way again: the template has no
  defaults left to give (`TemplateFollows`), the providers are those its flags load
  (`ProvidersFollow`), the worker is valid (`WorkerFollows`) and the output is that of the document
  (`OutputFollows`).  `ReplayInv` says of the second that it is on the printed document, meets the
  same template and providers, and can only fail where a write fails.
  Validation and template defaults go over lists of any length; where the model folds, the proof
  takes the table of partial results and the least place where a claim about it would fail, which
  needs no induction scheme.
* **`CliProofs`**, for the wizard's questions.  `QuestionsInv` adds to `RunInv` that the document is
  keyed (`Keyed`), the template and the catalogs at hand are such as were read (`CatalogsRead`), a
  question still to be asked is for everyone or, with several agents, for one of them
  (`QuestionsWait`), and what the user said is in the document under the key it was asked for
  (`ToldIsStored`).  The number of agents must not change between a question and its answer, and the
  invariant owes this to the order of the wizard's steps: the topology is asked before the list of
  questions is made.  That the list is as `QuestionsWait` says goes through `build_question_assembly`
  block by block (`RawBlocks`), on lemmas about lists: of concatenating, mapping, filtering
  (`Matching`) and flattening them the order is forgotten and the elements are known.
  `AgentsAreAnswered` (`AgentsGetTheirOwnAnswers`) then follows the layers of an agent's answers from
  the top (`NumberedLayer`, `LowerLayers`); `SetupFollowsProviders`
  (`SetupQuestionsFollowTheProviders`) counts an agent's copies of a setup question by a bijection
  between the numbers and the agents.
* **`OperalaBridgeProofs`** (`BridgeAssumption`: any number of servers, messages, threads, stops).
  `BridgeInv` adds that a response's handler is answered (`ResponsesAreSettled`, so it cannot answer
  again), that a run that is on or came out well has begun, and that a server which is not serving
  was stopped.  Theorems: `BridgeTypeCorrect`, `ResponsesTellTheTruth`, `OneAnswerPerDelivery`,
  `BadRequestsHarmNobody`.
* **`CompositionProofs`** (`CompositionAssumption`: any catalog, any number of agents with distinct
  ids; `PackAssumption`: chains and additions are lists, suppliers of the known kinds).  That an index
  leads to the entry of its pack is not inductive by itself; `ListInv` adds the converse
  (`EntriesAreIndexed`: every entry is the one its own index leads to and serves somebody), without
  which a second entry of a pack could not be excluded.  `Covered` says that the agents left behind
  are settled by what is recorded and the agent at hand by what is being gathered.  `PackInv` says
  where a search stands (`Searching`: a chain without a failure so far has asked only stores that
  lack the asset), where each entry came from (`AttachedSoFar`) and that the spec declares a path for
  every agent (`Declares`).  Theorems: `CompositionTypeCorrect`, `PacksAreFound`,
  `PacksServeTheirAgents`, `EverythingIsAccountedFor`, `BundleIsRight`, `PackingResolves`
  (`PackingSpec => Spec`, so these hold with a build as well), `WrittenArchivesAreComplete`,
  `NotFoundTellsTheTruth`.

Model-checked only: liveness (`RunReturns`, `OthersAreServed`), which is beyond the prover.  Every
invariant and every action property of the runs is proved, and `DeepRun` is implemented by the loop
and by `invoke` for all constants.  The type invariants of the modules are proved; only the kernel's
is listed in a run besides.

## 5 Where code and documentation disagree

Each of three runs is *meant* to find its property violated: the property states a sentence of the
documentation, the module what the code does.

* `handoff_authority`: a review's Delegate verdict starts a subtask without `runtime.delegate`
  (`deep_loop.rs:343`): no hook is asked and the task stays Running, although
  `docs/deep-agents/design-principles.md:5` says the new families do not bypass runtime authority.
* `disallowed_routes`: a configuration that only states disallowed routes leaves none, and with none
  `is_route_allowed` (`worker_tool_registry.rs:147`) lets the coordinator call every registered
  worker, although `docs/deep-agents/aw-reuse-architecture.md:61` has the registry reject them.
* `starter_catalog`: a catalog at a relative path with a directory in it is rebased onto that
  directory (`template_catalog.rs:92`, 220-236) and its references are joined to the canonical
  directory once more (189-200), so no template of it is found; `README.md:265-273` tells users to
  use the starter catalog exactly so.  The tests use absolute paths.

Seen while modelling and kept in the models without a run of their own: the planner may name a step
that is not ready (`contracts-overview.md:25`), Retry is taken like Accept (`migration.md:17`), a
session id in the input is never preferred over the idempotency key (bridge `lib.rs:86`), and
`resolve_call` keeps every `Ok` (`executor.rs:166`), a tool's own failure included, although
`executor.rs:109` speaks of successful results.

## 6 What is not modelled

* Prompts, JSON extraction, wording of replies and logs: what a model writes is a free choice among
  what its validation accepts, and an error.
* `merge_result` of the delegator (nothing in the runtime calls it), the health probe of `serve`,
  which keeps no state, and the CBOR sections of a pack.
* Of the manifest, the conversion of legacy documents and the JSON schema; of the wizard,
  summaries, translations and help texts; of template and provider catalogs, the parsing of
  descriptors beyond whether a file holds one, and the references that are not files, which the code refuses or leaves to a download.
* Of the workspace, checks for empty names, titles and relations, clocks and checksums, a poisoned
  lock, and the overflow of a `u32` version after four thousand million updates.
* Of the pack builder, the archive format, signatures and timestamps (an external writer's), and a
  chain inside a chain.  What the packer of `worker build` makes of a spec is external too.
* Broker, NATS client and tokio, which appear as far as `src` relies on them; the test harness,
  fixtures and benches, read for what they promise of the components.

## 7 Plan

Done: kernel and memory, deep loop, coordinator flow, tool executor, workspace and context, invoker,
bridge, composition and pack builder, wizard and worker packs; the abstract `TaskRecord` and
`DeepRun`; the proofs of section 4.

Left:

1. `Delegation`: `merge_result` with its validations, once the runtime calls it, and with it a
   repeated flow under one run id, which draws the same correlation ids again
   (`coordinator_flow.rs:97`).
2. The loop's artifacts as an abstraction of `Workspace`, so that `FreshIds` of the loop and
   `NumbersAreDrawnOnce` meet in one composition.
3. The legacy conversion of manifests, against a reference definition.
