----------------------------- MODULE WorkerTools -----------------------------
(* The contract between a coordinator and the workers it may call as tools:
   the registry built from an application's routing configuration
   (CallableWorkerRegistry), the handoff envelope built from a tool call
   (start_worker_tool_handoff) and the checks both directions go through
   (validate_handoff, validate_worker_tool_result).

   Ids the code concatenates are tuples: a subtask id is <<run, tool>> and a
   correlation id is <<run, tool, call>>.  The free text of an envelope (goal,
   context, permissions, deadline) is one Boolean, filled.                  *)
EXTENDS Naturals, Sequences

\* An agent id left out of the configuration, or blank.
NoAgent == ""

\* What from_routing answers for a routing configuration: workers is the list
\* of callable tools, routes the stated routes, arrows the "from->to" strings.
RoutingErrors(routing) ==
  (IF routing.workers = <<>> THEN {"NoCallableWorkers"} ELSE {}) \cup
  (IF \E i, j \in DOMAIN routing.workers :
        i < j /\ routing.workers[i].tool = routing.workers[j].tool
   THEN {"DuplicateToolId"} ELSE {})

AllowedRoutes(routing) ==
  {<<route.from, route.to>> : route \in {stated \in routing.routes : stated.allowed}}
    \cup routing.arrows

Registry(routing) ==
  [tools |-> [name \in {routing.workers[i].tool : i \in DOMAIN routing.workers} |->
                routing.workers[CHOOSE i \in DOMAIN routing.workers :
                                  routing.workers[i].tool = name]],
   routes |-> AllowedRoutes(routing),
   coordinator |-> routing.coordinator,
   finalizer |-> routing.finalizer]

Callable(registry, tool) == tool \in DOMAIN registry.tools

\* An explicit route, or the coordinator's call of a registered worker when no
\* route is allowed explicitly.
IsRouteAllowed(registry, source, target) ==
  \/ <<source, target>> \in registry.routes
  \/ /\ registry.routes = {}
     /\ registry.coordinator = source
     /\ \E tool \in DOMAIN registry.tools : registry.tools[tool].target = target

\* The agent that has to compose the final response.
ExpectedFinalizer(registry) ==
  IF registry.finalizer # NoAgent THEN registry.finalizer ELSE registry.coordinator

-----------------------------------------------------------------------------
(* Handoffs and results.                                                   *)

Envelope(registry, run, source, tool, call, filled) ==
  [subtask |-> <<run, tool>>, correlation |-> <<run, tool, call>>,
   source |-> source, target |-> registry.tools[tool].target, tool |-> tool,
   schema |-> registry.tools[tool].output, filled |-> filled]

\* validate_handoff: the tool, its target, the route and the output schema.
ValidateHandoff(registry, envelope) ==
  /\ Callable(registry, envelope.tool)
  /\ registry.tools[envelope.tool].target = envelope.target
  /\ IsRouteAllowed(registry, envelope.source, envelope.target)
  /\ registry.tools[envelope.tool].output = envelope.schema

\* Mutant: the correlation id of a result is not compared.
ValidateResultOfSubtask(envelope, result) ==
  /\ result.filled
  /\ result.subtask = envelope.subtask
  /\ result.source = envelope.target
  /\ result.target = envelope.source
  /\ result.tool = envelope.tool
  /\ result.schema = envelope.schema

\* validate_worker_tool_result; its status is only required to be there.
ValidateResult(envelope, result) ==
  /\ result.filled
  /\ result.subtask = envelope.subtask
  /\ result.correlation = envelope.correlation
  /\ result.source = envelope.target
  /\ result.target = envelope.source
  /\ result.tool = envelope.tool
  /\ result.schema = envelope.schema
=============================================================================
