--------------------------- MODULE CoordinatorFlow ---------------------------
(* The agentic coordinator flow (greentic-dw-runtime, coordinator_flow.rs,
   coordinator_planner.rs, final_response.rs): a planner turns a user request
   into a list of worker-tool calls; for each in turn the flow hands a subtask
   to the delegator, asks the result provider for its result and checks it;
   then the final response is composed from the results.  Flows run on several
   threads over one runtime, delegator and provider, and the provider may
   answer with the result of another call or flow.                          *)
EXTENDS WorkerTools, FiniteSets

CONSTANTS
  Flows,                    \* the flows in flight
  RunOf,                    \* their run ids
  Routings,                 \* routing configurations a runtime may be given
  Requests,                 \* what a planner may ask for
  DelegatorMayFail          \* may start_subtask and the provider fail?

\* A runtime without a registry refuses like one that knows no tool.
Unconfigured == [workers |-> <<>>, routes |-> {}, arrows |-> {},
                 coordinator |-> NoAgent, finalizer |-> NoAgent]

ASSUME CoordinatorFlowAssumption ==
  /\ \A f, g \in Flows : RunOf[f] = RunOf[g] => f = g
  /\ \A asked \in Requests : asked # <<>> /\ Len(asked.tools) \in Nat
  /\ DelegatorMayFail \in BOOLEAN

VARIABLES
  routing,                  \* the configuration the runtime was built from
  request,                  \* the request every flow carries out
  phase,                    \* where every flow is
  handoffs,                 \* invocations: envelopes of the calls made
  results,                  \* worker_results: results accepted
  subtasks,                 \* what the delegator was given, by flow
  events,                   \* observer events of every flow
  sources                   \* sources of the final response

vars == <<routing, request, phase, handoffs, results, subtasks, events, sources>>

registry == Registry(routing)

Phases == {"idle", "calling", "waiting", "completed", "failed"}

Init ==
  /\ routing \in {Unconfigured} \cup {r \in Routings : RoutingErrors(r) = {}}
  /\ request = [f \in Flows |-> <<>>]
  /\ phase = [f \in Flows |-> "idle"]
  /\ handoffs = [f \in Flows |-> <<>>]
  /\ results = [f \in Flows |-> <<>>]
  /\ subtasks = {}
  /\ events = [f \in Flows |-> <<>>]
  /\ sources = [f \in Flows |-> <<>>]

Goto(f, p) == phase' = [phase EXCEPT ![f] = p]

Notify(f, names) == events' = [events EXCEPT ![f] = @ \o names]

Fail(f) ==
  /\ Goto(f, "failed")
  /\ UNCHANGED <<routing, request, handoffs, results, events, sources>>

-----------------------------------------------------------------------------
(* One flow.                                                               *)

Acceptable(f, asked) ==
  RunOf[f] # "" /\ asked.coordinator # NoAgent /\ asked.tools # <<>>

Begin(f) ==
  \E asked \in Requests :
    /\ phase[f] = "idle"
    /\ Acceptable(f, asked)
    /\ request' = [request EXCEPT ![f] = asked]
    /\ Goto(f, "calling")
    /\ Notify(f, <<"started">>)
    /\ UNCHANGED <<routing, handoffs, results, subtasks, sources>>

\* An empty user input, a planner error, or a request without run id,
\* coordinator or calls: nobody hears of the flow.
Reject(f) ==
  /\ phase[f] = "idle"
  /\ Fail(f)
  /\ UNCHANGED subtasks

Call(f) == Len(handoffs[f]) + 1

CallsLeft(f) == phase[f] = "calling" /\ Call(f) <= Len(request[f].tools)

NextHandoff(f) ==
  Envelope(registry, RunOf[f], request[f].coordinator, request[f].tools[Call(f)], Call(f),
           request[f].filled)

MayHandOff(f) ==
  /\ Callable(registry, request[f].tools[Call(f)])
  /\ request[f].filled
  /\ ValidateHandoff(registry, NextHandoff(f))

\* Mutant: observers are not told of a handoff.
StartHandoffUnheard(f) ==
  /\ CallsLeft(f)
  /\ MayHandOff(f)
  /\ subtasks' = subtasks \cup {[flow |-> f, envelope |-> NextHandoff(f)]}
  /\ handoffs' = [handoffs EXCEPT ![f] = Append(@, NextHandoff(f))]
  /\ Goto(f, "waiting")
  /\ UNCHANGED <<routing, request, results, events, sources>>

StartHandoff(f) ==
  /\ CallsLeft(f)
  /\ MayHandOff(f)
  /\ subtasks' = subtasks \cup {[flow |-> f, envelope |-> NextHandoff(f)]}
  /\ handoffs' = [handoffs EXCEPT ![f] = Append(@, NextHandoff(f))]
  /\ Goto(f, "waiting")
  /\ Notify(f, <<"handoff_started">>)
  /\ UNCHANGED <<routing, request, results, sources>>

RefuseHandoff(f) ==
  /\ CallsLeft(f)
  /\ ~MayHandOff(f)
  /\ Fail(f)
  /\ UNCHANGED subtasks

\* The delegator answers with an error, having taken the subtask or not.
DelegatorFails(f) ==
  /\ DelegatorMayFail
  /\ CallsLeft(f)
  /\ MayHandOff(f)
  /\ Fail(f)
  /\ subtasks' \in {subtasks, subtasks \cup {[flow |-> f, envelope |-> NextHandoff(f)]}}

-----------------------------------------------------------------------------
(* The results.  A result records in answers which subtask it was made for,
   which the code cannot see.                                              *)

Result(subtask) ==
  [subtask |-> subtask.envelope.subtask, correlation |-> subtask.envelope.correlation,
   source |-> subtask.envelope.target, target |-> subtask.envelope.source,
   tool |-> subtask.envelope.tool, schema |-> subtask.envelope.schema,
   filled |-> TRUE, answers |-> subtask]

\* What the provider may answer with: the result of any subtask given out so
\* far, complete or blank, or under another tool or schema.
Answers ==
  LET good == {Result(subtask) : subtask \in subtasks}
  IN  good \cup {[result EXCEPT !.filled = FALSE] : result \in good}
           \cup {[result EXCEPT !.tool = NoAgent] : result \in good}
           \cup {[result EXCEPT !.schema = NoAgent] : result \in good}

Waiting(f) == phase[f] = "waiting"

Pending(f) == handoffs[f][Len(handoffs[f])]

ReceiveResult(f) ==
  /\ Waiting(f)
  /\ \E result \in Answers :
       /\ ValidateResult(Pending(f), result)
       /\ results' = [results EXCEPT ![f] = Append(@, result)]
  /\ Goto(f, "calling")
  /\ Notify(f, <<"result_received">>)
  /\ UNCHANGED <<routing, request, handoffs, subtasks, sources>>

RefuseResult(f) ==
  /\ Waiting(f)
  /\ \E result \in Answers : ~ValidateResult(Pending(f), result)
  /\ Fail(f)
  /\ UNCHANGED subtasks

WorkerFails(f) ==
  /\ DelegatorMayFail
  /\ Waiting(f)
  /\ Fail(f)
  /\ UNCHANGED subtasks

-----------------------------------------------------------------------------
(* compose_final_response.                                                 *)

AllAnswered(f) == phase[f] = "calling" /\ Len(handoffs[f]) = Len(request[f].tools)

\* Mutant: two results of one subtask are both taken as sources.
AnySources(f) == TRUE

DistinctSources(f) ==
  \A i, j \in DOMAIN results[f] :
    results[f][i].subtask = results[f][j].subtask => i = j

Composable(f) ==
  /\ request[f].content
  /\ ExpectedFinalizer(registry) # NoAgent
  /\ request[f].finalizer = ExpectedFinalizer(registry)
  /\ \A i \in DOMAIN handoffs[f] :
       ValidateHandoff(registry, handoffs[f][i]) /\ ValidateResult(handoffs[f][i], results[f][i])
  /\ DistinctSources(f)

Compose(f) ==
  /\ AllAnswered(f)
  /\ Composable(f)
  /\ sources' = [sources EXCEPT ![f] = [i \in DOMAIN results[f] |-> results[f][i].subtask]]
  /\ Goto(f, "completed")
  /\ Notify(f, <<"final_response.created", "completed">>)
  /\ UNCHANGED <<routing, request, handoffs, results, subtasks>>

RefuseResponse(f) ==
  /\ AllAnswered(f)
  /\ ~Composable(f)
  /\ Fail(f)
  /\ UNCHANGED subtasks

-----------------------------------------------------------------------------

FlowStep(f) ==
  \/ Begin(f) \/ Reject(f)
  \/ StartHandoff(f) \/ RefuseHandoff(f) \/ DelegatorFails(f)
  \/ ReceiveResult(f) \/ RefuseResult(f) \/ WorkerFails(f)
  \/ Compose(f) \/ RefuseResponse(f)

Terminating ==
  /\ \A f \in Flows : phase[f] \in {"completed", "failed"}
  /\ UNCHANGED vars

Next == (\E f \in Flows : FlowStep(f)) \/ Terminating

Spec == Init /\ [][Next]_vars

-----------------------------------------------------------------------------
(* Properties.                                                             *)

Asked(f) == IF request[f] = <<>> THEN 0 ELSE Len(request[f].tools)

\* A request keeps its place: results never run ahead of handoffs, handoffs
\* never ahead of the calls asked for, and a flow waits for exactly the result
\* of its last handoff (run_agentic_coordinator_flow).
TypeOK ==
  /\ phase \in [Flows -> Phases]
  /\ \A f \in Flows :
       /\ phase[f] = "idle" => request[f] = <<>>
       /\ phase[f] \in {"calling", "waiting", "completed"} => request[f] \in Requests
       /\ Len(handoffs[f]) <= Asked(f)
       /\ Len(results[f]) <= Len(handoffs[f])
       /\ phase[f] \in {"calling", "completed"} => Len(results[f]) = Len(handoffs[f])
       /\ phase[f] = "waiting" => Len(results[f]) + 1 = Len(handoffs[f])

\* Every accepted result was made for the very call it is taken for: not for an
\* earlier call of the same worker and not for another flow, whatever the
\* result provider mixes up (validate_worker_tool_result).
ResultsAnswerTheirCalls ==
  \A f \in Flows : \A i \in DOMAIN results[f] :
    results[f][i].answers = [flow |-> f, envelope |-> handoffs[f][i]]

\* A completed flow has one source per call, in the order of the calls, each a
\* subtask of its own that the delegator was given in this flow, and was
\* composed by the agent the configuration names (compose_final_response).
FinalResponsesAreBacked ==
  \A f \in Flows : phase[f] = "completed" =>
    /\ Len(sources[f]) = Asked(f)
    /\ \A i \in DOMAIN sources[f] :
         /\ sources[f][i] = <<RunOf[f], request[f].tools[i]>>
         /\ \E subtask \in subtasks :
              subtask.flow = f /\ subtask.envelope.subtask = sources[f][i]
         /\ \A j \in DOMAIN sources[f] : sources[f][i] = sources[f][j] => i = j
    /\ request[f].finalizer \in {routing.finalizer, routing.coordinator} \ {NoAgent}

\* What observers hear of a flow: a beginning of the story that runs from
\* started over one handoff and one result per call to the final response, the
\* whole of it exactly when the flow returns Ok.
Story(f) ==
  [i \in 1 .. 2 * Asked(f) + 3 |->
     IF i = 1 THEN "started"
     ELSE IF i = 2 * Asked(f) + 2 THEN "final_response.created"
     ELSE IF i = 2 * Asked(f) + 3 THEN "completed"
     ELSE IF i % 2 = 0 THEN "handoff_started" ELSE "result_received"]

\* Observers and delegator agree: every handoff observers hear of is one the
\* delegator has, and one they do not hear of is the last act of a flow that
\* failed (emit_observer_event in run_agentic_coordinator_flow).
ObserversFollowTheFlow ==
  \A f \in Flows :
    LET heard == {i \in DOMAIN events[f] : events[f][i] = "handoff_started"}
        given == {subtask \in subtasks : subtask.flow = f}
    IN  /\ request[f] # <<>> => events[f] = SubSeq(Story(f), 1, Len(events[f]))
        /\ phase[f] = "completed" <=> Len(events[f]) = 2 * Asked(f) + 3
        /\ Cardinality(given) - Cardinality(heard) \in {0, 1}
        /\ Cardinality(given) # Cardinality(heard) => phase[f] = "failed"

\* aw-reuse-architecture.md:59-62 has the registry reject handoffs with
\* disallowed routes: no subtask goes along a route the configuration states
\* as not allowed (is_route_allowed).
DisallowedRoutesRejected ==
  \A subtask \in subtasks : \A route \in routing.routes :
    ~route.allowed /\ <<route.from, route.to>> \notin AllowedRoutes(routing)
      => <<subtask.envelope.source, subtask.envelope.target>> # <<route.from, route.to>>
=============================================================================
