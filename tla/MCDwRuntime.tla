---------------------------- MODULE MCDwRuntime ----------------------------
(* Instance of DwRuntime with its memory for TLC: two control hooks, engine *)
(* decisions that contain a no-op, single operations and batches, legal and *)
(* not; both memory tiers on one list of bindings, one capability of which  *)
(* is bound twice, or fewer of them, and a policy that looks at the state.  *)
EXTENDS RuntimeMemory

\* The first hook forbids delegating a running task, the second forbids
\* cancelling a waiting one.
MCHookChain == << {<<"delegate", "running">>}, {<<"cancel", "waiting">>} >>

MCDecisions ==
  {<<>>, <<"step">>, <<"cancel">>, <<"wait">>, <<"delegate">>,
   <<"start", "complete">>, <<"wait", "start">>, <<"wait", "cancel">>,
   <<"complete", "fail">>, <<"observe", "complete">>}

Binding(request, capability, provider) ==
  [request |-> request, capability |-> capability, provider |-> provider]
MCBindings ==
  <<Binding("r1", "long-term", "graph"), Binding("r2", "short-term", "cache"),
    Binding("r3", "long-term", "cache")>>
Wiring(short, long, bindings) == [short |-> short, long |-> long, bindings |-> bindings]
MCWirings ==
  {Wiring({"plain", "capability"}, TRUE, MCBindings),
   Wiring({"plain"}, FALSE, <<>>), Wiring({"capability"}, FALSE, <<>>)}
MCMayWrite == (States \ Terminal) \X Queries
MCMayRead == (States \ {"created"}) \X Queries
=============================================================================
