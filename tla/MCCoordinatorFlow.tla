-------------------------- MODULE MCCoordinatorFlow --------------------------
(* Instances of CoordinatorFlow for TLC: two flows over two workers, a       *)
(* planner that may repeat a worker, name an unknown one, leave a field      *)
(* blank or pick the wrong finalizer.                                       *)
EXTENDS CoordinatorFlow

MCRunOf == [f1 |-> "run1", f2 |-> "run2"]

Worker(name, agent) == [tool |-> name, target |-> agent, output |-> name]
Workers == <<Worker("traffic", "t"), Worker("bgp", "b")>>
Route(to, allowed) == [from |-> "c", to |-> to, allowed |-> allowed]

Open == [workers |-> Workers, routes |-> {}, arrows |-> {},
         coordinator |-> "c", finalizer |-> NoAgent]
Closed == [Open EXCEPT !.routes = {Route("t", TRUE), Route("b", FALSE)}, !.finalizer = "d"]
Arrows == [Open EXCEPT !.arrows = {<<"c", "t">>}, !.coordinator = NoAgent, !.finalizer = "d"]
Denied == [Open EXCEPT !.routes = {Route("t", FALSE)}]
Twice == [Open EXCEPT !.workers = <<Worker("traffic", "t"), Worker("traffic", "b")>>]
MCRoutings == {Open, Closed, Arrows, Denied, Twice}

Plain == [coordinator |-> "c", finalizer |-> "c", tools |-> <<"traffic", "bgp">>,
          content |-> TRUE, filled |-> TRUE]
MCRequests ==
  {Plain, [Plain EXCEPT !.tools = <<"traffic", "traffic">>],
   [Plain EXCEPT !.finalizer = "d", !.tools = <<"traffic">>],
   [Plain EXCEPT !.tools = <<"traffic", "dns">>],
   [Plain EXCEPT !.content = FALSE, !.tools = <<"bgp">>],
   [Plain EXCEPT !.filled = FALSE], [Plain EXCEPT !.coordinator = NoAgent],
   [Plain EXCEPT !.tools = <<>>]}
=============================================================================
