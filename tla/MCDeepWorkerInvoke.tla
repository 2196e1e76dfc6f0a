------------------------- MODULE MCDeepWorkerInvoke -------------------------
(* Instance of DeepWorkerInvoke for TLC: a plan of a step and a Delegate    *)
(* step that depends on it.                                                 *)
EXTENDS DeepWorkerInvoke

MCSteps == {"draft", "ask"}
MCPlannedDelegates == {"ask"}
MCDeps == [draft |-> {}, ask |-> {"draft"}]

\* Reflection on, delegation off.
MCSettings ==
  {[iteration_budget |-> {3}, reflection |-> {TRUE}, delegation |-> {FALSE}]}
=============================================================================
