----------------------------- MODULE MCDeepLoop -----------------------------
(* Instances of DeepLoop for TLC: a research step and a delegate step that  *)
(* depends on it, over up to twelve actions in two runs, with an engine     *)
(* that may park or restart the task and a hook that forbids delegating a   *)
(* task in Delegated again.                                                 *)
EXTENDS DeepLoop

MCSteps == {"gather", "ask"}
MCDelegateSteps == {"ask"}
MCDeps == [gather |-> {}, ask |-> {"gather"}]

Fresh == [gather |-> "ready", ask |-> "pending"]
MCInitialPlans ==
  {Fresh, [Fresh EXCEPT !.ask = "skipped"],
   [Fresh EXCEPT !.gather = "failed", !.ask = "skipped"]}

MCDecisions == {<<"step">>, <<"wait", "start">>}

AllVerdicts == ReviewVerdicts

MCVetoed == {<<"delegate", "delegated">>}
=============================================================================
