----------------------------- MODULE MCDispatch -----------------------------
(* What a dispatch gives its loop beside the kernel: the tool executor and  *)
(* the workspace.  They share no variable, so a behaviour exercises one of  *)
(* them.  Two context providers of different scopes share the store, a      *)
(* caller writes to a third.                                                *)
EXTENDS ToolExecutor, Workspace

VARIABLE part               \* which of the two this behaviour exercises

MCStepIds == {<<"step", 1, 1>>}
MCBodies == {<<"caller", 1>>, <<"caller", 2>>}
MCScopeOf == [p \in Providers |-> p]
MCScopes == {"steps"} \cup Providers

DispatchInit == Init /\ WorkspaceInit /\ part \in {"tools", "workspace"}

\* No call is left under the bound: the store goes on, the behaviour ends.
BoundReached ==
  part = "workspace" /\ calls = MaxCalls /\ \A t \in Threads : job[t] = Idle

DispatchNext ==
  /\ UNCHANGED part
  /\ \/ part = "tools" /\ Next /\ UNCHANGED workspaceVars
     \/ part = "workspace" /\ WorkspaceNext /\ UNCHANGED vars
     \/ BoundReached /\ UNCHANGED <<vars, workspaceVars>>

DispatchSpec == DispatchInit /\ [][DispatchNext]_<<vars, workspaceVars, part>>
=============================================================================
