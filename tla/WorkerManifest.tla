---------------------------- MODULE WorkerManifest ----------------------------
(***************************************************************************)
(* The contract of a worker (greentic-dw-manifest, lib.rs) and the task    *)
(* made from it (greentic-dw-types, task.rs).  An optional value is a set  *)
(* of at most one; "" stands for every blank string.  A manifest is a      *)
(* record                                                                  *)
(*   [version, id, display_name, worker_version, tenant, team_policy,      *)
(*    capabilities, default_locale, policy, output, deep_agent, tools]     *)
(* where capabilities says whether the declaration of the capability crate *)
(* is valid, and a team policy is [enabled, default, override].            *)
(***************************************************************************)
EXTENDS Naturals, Sequences, SequencesExt

SchemaVersion == "0.3"

\* The first of two optional values that is there.
OrElse(option, other) == IF option # {} THEN option ELSE other

-----------------------------------------------------------------------------
(* validate: what may be wrong with a manifest, in the order it is looked  *)
(* for.                                                                    *)

\* The problems of one extension tool
\* [extension_id, extension_version, tool_name, description, schema, agentic].
ToolProblems(tool) ==
  <<[what |-> "empty_tool_field",
     holds |-> "" \in {tool.extension_id, tool.extension_version, tool.tool_name, tool.description}],
    [what |-> "invalid_input_schema", holds |-> ~tool.schema],
    [what |-> "tool_not_agentic", holds |-> ~tool.agentic]>>

\* The problems of the deep-agent section [enabled, kinds, mandatory_reflection,
\* provided], provided being the families with a capability.
DeepAgentProblems(deep) ==
  <<[what |-> "missing_core_capabilities",
     holds |-> deep.enabled /\ ~({"planning", "context"} \subseteq deep.provided)],
    [what |-> "missing_delegation",
     holds |-> deep.enabled /\ "delegate" \in deep.kinds /\ "delegation" \notin deep.provided],
    [what |-> "missing_reflection",
     holds |-> deep.enabled /\ deep.mandatory_reflection /\ "reflection" \notin deep.provided]>>

\* Those of the manifest's own fields.
Problems(manifest) ==
  <<[what |-> "empty_version", holds |-> manifest.version = ""],
    [what |-> "unsupported_version", holds |-> manifest.version # SchemaVersion],
    [what |-> "empty_id", holds |-> manifest.id = ""],
    [what |-> "empty_display_name", holds |-> manifest.display_name = ""],
    [what |-> "empty_worker_version", holds |-> "" \in manifest.worker_version],
    [what |-> "empty_tenant", holds |-> manifest.tenant = ""],
    [what |-> "empty_team",
     holds |-> manifest.team_policy.enabled /\ "" \in manifest.team_policy.default],
    [what |-> "invalid_capabilities", holds |-> ~manifest.capabilities],
    [what |-> "empty_default_locale", holds |-> manifest.default_locale = ""],
    [what |-> "strict_output_mismatch",
     holds |-> manifest.policy = "strict_requested" /\ manifest.output \in {"worker_default", "match_human"}]>>

Least(indices) == {i \in indices : \A k \in indices : i <= k}

FirstProblem(problems) ==
  {problems[i].what : i \in Least({k \in DOMAIN problems : problems[k].holds})}

\* DigitalWorkerManifest::validate: the first problem, or nothing; the
\* deep-agent section and then the tools come last.
Validate(manifest) ==
  LET deep == UNION {FirstProblem(DeepAgentProblems(section)) : section \in ToSet(manifest.deep_agent)}
      unfit == {i \in DOMAIN manifest.tools : FirstProblem(ToolProblems(manifest.tools[i])) # {}}
      tool == UNION {FirstProblem(ToolProblems(manifest.tools[i])) : i \in Least(unfit)}
  IN  OrElse(FirstProblem(Problems(manifest)), OrElse(deep, tool))

-----------------------------------------------------------------------------
(* The task of a request.                                                  *)

\* resolve_scope: the team a request gets.
ResolvedTeam(policy, requested) ==
  IF ~policy.enabled THEN {}
  ELSE IF policy.override THEN OrElse(requested, policy.default) ELSE policy.default

\* LocaleContext::resolve_effective_locale
EffectiveLocale(policy, worker_default, requested, human) ==
  CASE policy = "worker_default"   -> {worker_default}
    [] policy = "prefer_requested" -> OrElse(requested, {worker_default})
    [] policy = "prefer_human"     -> OrElse(human, OrElse(requested, {worker_default}))
    [] policy = "strict_requested" -> requested

\* to_task_envelope of a request of the worker's own tenant; a request of
\* another one is refused.
TaskEnvelope(manifest, scope, requested, human) ==
  [worker |-> manifest.id, state |-> "created", tenant |-> manifest.tenant,
   team |-> ResolvedTeam(manifest.team_policy, scope.team),
   locale |-> EffectiveLocale(manifest.policy, manifest.default_locale, requested, human)]
=============================================================================
