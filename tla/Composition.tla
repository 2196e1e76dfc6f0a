----------------------------- MODULE Composition -----------------------------
(***************************************************************************)
(* From the answers of the wizard to the packs of a bundle                 *)
(* (greentic-dw-types, resolver.rs, pack_spec.rs, bundle_plan.rs): every   *)
(* agent's capabilities are bound to providers of the catalog, the packs   *)
(* they depend on are collected in one list that all agents share, what is *)
(* still to be set up is reported, and the composition is turned into the  *)
(* list of packs to include.  Lists whose order and repetitions play no    *)
(* part are sets; documents that are copied along are left out.            *)
(***************************************************************************)
EXTENDS Naturals, Sequences

CONSTANTS
  AgentIds, Capabilities, ProviderIds,
  PackRefs,                 \* raw references of support packs
  SetupRefs,                \* setup schemas a provider may need
  Catalog,                  \* provider id -> setup schemas, see Providers
  Requests                  \* what may be asked for, see IsRequest

Providers == DOMAIN Catalog

\* A BTreeMap from capability to provider id.
IsChoice(map) ==
  /\ DOMAIN map \subseteq Capabilities
  /\ \A capability \in DOMAIN map : map[capability] \in ProviderIds

\* DwAgentResolveRequest with the parts of its template that are read.
IsAgent(agent) ==
  /\ agent.id \in AgentIds
  /\ agent.required \in Seq(Capabilities)
  /\ agent.optional \in Seq(Capabilities)
  /\ IsChoice(agent.overrides) /\ IsChoice(agent.defaults)
  /\ agent.support_packs \in Seq(PackRefs)
  /\ agent.multi \in BOOLEAN

\* DwCompositionResolveRequest: the wizard numbers its agents, so ids differ.
IsRequest(req) ==
  /\ DOMAIN req.agents = 1..Len(req.agents) /\ Len(req.agents) \in Nat
  /\ \A i \in DOMAIN req.agents : IsAgent(req.agents[i])
  /\ \A i, j \in DOMAIN req.agents : req.agents[i].id = req.agents[j].id => i = j
  /\ IsChoice(req.shared)

ASSUME CompositionAssumption ==
  /\ Providers \subseteq ProviderIds
  /\ \A provider \in Providers : Catalog[provider] \subseteq SetupRefs
  /\ \A req \in Requests : IsRequest(req)

VARIABLES
  request,
  phase,                    \* "agents", "resolved", "planned" or "refused"
  agent, capability, pack,  \* positions of the three loops
  bindings,                 \* capability_bindings of all agents
  dependencies,             \* shared_pack_dependencies
  provider_index,           \* provider_dependency_index: id -> position
  support_index,            \* support_pack_index: reference -> position
  open,                     \* agent_unresolved of the agent at hand
  unresolved,               \* unresolved_setup_items
  multi_agent,              \* supports_multi_agent_app_pack
  inclusions                \* inclusions of the bundle plan

vars == <<request, phase, agent, capability, pack, bindings, dependencies,
          provider_index, support_index, open, unresolved, multi_agent, inclusions>>

-----------------------------------------------------------------------------
(* Operators on a request.                                                 *)

Agents == request.agents
Agent == Agents[agent]

\* capability_specs: the required ones first.
Specs(a) ==
  [i \in 1..(Len(a.required) + Len(a.optional)) |->
     IF i <= Len(a.required)
       THEN [id |-> a.required[i], optional |-> FALSE]
       ELSE [id |-> a.optional[i - Len(a.required)], optional |-> TRUE]]

CurrentSpec == Specs(Agent)[capability]

Choice(map, cap) == IF cap \in DOMAIN map THEN {map[cap]} ELSE {}
OrElse(option, other) == IF option # {} THEN option ELSE other

\* Mutant: what the application shares wins over the agent's own choice.
SelectedSharedFirst(a, cap) ==
  OrElse(Choice(request.shared, cap), OrElse(Choice(a.overrides, cap), Choice(a.defaults, cap)))

\* The agent's override, else the shared one, else the template's default: a
\* set of at most one provider id, which need not be in the catalog.
Selected(a, cap) ==
  OrElse(Choice(a.overrides, cap), OrElse(Choice(request.shared, cap), Choice(a.defaults, cap)))

-----------------------------------------------------------------------------
Init ==
  /\ request \in Requests
  /\ phase = "agents"
  /\ agent = 1 /\ capability = 1 /\ pack = 1
  /\ bindings = {} /\ dependencies = <<>>
  /\ provider_index = <<>> /\ support_index = <<>>
  /\ open = {} /\ unresolved = {}
  /\ multi_agent = FALSE
  /\ inclusions = {}

\* Mutant: only the agent that brought a pack in is recorded.
WithAgentFirstOnly(dependency) == dependency

\* applies_to_agents, unless it has the agent already.
WithAgent(dependency) == [dependency EXCEPT !.agents = @ \cup {Agent.id}]

\* shared_pack_dependencies.len(), counted from one here.
Position == Len(dependencies) + 1

\* The shared list gets a new entry, or the entry found there one more agent.
Depend(index, key, provider) ==
  dependencies' =
    IF key \in DOMAIN index
      THEN [dependencies EXCEPT ![index[key]] = WithAgent(@)]
      ELSE Append(dependencies, [pack_id |-> key, provider |-> provider, agents |-> {Agent.id}])

Indexed(index, key) ==
  [k \in DOMAIN index \cup {key} |-> IF k \in DOMAIN index THEN index[k] ELSE Position]

AtCapability ==
  /\ phase = "agents"
  /\ agent <= Len(Agents)
  /\ capability <= Len(Specs(Agent))

NextCapability ==
  /\ capability' = capability + 1
  /\ UNCHANGED <<request, phase, agent, pack, support_index, unresolved, multi_agent, inclusions>>

\* The selected provider is in the catalog: a binding, a dependency, and a
\* requirement for each of its setup schemas.
Bind(provider) ==
  /\ AtCapability
  /\ provider \in Selected(Agent, CurrentSpec.id) \cap Providers
  /\ bindings' = bindings \cup
       {[agent |-> Agent.id, capability |-> CurrentSpec.id, provider |-> provider,
         optional |-> CurrentSpec.optional]}
  /\ Depend(provider_index, provider, {provider})
  /\ provider_index' = Indexed(provider_index, provider)
  /\ open' = open \cup
       {[kind |-> "setup", agent |-> Agent.id, provider |-> {provider}, capability |-> {},
         setup |-> {ref}] : ref \in Catalog[provider]}
  /\ NextCapability

\* The selected provider is not in the catalog, for an optional one as well.
ReportMissing(provider) ==
  /\ AtCapability
  /\ provider \in Selected(Agent, CurrentSpec.id) \ Providers
  /\ open' = open \cup
       {[kind |-> "missing", agent |-> Agent.id, provider |-> {provider},
         capability |-> {CurrentSpec.id}, setup |-> {}]}
  /\ NextCapability
  /\ UNCHANGED <<bindings, dependencies, provider_index>>

ReportUnselected ==
  /\ AtCapability
  /\ Selected(Agent, CurrentSpec.id) = {}
  /\ ~CurrentSpec.optional
  /\ open' = open \cup
       {[kind |-> "unresolved", agent |-> Agent.id, provider |-> {},
         capability |-> {CurrentSpec.id}, setup |-> {}]}
  /\ NextCapability
  /\ UNCHANGED <<bindings, dependencies, provider_index>>

SkipOptional ==
  /\ AtCapability
  /\ Selected(Agent, CurrentSpec.id) = {}
  /\ CurrentSpec.optional
  /\ NextCapability
  /\ UNCHANGED <<bindings, dependencies, provider_index, open>>

AtPack ==
  /\ phase = "agents"
  /\ agent <= Len(Agents)
  /\ capability > Len(Specs(Agent))
  /\ pack <= Len(Agent.support_packs)

\* The template's support packs share the list with the providers' packs, but
\* have an index of their own.
IncludeSupportPack ==
  /\ AtPack
  /\ LET key == Agent.support_packs[pack]
     IN  /\ Depend(support_index, key, {})
         /\ support_index' = Indexed(support_index, key)
  /\ pack' = pack + 1
  /\ UNCHANGED <<request, phase, agent, capability, bindings, provider_index, open,
                 unresolved, multi_agent, inclusions>>

\* Mutant: the requirements of the last agent replace the ones before.
ReportedLast == open

\* unresolved_setup_items.extend(agent_unresolved)
Reported == unresolved \cup open

FinishAgent ==
  /\ phase = "agents"
  /\ agent <= Len(Agents)
  /\ capability > Len(Specs(Agent))
  /\ pack > Len(Agent.support_packs)
  /\ agent' = agent + 1 /\ capability' = 1 /\ pack' = 1
  /\ unresolved' = Reported
  /\ open' = {}
  /\ multi_agent' = (multi_agent \/ Agent.multi)
  /\ UNCHANGED <<request, phase, bindings, dependencies, provider_index, support_index,
                 inclusions>>

\* A composition of several agents is a multi-agent one whatever its templates say.
Finish ==
  /\ phase = "agents"
  /\ agent > Len(Agents)
  /\ Agents # <<>>
  /\ phase' = "resolved"
  /\ multi_agent' = (multi_agent \/ Len(Agents) > 1)
  /\ UNCHANGED <<request, agent, capability, pack, bindings, dependencies, provider_index,
                 support_index, open, unresolved, inclusions>>

\* NoAgents
Refuse ==
  /\ phase = "agents"
  /\ Agents = <<>>
  /\ phase' = "refused"
  /\ UNCHANGED <<request, agent, capability, pack, bindings, dependencies, provider_index,
                 support_index, open, unresolved, multi_agent, inclusions>>

\* dependency_pack_refs, whose order plays no part.
DependencyRefs == {dependencies[i] : i \in DOMAIN dependencies}

\* Mutant: provider and support packs are told apart by their id alone.
OfKindById(isProvider) ==
  {ref \in DependencyRefs :
     isProvider \/ \A other \in DependencyRefs : other.pack_id = ref.pack_id => other.provider = {}}

OfKind(isProvider) == {ref \in DependencyRefs : (ref.provider # {}) = isProvider}

\* provider_packs_by_id and support_packs_by_id: one entry for an id, with the
\* agents of every dependency of that id.
PacksById(isProvider) ==
  {[kind |-> IF isProvider THEN "provider" ELSE "support", pack_id |-> ref.pack_id,
    agents |-> UNION {other.agents : other \in
                        {o \in OfKind(isProvider) : o.pack_id = ref.pack_id}}] :
     ref \in OfKind(isProvider)}

AppPack == {[kind |-> "app", pack_id |-> "generated", agents |-> {Agents[i].id : i \in DOMAIN Agents}]}

\* to_application_pack_spec and to_bundle_plan.
PlanBundle ==
  /\ phase = "resolved"
  /\ phase' = "planned"
  /\ inclusions' = AppPack \cup PacksById(TRUE) \cup PacksById(FALSE)
  /\ UNCHANGED <<request, agent, capability, pack, bindings, dependencies, provider_index,
                 support_index, open, unresolved, multi_agent>>

Finished == phase \in {"planned", "refused"} /\ UNCHANGED vars

Next ==
  \/ \E provider \in ProviderIds : Bind(provider) \/ ReportMissing(provider)
  \/ ReportUnselected \/ SkipOptional \/ IncludeSupportPack \/ FinishAgent
  \/ Finish \/ Refuse \/ PlanBundle \/ Finished

Spec == Init /\ [][Next]_vars

-----------------------------------------------------------------------------
Bindings ==
  [agent : AgentIds, capability : Capabilities, provider : Providers, optional : BOOLEAN]
Dependencies ==
  [pack_id : ProviderIds \cup PackRefs, provider : SUBSET Providers, agents : SUBSET AgentIds]
Requirements ==
  [kind : {"setup", "missing", "unresolved"}, agent : AgentIds, provider : SUBSET ProviderIds,
   capability : SUBSET Capabilities, setup : SUBSET SetupRefs]
Inclusions ==
  [kind : {"app", "provider", "support"}, pack_id : {"generated"} \cup ProviderIds \cup PackRefs,
   agents : SUBSET AgentIds]

IsIndex(index, keys) ==
  /\ DOMAIN index \subseteq keys
  /\ \A key \in DOMAIN index : index[key] \in DOMAIN dependencies

TypeOK ==
  /\ request \in Requests
  /\ phase \in {"agents", "resolved", "planned", "refused"}
  /\ agent \in 1..(Len(Agents) + 1)
  /\ capability \in Nat \ {0} /\ pack \in Nat \ {0}
  /\ agent <= Len(Agents) =>
       capability <= Len(Specs(Agent)) + 1 /\ pack <= Len(Agent.support_packs) + 1
  /\ bindings \subseteq Bindings
  /\ dependencies \in Seq(Dependencies)
  /\ IsIndex(provider_index, Providers)
  /\ IsIndex(support_index, PackRefs)
  /\ open \subseteq Requirements /\ unresolved \subseteq Requirements
  /\ multi_agent \in BOOLEAN
  /\ inclusions \subseteq Inclusions

\* The two indexes into the one shared list never lead an agent to a foreign
\* entry: a provider's position holds that provider's pack, a support pack's
\* position that support pack, even if both have one id, and no pack is
\* entered twice (provider_dependency_index, support_pack_index).
IndexesFindTheirPacks ==
  /\ \A id \in DOMAIN provider_index :
       /\ dependencies[provider_index[id]].pack_id = id
       /\ dependencies[provider_index[id]].provider = {id}
  /\ \A ref \in DOMAIN support_index :
       /\ dependencies[support_index[ref]].pack_id = ref
       /\ dependencies[support_index[ref]].provider = {}
  /\ \A i, j \in DOMAIN dependencies :
       /\ dependencies[i].pack_id = dependencies[j].pack_id
       /\ dependencies[i].provider = dependencies[j].provider
       => i = j

BoundTo(id) == {b.agent : b \in {binding \in bindings : binding.provider = id}}

\* The support packs of the agents so far.
Supported(ref) ==
  {Agents[i].id : i \in {j \in DOMAIN Agents :
     \/ j < agent /\ \E k \in DOMAIN Agents[j].support_packs : Agents[j].support_packs[k] = ref
     \/ j = agent /\ \E k \in 1..(pack - 1) : Agents[j].support_packs[k] = ref}}

\* Whichever agent came first, a pack in the shared list applies to exactly
\* the agents that are bound to its provider or whose template asks for it,
\* and every such pack is in the list (the two branches of the loops over
\* capabilities and support packs).
DependenciesServeTheirAgents ==
  /\ \A i \in DOMAIN dependencies :
       LET dependency == dependencies[i]
       IN  dependency.agents =
             IF dependency.provider # {} THEN BoundTo(dependency.pack_id)
                                         ELSE Supported(dependency.pack_id)
  /\ \A binding \in bindings : binding.provider \in DOMAIN provider_index
  /\ \A ref \in PackRefs : Supported(ref) # {} => ref \in DOMAIN support_index

\* What an agent asks to use rather than its template's default.
Asked(a, cap) == OrElse(Choice(a.overrides, cap), Choice(request.shared, cap))

\* A capability is bound, with every setup schema of its provider among the
\* items, or it is among the items itself.
Bound(a, spec, items) ==
  \E binding \in bindings :
    /\ binding.agent = a.id
    /\ binding.capability = spec.id
    /\ Asked(a, spec.id) # {} => binding.provider \in Asked(a, spec.id)
    /\ \A ref \in Catalog[binding.provider] :
         \E item \in items : /\ item.agent = a.id
                            /\ item.provider = {binding.provider}
                            /\ item.setup = {ref}

ReportedIn(a, spec, items) ==
  \E item \in items : item.agent = a.id /\ item.capability = {spec.id}

\* When everything is resolved, every required capability of every agent is
\* bound to the provider that agent is meant to get or is reported, and so is
\* every setup schema of a bound provider, for each agent that is bound to it
\* (unresolved_setup_items).
NothingIsForgotten ==
  (phase = "resolved") =>
    \A i \in DOMAIN Agents : \A k \in DOMAIN Specs(Agents[i]) :
      LET spec == Specs(Agents[i])[k]
      IN  Bound(Agents[i], spec, unresolved) \/ ReportedIn(Agents[i], spec, unresolved) \/ spec.optional

\* The bundle has every pack an agent needs, once of its kind and for exactly
\* the agents that need it, and nothing else (to_bundle_plan over the shared
\* list of resolve).
BundleServesTheAgents ==
  (phase = "planned") =>
    /\ \A id \in Providers :
         LET included == {inc \in inclusions : inc.kind = "provider" /\ inc.pack_id = id}
         IN  IF BoundTo(id) = {} THEN included = {}
             ELSE \E inc \in included : included = {inc} /\ inc.agents = BoundTo(id)
    /\ \A ref \in PackRefs :
         LET included == {inc \in inclusions : inc.kind = "support" /\ inc.pack_id = ref}
         IN  IF Supported(ref) = {} THEN included = {}
             ELSE \E inc \in included : included = {inc} /\ inc.agents = Supported(ref)
=============================================================================
