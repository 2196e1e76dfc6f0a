-------------------------- MODULE CompositionProofs --------------------------
(* Proofs about Composition, for any catalog and any number of agents,      *)
(* capabilities and packs.                                                  *)
EXTENDS PackBuild, SequenceTheorems, TLAPS

SpecRecords == [id : Capabilities, optional : BOOLEAN]

\* The capabilities of an agent are listed one after the other, the required
\* ones first (capability_specs).
LEMMA SpecsAreListed ==
  ASSUME NEW a, NEW r \in Seq(Capabilities), NEW o \in Seq(Capabilities),
         a.required = r, a.optional = o
  PROVE  /\ Len(Specs(a)) = Len(r) + Len(o)
         /\ Len(Specs(a)) \in Nat
         /\ Specs(a) \in [1..Len(Specs(a)) -> SpecRecords]
<1>1. PICK m \in Nat : m = Len(r) /\ \A k \in 1..m : r[k] \in Capabilities
  BY LenProperties, ElementOfSeq
<1>2. PICK l \in Nat : l = Len(o) /\ \A k \in 1..l : o[k] \in Capabilities
  BY LenProperties, ElementOfSeq
<1>3. PICK n \in Nat : n = m + l
  OBVIOUS
<1>4. \A k \in 1..n : k <= m => k \in 1..m
  OBVIOUS
<1>5. \A k \in 1..n : ~(k <= m) => k - m \in 1..l
  BY <1>3
<1>6. \A k \in 1..n :
        (IF k <= m THEN [id |-> r[k], optional |-> FALSE]
                   ELSE [id |-> o[k - m], optional |-> TRUE]) \in SpecRecords
  BY <1>1, <1>2, <1>4, <1>5 DEF SpecRecords
<1>7. Specs(a) = [k \in 1..n |-> IF k <= m THEN [id |-> r[k], optional |-> FALSE]
                                          ELSE [id |-> o[k - m], optional |-> TRUE]]
  BY <1>1, <1>2, <1>3 DEF Specs
<1>8. Specs(a) \in [1..n -> SpecRecords]
  BY <1>6, <1>7
<1>9. Specs(a) \in Seq(SpecRecords)
  BY <1>8, SeqDef
<1>10. Len(Specs(a)) \in Nat /\ 1..Len(Specs(a)) = 1..n
  BY <1>8, <1>9, LenProperties
<1>11. Len(Specs(a)) = n
  BY <1>10
<1>12. QED
  BY <1>1, <1>2, <1>3, <1>8, <1>11

\* A request's agents keep their shape (DwAgentResolveRequest).
LEMMA AgentShape ==
  ASSUME NEW req \in Requests, NEW i \in DOMAIN req.agents
  PROVE  /\ IsAgent(req.agents[i])
         /\ Len(req.agents) \in Nat
         /\ DOMAIN req.agents = 1..Len(req.agents)
         /\ Len(req.agents[i].support_packs) \in Nat
         /\ Len(Specs(req.agents[i])) \in Nat
         /\ Specs(req.agents[i]) \in [1..Len(Specs(req.agents[i])) -> SpecRecords]
<1>1. /\ IsAgent(req.agents[i]) /\ Len(req.agents) \in Nat
      /\ DOMAIN req.agents = 1..Len(req.agents)
  BY CompositionAssumption DEF IsRequest
<1>2. PICK a : a = req.agents[i] /\ IsAgent(a)
  BY <1>1
<1>3. PICK r \in Seq(Capabilities), o \in Seq(Capabilities), s \in Seq(PackRefs) :
        a.required = r /\ a.optional = o /\ a.support_packs = s
  BY <1>2 DEF IsAgent
<1>4. Len(s) \in Nat
  BY LenProperties
<1>5. /\ Len(Specs(a)) \in Nat
      /\ Specs(a) \in [1..Len(Specs(a)) -> SpecRecords]
  BY <1>3, SpecsAreListed
<1>6. QED
  BY <1>1, <1>2, <1>3, <1>4, <1>5

\* The agent at hand.
LEMMA AgentAtHand ==
  ASSUME TypeOK, agent <= Len(Agents)
  PROVE  /\ agent \in DOMAIN Agents /\ Len(Agents) \in Nat
         /\ DOMAIN Agents = 1..Len(Agents)
         /\ Agent.id \in AgentIds
         /\ Agent.support_packs \in Seq(PackRefs)
         /\ Len(Agent.support_packs) \in Nat
         /\ Len(Specs(Agent)) \in Nat
         /\ Specs(Agent) \in [1..Len(Specs(Agent)) -> SpecRecords]
         /\ Agent.multi \in BOOLEAN
<1>1. /\ request \in Requests /\ agent \in 1..(Len(Agents) + 1)
  BY DEF TypeOK
<1>2. DOMAIN Agents = 1..Len(Agents) /\ Len(Agents) \in Nat
  BY <1>1, CompositionAssumption DEF Agents, IsRequest
<1>3. agent \in DOMAIN Agents
  BY <1>1, <1>2
<1>4. /\ IsAgent(Agent) /\ Len(Agent.support_packs) \in Nat
      /\ Len(Specs(Agent)) \in Nat
      /\ Specs(Agent) \in [1..Len(Specs(Agent)) -> SpecRecords]
  BY <1>1, <1>3, AgentShape DEF Agents, Agent
<1>5. QED
  BY <1>2, <1>3, <1>4 DEF IsAgent

-----------------------------------------------------------------------------
(* The shared list.                                                        *)

\* The entry found for the key gets the agent at hand, or a new entry for it is
\* put at the end, where the key will be found; the others stay.
Entered(index, key, provider) ==
  /\ DOMAIN dependencies \subseteq DOMAIN dependencies'
  /\ \A i \in DOMAIN dependencies :
       /\ dependencies'[i].pack_id = dependencies[i].pack_id
       /\ dependencies'[i].provider = dependencies[i].provider
       /\ dependencies'[i].agents =
            IF key \in DOMAIN index /\ i = index[key]
              THEN dependencies[i].agents \cup {Agent.id}
              ELSE dependencies[i].agents
  /\ \A i \in DOMAIN dependencies' \ DOMAIN dependencies :
       /\ key \notin DOMAIN index
       /\ i = Position
       /\ dependencies'[i] = [pack_id |-> key, provider |-> provider, agents |-> {Agent.id}]
  /\ (key \notin DOMAIN index) =>
       /\ Position \in DOMAIN dependencies'
       /\ Position \notin DOMAIN dependencies

\* That is what Depend does to the shared list.
LEMMA Depended ==
  ASSUME TypeOK, agent <= Len(Agents),
         NEW keys \in SUBSET (ProviderIds \cup PackRefs), NEW key \in keys,
         NEW index, IsIndex(index, keys),
         NEW provider \in SUBSET Providers,
         Depend(index, key, provider)
  PROVE  dependencies' \in Seq(Dependencies) /\ Entered(index, key, provider)
<1>1. PICK list \in Seq(Dependencies) : list = dependencies
  BY DEF TypeOK
<1>2. PICK n \in Nat : n = Len(list) /\ DOMAIN list = 1..n /\ \A i \in 1..n : list[i] \in Dependencies
  BY LenProperties, ElementOfSeq
<1>3. PICK id \in AgentIds : id = Agent.id
  BY AgentAtHand
<1>4. CASE key \in DOMAIN index
  <2>1. PICK at \in 1..n : at = index[key]
    BY <1>1, <1>2, <1>4 DEF IsIndex
  <2>2. PICK entry \in Dependencies : entry = [list[at] EXCEPT !.agents = @ \cup {id}]
    BY <1>2, <1>3 DEF Dependencies
  <2>3. /\ entry.pack_id = list[at].pack_id /\ entry.provider = list[at].provider
        /\ entry.agents = list[at].agents \cup {id}
    BY <1>2, <2>2 DEF Dependencies
  <2>4. dependencies' = [list EXCEPT ![at] = entry]
    BY <1>1, <1>3, <1>4, <2>1, <2>2 DEF Depend, WithAgent
  <2>5. dependencies' \in Seq(Dependencies) /\ DOMAIN dependencies' = 1..n
    BY <1>2, <2>4
  <2>6. \A i \in 1..n : dependencies'[i] = IF i = at THEN entry ELSE list[i]
    BY <1>2, <2>4
  <2>7. QED
    BY <1>1, <1>2, <1>3, <1>4, <2>1, <2>3, <2>5, <2>6 DEF Entered
<1>5. CASE key \notin DOMAIN index
  <2>1. PICK entry \in Dependencies :
          entry = [pack_id |-> key, provider |-> provider, agents |-> {id}]
    BY <1>3 DEF Dependencies
  <2>2. dependencies' = Append(list, entry)
    BY <1>1, <1>3, <1>5, <2>1 DEF Depend
  <2>3. /\ dependencies' \in Seq(Dependencies) /\ DOMAIN dependencies' = 1..(n + 1)
        /\ \A i \in 1..n : dependencies'[i] = list[i]
        /\ dependencies'[n + 1] = entry
    BY <1>2, <2>2, AppendProperties, LenProperties
  <2>4. Position = n + 1
    BY <1>1, <1>2 DEF Position
  <2>5. QED
    BY <1>1, <1>2, <1>3, <1>5, <2>1, <2>3, <2>4 DEF Entered
<1>6. QED
  BY <1>4, <1>5

-----------------------------------------------------------------------------
(* Types.                                                                  *)

\* Nothing is bound before the first agent.
LEMMA TypeInitially == Init => TypeOK
<1> SUFFICES ASSUME Init PROVE TypeOK
  OBVIOUS
<1>1. request \in Requests /\ Len(Agents) \in Nat
  BY CompositionAssumption DEF Init, Agents, IsRequest
<1>2. agent = 1 /\ capability = 1 /\ pack = 1
  BY DEF Init
<1>3. agent \in 1..(Len(Agents) + 1) /\ capability \in Nat \ {0} /\ pack \in Nat \ {0}
  BY <1>1, <1>2
<1>4. agent <= Len(Agents) =>
        capability <= Len(Specs(Agent)) + 1 /\ pack <= Len(Agent.support_packs) + 1
  <2> SUFFICES ASSUME agent <= Len(Agents)
      PROVE capability <= Len(Specs(Agent)) + 1 /\ pack <= Len(Agent.support_packs) + 1
    OBVIOUS
  <2>1. agent \in DOMAIN request.agents
    BY <1>1, <1>2, CompositionAssumption DEF Agents, IsRequest
  <2>2. Len(Specs(Agent)) \in Nat /\ Len(Agent.support_packs) \in Nat
    BY <1>1, <2>1, AgentShape DEF Agents, Agent
  <2>3. QED
    BY <1>2, <2>2
<1>5. dependencies \in Seq(Dependencies) /\ IsIndex(provider_index, Providers)
      /\ IsIndex(support_index, PackRefs)
  BY DEF Init, IsIndex
<1>6. QED
  BY <1>1, <1>3, <1>4, <1>5 DEF Init, TypeOK

\* The capability at hand, and the requirements it may be reported in.
LEMMA CapabilityAtHand ==
  ASSUME TypeOK, AtCapability
  PROVE  /\ agent <= Len(Agents)
         /\ capability \in 1..Len(Specs(Agent))
         /\ CurrentSpec \in SpecRecords
         /\ Agent.id \in AgentIds
         /\ capability + 1 \in Nat \ {0}
         /\ capability + 1 <= Len(Specs(Agent)) + 1
<1>1. agent <= Len(Agents) /\ capability <= Len(Specs(Agent))
  BY DEF AtCapability
<1>2. /\ Len(Specs(Agent)) \in Nat /\ Agent.id \in AgentIds
      /\ Specs(Agent) \in [1..Len(Specs(Agent)) -> SpecRecords]
  BY <1>1, AgentAtHand
<1>3. capability \in Nat \ {0}
  BY DEF TypeOK
<1>4. capability \in 1..Len(Specs(Agent))
  BY <1>1, <1>2, <1>3
<1>5. QED
  BY <1>1, <1>2, <1>3, <1>4 DEF CurrentSpec

\* The loop over the capabilities moves on.
LEMMA NextCapabilityTypes ==
  ASSUME TypeOK, AtCapability, NextCapability
  PROVE  /\ request' \in Requests /\ phase' \in {"agents", "resolved", "planned", "refused"}
         /\ agent' \in 1..(Len(Agents') + 1)
         /\ capability' \in Nat \ {0} /\ pack' \in Nat \ {0}
         /\ agent' <= Len(Agents') =>
              /\ capability' <= Len(Specs(Agent)') + 1
              /\ pack' <= Len(Agent.support_packs)' + 1
         /\ unresolved' \subseteq Requirements /\ multi_agent' \in BOOLEAN
         /\ inclusions' \subseteq Inclusions
<1>1. request' = request /\ agent' = agent /\ Agents' = Agents /\ Agent' = Agent
  BY DEF NextCapability, Agents, Agent
<1>2. Specs(Agent)' = Specs(Agent) /\ Len(Agent.support_packs)' = Len(Agent.support_packs)
  BY <1>1 DEF Specs
<1>3. capability' \in Nat \ {0} /\ capability' <= Len(Specs(Agent)) + 1
  BY CapabilityAtHand DEF NextCapability
<1>4. QED
  BY <1>1, <1>2, <1>3 DEF NextCapability, TypeOK

\* An index whose keys are added in step with the list stays one.
LEMMA IndexStays ==
  ASSUME TypeOK, NEW keys, NEW index, IsIndex(index, keys), NEW key \in keys,
         NEW after, after = Indexed(index, key),
         DOMAIN dependencies \subseteq DOMAIN dependencies',
         key \notin DOMAIN index => Position \in DOMAIN dependencies'
  PROVE  DOMAIN after \subseteq keys /\ \A k \in DOMAIN after : after[k] \in DOMAIN dependencies'
<1>1. /\ DOMAIN after = DOMAIN index \cup {key}
      /\ \A k \in DOMAIN index : after[k] = index[k]
      /\ key \notin DOMAIN index => after[key] = Position
  BY DEF Indexed
<1>2. DOMAIN index \subseteq keys /\ \A k \in DOMAIN index : index[k] \in DOMAIN dependencies
  BY DEF IsIndex
<1>3. ASSUME NEW k \in DOMAIN after PROVE after[k] \in DOMAIN dependencies'
  <2>1. CASE k \in DOMAIN index
    BY <1>1, <1>2, <2>1
  <2>2. CASE k \notin DOMAIN index
    BY <1>1, <1>3, <2>2
  <2>3. QED
    BY <2>1, <2>2
<1>4. QED
  BY <1>1, <1>2, <1>3

\* A binding, and what comes with it, is well formed.
LEMMA BindTypes == ASSUME TypeOK, NEW provider \in ProviderIds, Bind(provider) PROVE TypeOK'
<1>1. AtCapability /\ NextCapability /\ provider \in Providers
  BY DEF Bind
<1>2. /\ agent <= Len(Agents) /\ Agent.id \in AgentIds
      /\ CurrentSpec.id \in Capabilities /\ CurrentSpec.optional \in BOOLEAN
  BY <1>1, CapabilityAtHand DEF SpecRecords
<1>3. /\ Providers \in SUBSET (ProviderIds \cup PackRefs) /\ {provider} \in SUBSET Providers
      /\ Catalog[provider] \subseteq SetupRefs
  BY <1>1, CompositionAssumption
<1>4. IsIndex(provider_index, Providers) /\ Depend(provider_index, provider, {provider})
      /\ provider_index' = Indexed(provider_index, provider)
  BY DEF TypeOK, Bind
<1>5. /\ dependencies' \in Seq(Dependencies)
      /\ DOMAIN dependencies \subseteq DOMAIN dependencies'
      /\ provider \notin DOMAIN provider_index => Position \in DOMAIN dependencies'
  BY <1>1, <1>2, <1>3, <1>4, Depended DEF Entered
<1>6. IsIndex(provider_index, Providers)'
  <2>1. /\ DOMAIN provider_index' \subseteq Providers
        /\ \A k \in DOMAIN provider_index' : provider_index'[k] \in DOMAIN dependencies'
    BY <1>1, <1>4, <1>5, IndexStays
  <2>2. QED
    BY <2>1 DEF IsIndex, Providers
<1>7. IsIndex(support_index, PackRefs)'
  BY <1>1, <1>5 DEF NextCapability, TypeOK, IsIndex
<1>8. bindings' \subseteq Bindings
  BY <1>1, <1>2 DEF Bind, TypeOK, Bindings
<1>9. open' \subseteq Requirements
  <2>1. \A ref \in Catalog[provider] :
          [kind |-> "setup", agent |-> Agent.id, provider |-> {provider}, capability |-> {},
           setup |-> {ref}] \in Requirements
    BY <1>2, <1>3 DEF Requirements
  <2>2. QED
    BY <2>1 DEF Bind, TypeOK
<1>10. QED
  BY <1>1, <1>5, <1>6, <1>7, <1>8, <1>9, NextCapabilityTypes DEF TypeOK, Requirements, Bindings, Inclusions, Dependencies, Providers

\* So is what is reported, or skipped, instead.
LEMMA ReportTypes ==
  ASSUME TypeOK,
         \/ \E provider \in ProviderIds : ReportMissing(provider)
         \/ ReportUnselected \/ SkipOptional
  PROVE  TypeOK'
<1>1. /\ AtCapability /\ NextCapability
      /\ UNCHANGED <<bindings, dependencies, provider_index, support_index>>
  BY DEF ReportMissing, ReportUnselected, SkipOptional, NextCapability
<1>2. Agent.id \in AgentIds /\ CurrentSpec.id \in Capabilities
  BY <1>1, CapabilityAtHand DEF SpecRecords
<1>3. open' \subseteq Requirements
  BY <1>2 DEF ReportMissing, ReportUnselected, SkipOptional, Requirements, TypeOK
<1>4. /\ bindings' \subseteq Bindings /\ dependencies' \in Seq(Dependencies)
      /\ IsIndex(provider_index, Providers)' /\ IsIndex(support_index, PackRefs)'
  BY <1>1 DEF TypeOK, IsIndex
<1>5. QED
  BY <1>1, <1>3, <1>4, NextCapabilityTypes DEF TypeOK, Requirements, Bindings, Inclusions, Dependencies, Providers

\* The support pack at hand.
LEMMA PackAtHand ==
  ASSUME TypeOK, AtPack
  PROVE  /\ agent <= Len(Agents)
         /\ pack \in 1..Len(Agent.support_packs)
         /\ Agent.support_packs[pack] \in PackRefs
         /\ pack + 1 \in Nat \ {0}
         /\ pack + 1 <= Len(Agent.support_packs) + 1
<1>1. agent <= Len(Agents) /\ pack <= Len(Agent.support_packs)
  BY DEF AtPack
<1>2. PICK list \in Seq(PackRefs) : list = Agent.support_packs /\ Len(list) \in Nat
  BY <1>1, AgentAtHand
<1>3. pack \in Nat \ {0}
  BY DEF TypeOK
<1>4. pack \in 1..Len(list)
  BY <1>1, <1>2, <1>3
<1>5. list[pack] \in PackRefs
  BY <1>4, ElementOfSeq
<1>6. pack + 1 \in Nat \ {0} /\ pack + 1 <= Len(list) + 1
  BY <1>1, <1>2, <1>3
<1>7. QED
  BY <1>1, <1>2, <1>4, <1>5, <1>6

\* A support pack keeps the positions within the list.
LEMMA SupportPackTypes == ASSUME TypeOK, IncludeSupportPack PROVE TypeOK'
<1> DEFINE key == Agent.support_packs[pack]
<1>1. AtPack /\ agent <= Len(Agents) /\ key \in PackRefs
  BY PackAtHand DEF IncludeSupportPack
<1>2. /\ PackRefs \in SUBSET (ProviderIds \cup PackRefs) /\ {} \in SUBSET Providers
      /\ IsIndex(support_index, PackRefs) /\ Depend(support_index, key, {})
      /\ support_index' = Indexed(support_index, key)
  BY DEF TypeOK, IncludeSupportPack
<1>3. /\ dependencies' \in Seq(Dependencies)
      /\ DOMAIN dependencies \subseteq DOMAIN dependencies'
      /\ key \notin DOMAIN support_index => Position \in DOMAIN dependencies'
  BY <1>1, <1>2, Depended DEF Entered
<1>4. IsIndex(support_index, PackRefs)'
  <2>1. /\ DOMAIN support_index' \subseteq PackRefs
        /\ \A k \in DOMAIN support_index' : support_index'[k] \in DOMAIN dependencies'
    BY <1>1, <1>2, <1>3, IndexStays
  <2>2. QED
    BY <2>1 DEF IsIndex
<1>5. IsIndex(provider_index, Providers)'
  BY <1>3 DEF IncludeSupportPack, TypeOK, IsIndex, Providers
<1>6. /\ Agents' = Agents /\ Agent' = Agent /\ Specs(Agent)' = Specs(Agent)
      /\ Len(Agent.support_packs)' = Len(Agent.support_packs)
  BY DEF IncludeSupportPack, Agents, Agent, Specs
<1>7. pack' \in Nat \ {0} /\ pack' <= Len(Agent.support_packs) + 1
  BY <1>1, PackAtHand DEF IncludeSupportPack
<1>8. QED
  BY <1>3, <1>4, <1>5, <1>6, <1>7
     DEF IncludeSupportPack, TypeOK, Requirements, Bindings, Inclusions, Dependencies, Providers

\* The next agent starts with its first capability and its first pack.
LEMMA FinishAgentTypes == ASSUME TypeOK, FinishAgent PROVE TypeOK'
<1>1. agent <= Len(Agents) /\ Agents' = Agents /\ request' = request
  BY DEF FinishAgent, Agents
<1>2. /\ agent \in DOMAIN Agents /\ DOMAIN Agents = 1..Len(Agents) /\ Len(Agents) \in Nat
      /\ Agent.multi \in BOOLEAN
  BY <1>1, AgentAtHand
<1>3. agent' \in 1..(Len(Agents) + 1) /\ agent' = agent + 1
  BY <1>1, <1>2 DEF FinishAgent
<1>4. agent' <= Len(Agents) =>
        capability' <= Len(Specs(Agent)') + 1 /\ pack' <= Len(Agent.support_packs)' + 1
  <2> SUFFICES ASSUME agent' <= Len(Agents)
      PROVE capability' <= Len(Specs(Agent)') + 1 /\ pack' <= Len(Agent.support_packs)' + 1
    OBVIOUS
  <2>1. agent' \in DOMAIN request.agents /\ request \in Requests
    BY <1>2, <1>3 DEF Agents, TypeOK
  <2>2. PICK a : a = request.agents[agent'] /\ Len(Specs(a)) \in Nat /\ Len(a.support_packs) \in Nat
    BY <2>1, AgentShape
  <2>3. Agent' = a
    BY <1>1, <2>2 DEF Agent, Agents
  <2>4. Specs(Agent)' = Specs(a) /\ Len(Agent.support_packs)' = Len(a.support_packs)
    BY <2>3 DEF Specs
  <2>5. capability' = 1 /\ pack' = 1
    BY DEF FinishAgent
  <2>6. QED
    BY <2>2, <2>4, <2>5
<1>5. /\ dependencies' \in Seq(Dependencies)
      /\ IsIndex(provider_index, Providers)' /\ IsIndex(support_index, PackRefs)'
  BY DEF FinishAgent, TypeOK, IsIndex
<1>6. /\ unresolved' \subseteq Requirements /\ open' \subseteq Requirements
      /\ multi_agent' \in BOOLEAN
  BY <1>2 DEF FinishAgent, Reported, TypeOK
<1>7. QED
  BY <1>1, <1>3, <1>4, <1>5, <1>6
     DEF FinishAgent, TypeOK, Requirements, Bindings, Inclusions, Dependencies, Providers

\* The entries of the shared list, and the agents of packs of one id.
LEMMA PacksTypes ==
  ASSUME TypeOK
  PROVE  /\ AppPack \subseteq Inclusions
         /\ \A isProvider \in BOOLEAN : PacksById(isProvider) \subseteq Inclusions
<1>1. \A ref \in DependencyRefs : ref \in Dependencies
  <2>1. PICK list \in Seq(Dependencies) : list = dependencies
    BY DEF TypeOK
  <2>2. \A i \in DOMAIN list : list[i] \in Dependencies
    BY LenProperties, ElementOfSeq
  <2>3. QED
    BY <2>1, <2>2 DEF DependencyRefs
<1>2. ASSUME NEW isProvider \in BOOLEAN, NEW inc \in PacksById(isProvider)
      PROVE  inc \in Inclusions
  <2>1. PICK ref \in OfKind(isProvider) :
          inc = [kind |-> IF isProvider THEN "provider" ELSE "support", pack_id |-> ref.pack_id,
                 agents |-> UNION {other.agents : other \in
                              {o \in OfKind(isProvider) : o.pack_id = ref.pack_id}}]
    BY <1>2 DEF PacksById
  <2>2. ref.pack_id \in ProviderIds \cup PackRefs
    BY <1>1 DEF OfKind, Dependencies
  <2>3. \A other \in OfKind(isProvider) : other.agents \subseteq AgentIds
    BY <1>1 DEF OfKind, Dependencies
  <2>4. UNION {other.agents : other \in {o \in OfKind(isProvider) : o.pack_id = ref.pack_id}}
          \subseteq AgentIds
    BY <2>3
  <2>5. QED
    BY <2>1, <2>2, <2>4 DEF Inclusions
<1>3. AppPack \subseteq Inclusions
  <2>1. \A i \in DOMAIN Agents : Agents[i].id \in AgentIds
    BY AgentShape DEF TypeOK, Agents, IsAgent
  <2>2. QED
    BY <2>1 DEF AppPack, Inclusions
<1>4. QED
  BY <1>2, <1>3

\* What is planned is made of well-formed packs.
LEMMA EndTypes == ASSUME TypeOK, Finish \/ Refuse \/ PlanBundle \/ UNCHANGED vars PROVE TypeOK'
<1>1. /\ UNCHANGED <<request, agent, capability, pack, bindings, dependencies, provider_index,
                     support_index, open, unresolved>>
      /\ phase' \in {"agents", "resolved", "planned", "refused"}
  BY DEF Finish, Refuse, PlanBundle, vars, TypeOK
<1>2. multi_agent' \in BOOLEAN
  BY DEF Finish, Refuse, PlanBundle, vars, TypeOK
<1>3. inclusions' \subseteq Inclusions
  BY PacksTypes DEF Finish, Refuse, PlanBundle, vars, TypeOK
<1>4. /\ Agents' = Agents /\ Agent' = Agent /\ Specs(Agent)' = Specs(Agent)
      /\ Len(Agent.support_packs)' = Len(Agent.support_packs)
  BY <1>1 DEF Agents, Agent, Specs
<1>5. IsIndex(provider_index, Providers)' /\ IsIndex(support_index, PackRefs)'
  BY <1>1 DEF TypeOK, IsIndex, Providers
<1>6. QED
  BY <1>1, <1>2, <1>3, <1>4, <1>5
     DEF TypeOK, Requirements, Bindings, Inclusions, Dependencies, Providers

\* Every step keeps the types.
LEMMA TypeStep == TypeOK /\ [Next]_vars => TypeOK'
<1> SUFFICES ASSUME TypeOK, [Next]_vars PROVE TypeOK'
  OBVIOUS
<1>1. ASSUME NEW provider \in ProviderIds, Bind(provider) PROVE TypeOK'
  BY <1>1, BindTypes
<1>2. CASE \/ \E provider \in ProviderIds : ReportMissing(provider)
           \/ ReportUnselected \/ SkipOptional
  BY <1>2, ReportTypes
<1>3. CASE IncludeSupportPack
  BY <1>3, SupportPackTypes
<1>4. CASE FinishAgent
  BY <1>4, FinishAgentTypes
<1>5. CASE Finish \/ Refuse \/ PlanBundle \/ Finished \/ UNCHANGED vars
  BY <1>5, EndTypes DEF Finished
<1>6. QED
  BY <1>1, <1>2, <1>3, <1>4, <1>5 DEF Next

\* The lists and indexes of resolve keep their types, and every position kept
\* in an index is one of the shared list, whatever is asked for.
THEOREM CompositionTypeCorrect == Spec => []TypeOK
  BY TypeInitially, TypeStep, PTL DEF Spec

-----------------------------------------------------------------------------
(* The shared list and its indexes.                                        *)

\* Entry i of the list is the one its own index leads to, and applies to some
\* agent: the converse of IndexesFindTheirPacks, which needs it.
EntryIsIndexed(i) ==
  /\ dependencies[i].agents # {}
  /\ \/ /\ dependencies[i].provider = {dependencies[i].pack_id}
        /\ dependencies[i].pack_id \in DOMAIN provider_index
        /\ provider_index[dependencies[i].pack_id] = i
     \/ /\ dependencies[i].provider = {}
        /\ dependencies[i].pack_id \in DOMAIN support_index
        /\ support_index[dependencies[i].pack_id] = i

EntriesAreIndexed == \A i \in DOMAIN dependencies : EntryIsIndexed(i)

\* Whom entry i should apply to.
Served(i) ==
  IF dependencies[i].provider # {} THEN BoundTo(dependencies[i].pack_id)
                                   ELSE Supported(dependencies[i].pack_id)

ProviderFound(id) ==
  /\ dependencies[provider_index[id]].pack_id = id
  /\ dependencies[provider_index[id]].provider = {id}

SupportPackFound(ref) ==
  /\ dependencies[support_index[ref]].pack_id = ref
  /\ dependencies[support_index[ref]].provider = {}

ListInv ==
  /\ \A id \in DOMAIN provider_index : ProviderFound(id)
  /\ \A ref \in DOMAIN support_index : SupportPackFound(ref)
  /\ EntriesAreIndexed
  /\ \A i \in DOMAIN dependencies : dependencies[i].agents = Served(i)
  /\ \A binding \in bindings : binding.provider \in DOMAIN provider_index
  /\ \A ref \in PackRefs : Supported(ref) # {} => ref \in DOMAIN support_index

\* Two entries of one kind and id are led to by one index: they are one.
LEMMA ListInvSuffices == ListInv => IndexesFindTheirPacks /\ DependenciesServeTheirAgents
<1> SUFFICES ASSUME ListInv PROVE IndexesFindTheirPacks /\ DependenciesServeTheirAgents
  OBVIOUS
<1>1. ASSUME NEW i \in DOMAIN dependencies, NEW j \in DOMAIN dependencies,
             dependencies[i].pack_id = dependencies[j].pack_id,
             dependencies[i].provider = dependencies[j].provider
      PROVE  i = j
  BY <1>1 DEF ListInv, EntriesAreIndexed, EntryIsIndexed
<1>2. IndexesFindTheirPacks
  BY <1>1 DEF ListInv, ProviderFound, SupportPackFound, IndexesFindTheirPacks
<1>3. DependenciesServeTheirAgents
  BY DEF ListInv, Served, DependenciesServeTheirAgents
<1>4. QED
  BY <1>2, <1>3

\* Nothing is listed before the first agent, which is not finished.
LEMMA ListInitially == Init => ListInv
<1> SUFFICES ASSUME Init PROVE ListInv
  OBVIOUS
<1>1. /\ DOMAIN dependencies = {} /\ DOMAIN provider_index = {} /\ DOMAIN support_index = {}
      /\ bindings = {}
  BY DEF Init
<1>2. \A ref \in PackRefs : Supported(ref) = {}
  <2>1. agent = 1 /\ pack = 1 /\ request \in Requests
    BY DEF Init
  <2>2. DOMAIN Agents = 1..Len(Agents) /\ Len(Agents) \in Nat
    BY <2>1, CompositionAssumption DEF Agents, IsRequest
  <2>3. \A j \in DOMAIN Agents : ~(j < agent) /\ 1..(pack - 1) = {}
    BY <2>1, <2>2
  <2>4. QED
    BY <2>3 DEF Supported
<1>3. QED
  BY <1>1, <1>2 DEF ListInv, EntriesAreIndexed

\* A provider finds its own entry, even where a support pack has its id.
LEMMA BindKeepsList ==
  ASSUME TypeOK, ListInv, NEW provider \in ProviderIds, Bind(provider)
  PROVE  ListInv'
<1>1. /\ AtCapability /\ NextCapability /\ provider \in Providers /\ agent <= Len(Agents)
      /\ support_index' = support_index
  BY CapabilityAtHand DEF Bind, NextCapability
<1>2. /\ Providers \in SUBSET (ProviderIds \cup PackRefs) /\ {provider} \in SUBSET Providers
      /\ IsIndex(provider_index, Providers) /\ Depend(provider_index, provider, {provider})
      /\ provider_index' = Indexed(provider_index, provider)
  BY <1>1, CompositionAssumption DEF TypeOK, Bind
<1>3. PICK id \in AgentIds : id = Agent.id
  BY <1>1, AgentAtHand
<1>4. Entered(provider_index, provider, {provider})
  BY <1>1, <1>2, Depended
<1>5. /\ DOMAIN provider_index' = DOMAIN provider_index \cup {provider}
      /\ \A k \in DOMAIN provider_index : provider_index'[k] = provider_index[k]
      /\ provider \notin DOMAIN provider_index => provider_index'[provider] = Position
  BY <1>2 DEF Indexed
<1>6. /\ \A k \in DOMAIN provider_index : provider_index[k] \in DOMAIN dependencies
      /\ \A k \in DOMAIN support_index : support_index[k] \in DOMAIN dependencies
  BY DEF TypeOK, IsIndex
<1>7. ASSUME NEW i \in DOMAIN dependencies' \ DOMAIN dependencies
      PROVE  /\ provider \notin DOMAIN provider_index /\ i = Position
             /\ dependencies'[i].pack_id = provider
             /\ dependencies'[i].provider = {provider} /\ dependencies'[i].agents = {id}
  BY <1>3, <1>4 DEF Entered
<1>8. ASSUME NEW i \in DOMAIN dependencies' PROVE EntryIsIndexed(i)'
  <2>1. CASE i \in DOMAIN dependencies
    <3>1. EntryIsIndexed(i)
      BY <2>1 DEF ListInv, EntriesAreIndexed
    <3>2. QED
      BY <1>1, <1>4, <1>5, <2>1, <3>1 DEF EntryIsIndexed, Entered
  <2>2. CASE i \notin DOMAIN dependencies
    BY <1>5, <1>7, <1>8, <2>2 DEF EntryIsIndexed
  <2>3. QED
    BY <2>1, <2>2
<1>9. ASSUME NEW k \in DOMAIN provider_index' PROVE ProviderFound(k)'
  <2>1. CASE k \in DOMAIN provider_index
    <3>1. ProviderFound(k) /\ provider_index'[k] = provider_index[k]
          /\ provider_index[k] \in DOMAIN dependencies
      BY <1>5, <1>6, <2>1 DEF ListInv
    <3>2. QED
      BY <1>4, <3>1 DEF ProviderFound, Entered
  <2>2. CASE k \notin DOMAIN provider_index
    <3>1. /\ k = provider /\ provider_index'[k] = Position
          /\ Position \in DOMAIN dependencies' \ DOMAIN dependencies
      BY <1>4, <1>5, <1>9, <2>2 DEF Entered
    <3>2. QED
      BY <1>7, <3>1 DEF ProviderFound
  <2>3. QED
    BY <2>1, <2>2
<1>10. ASSUME NEW k \in DOMAIN support_index' PROVE SupportPackFound(k)'
  <2>1. SupportPackFound(k) /\ support_index'[k] = support_index[k]
        /\ support_index[k] \in DOMAIN dependencies
    BY <1>1, <1>6, <1>10 DEF ListInv
  <2>2. QED
    BY <1>4, <2>1 DEF SupportPackFound, Entered
<1>11. ASSUME NEW other
       PROVE  BoundTo(other)' = IF other = provider THEN BoundTo(other) \cup {id} ELSE BoundTo(other)
  <2> DEFINE new == [agent |-> id, capability |-> CurrentSpec.id, provider |-> provider,
                     optional |-> CurrentSpec.optional]
  <2>1. bindings' = bindings \cup {new} /\ new.agent = id /\ new.provider = provider
    BY <1>3 DEF Bind
  <2> HIDE DEF new
  <2>2. QED
    BY <2>1 DEF BoundTo
<1>12. \A ref : Supported(ref)' = Supported(ref)
  BY <1>1 DEF NextCapability, Supported, Agents
<1>13. ASSUME NEW i \in DOMAIN dependencies' PROVE dependencies'[i].agents = Served(i)'
  <2>1. CASE i \in DOMAIN dependencies
    <3>1. EntryIsIndexed(i) /\ dependencies[i].agents = Served(i)
      BY <2>1 DEF ListInv, EntriesAreIndexed
    <3>2. /\ dependencies'[i].pack_id = dependencies[i].pack_id
          /\ dependencies'[i].provider = dependencies[i].provider
      BY <1>4, <2>1 DEF Entered
    <3>3. (provider \in DOMAIN provider_index /\ i = provider_index[provider]) <=>
            dependencies[i].provider # {} /\ dependencies[i].pack_id = provider
      BY <3>1 DEF ListInv, ProviderFound, EntryIsIndexed
    <3>4. CASE dependencies[i].provider = {}
      <4>1. dependencies'[i].agents = dependencies[i].agents
        BY <1>4, <2>1, <3>3, <3>4 DEF Entered
      <4>2. QED
        BY <1>12, <3>1, <3>2, <3>4, <4>1 DEF Served
    <3>5. CASE dependencies[i].provider # {} /\ dependencies[i].pack_id = provider
      <4>1. dependencies'[i].agents = dependencies[i].agents \cup {id}
        BY <1>3, <1>4, <2>1, <3>3, <3>5 DEF Entered
      <4>2. QED
        BY <1>11, <3>1, <3>2, <3>5, <4>1 DEF Served
    <3>6. CASE dependencies[i].provider # {} /\ dependencies[i].pack_id # provider
      <4>1. dependencies'[i].agents = dependencies[i].agents
        BY <1>4, <2>1, <3>3, <3>6 DEF Entered
      <4>2. QED
        BY <1>11, <3>1, <3>2, <3>6, <4>1 DEF Served
    <3>7. QED
      BY <3>4, <3>5, <3>6
  <2>2. CASE i \notin DOMAIN dependencies
    <3>1. /\ provider \notin DOMAIN provider_index /\ dependencies'[i].pack_id = provider
          /\ dependencies'[i].provider = {provider} /\ dependencies'[i].agents = {id}
      BY <1>7, <1>13, <2>2
    <3>2. BoundTo(provider) = {}
      BY <3>1 DEF ListInv, BoundTo
    <3>3. QED
      BY <1>11, <3>1, <3>2 DEF Served
  <2>3. QED
    BY <2>1, <2>2
<1>14. \A binding \in bindings' : binding.provider \in DOMAIN provider_index'
  BY <1>5 DEF Bind, ListInv
<1>15. \A ref \in PackRefs : Supported(ref)' # {} => ref \in DOMAIN support_index'
  BY <1>1, <1>12 DEF ListInv
<1>16. QED
  BY <1>8, <1>9, <1>10, <1>13, <1>14, <1>15 DEF ListInv, EntriesAreIndexed

\* The support packs of the agents so far, when one more is at hand.
LEMMA SupportPackCounts ==
  ASSUME TypeOK, IncludeSupportPack, NEW ref
  PROVE  Supported(ref)' = IF ref = Agent.support_packs[pack] THEN Supported(ref) \cup {Agent.id}
                                                            ELSE Supported(ref)
<1>1. /\ pack \in Nat \ {0} /\ agent \in DOMAIN Agents /\ pack' = pack + 1
      /\ agent' = agent /\ Agents' = Agents
  BY PackAtHand, AgentAtHand DEF TypeOK, IncludeSupportPack, Agents
<1>2. 1..(pack' - 1) = 1..(pack - 1) \cup {pack}
  BY <1>1
<1>3. PICK a : a = Agents[agent] /\ a = Agent
  BY DEF Agent
<1>4. ASSUME NEW j \in DOMAIN Agents
      PROVE  (j = agent /\ \E k \in 1..(pack' - 1) : Agents[j].support_packs[k] = ref)
             <=> \/ j = agent /\ \E k \in 1..(pack - 1) : Agents[j].support_packs[k] = ref
                 \/ j = agent /\ a.support_packs[pack] = ref
  BY <1>2, <1>3
<1>5. Supported(ref)' =
        {Agents[i].id : i \in {j \in DOMAIN Agents :
           \/ j < agent /\ \E k \in DOMAIN Agents[j].support_packs : Agents[j].support_packs[k] = ref
           \/ j = agent /\ \E k \in 1..(pack' - 1) : Agents[j].support_packs[k] = ref}}
  BY <1>1 DEF Supported
<1>6. CASE ref = a.support_packs[pack]
  <2>1. Supported(ref)' = Supported(ref) \cup {a.id}
    BY <1>1, <1>3, <1>4, <1>5, <1>6, ZenonT(40) DEF Supported
  <2>2. QED
    BY <1>3, <1>6, <2>1
<1>7. CASE ref # a.support_packs[pack]
  <2>1. Supported(ref)' = Supported(ref)
    BY <1>4, <1>5, <1>7 DEF Supported
  <2>2. QED
    BY <1>3, <1>7, <2>1
<1>8. QED
  BY <1>6, <1>7

\* A support pack finds its own entry, even where a provider has its id.
LEMMA SupportPackKeepsList == ASSUME TypeOK, ListInv, IncludeSupportPack PROVE ListInv'
<1>1. PICK key \in PackRefs : key = Agent.support_packs[pack]
  BY PackAtHand DEF IncludeSupportPack
<1>2. /\ agent <= Len(Agents) /\ provider_index' = provider_index /\ bindings' = bindings
      /\ IsIndex(support_index, PackRefs) /\ Depend(support_index, key, {})
      /\ support_index' = Indexed(support_index, key)
  BY <1>1 DEF IncludeSupportPack, AtPack, TypeOK
<1>3. PICK id \in AgentIds : id = Agent.id
  BY <1>2, AgentAtHand
<1>4. Entered(support_index, key, {})
  <2>1. PackRefs \in SUBSET (ProviderIds \cup PackRefs) /\ {} \in SUBSET Providers
    OBVIOUS
  <2>2. QED
    BY <1>2, <2>1, Depended
<1>5. /\ DOMAIN support_index' = DOMAIN support_index \cup {key}
      /\ \A k \in DOMAIN support_index : support_index'[k] = support_index[k]
      /\ key \notin DOMAIN support_index => support_index'[key] = Position
  BY <1>2 DEF Indexed
<1>6. /\ \A k \in DOMAIN provider_index : provider_index[k] \in DOMAIN dependencies
      /\ \A k \in DOMAIN support_index : support_index[k] \in DOMAIN dependencies
  BY DEF TypeOK, IsIndex
<1>7. ASSUME NEW i \in DOMAIN dependencies' \ DOMAIN dependencies
      PROVE  /\ key \notin DOMAIN support_index /\ i = Position
             /\ dependencies'[i].pack_id = key
             /\ dependencies'[i].provider = {} /\ dependencies'[i].agents = {id}
  BY <1>3, <1>4 DEF Entered
<1>8. ASSUME NEW i \in DOMAIN dependencies' PROVE EntryIsIndexed(i)'
  <2>1. CASE i \in DOMAIN dependencies
    <3>1. EntryIsIndexed(i)
      BY <2>1 DEF ListInv, EntriesAreIndexed
    <3>2. QED
      BY <1>2, <1>4, <1>5, <2>1, <3>1 DEF EntryIsIndexed, Entered
  <2>2. CASE i \notin DOMAIN dependencies
    BY <1>5, <1>7, <1>8, <2>2 DEF EntryIsIndexed
  <2>3. QED
    BY <2>1, <2>2
<1>9. ASSUME NEW k \in DOMAIN support_index' PROVE SupportPackFound(k)'
  <2>1. CASE k \in DOMAIN support_index
    <3>1. SupportPackFound(k) /\ support_index'[k] = support_index[k]
          /\ support_index[k] \in DOMAIN dependencies
      BY <1>5, <1>6, <2>1 DEF ListInv
    <3>2. QED
      BY <1>4, <3>1 DEF SupportPackFound, Entered
  <2>2. CASE k \notin DOMAIN support_index
    <3>1. /\ k = key /\ support_index'[k] = Position
          /\ Position \in DOMAIN dependencies' \ DOMAIN dependencies
      BY <1>4, <1>5, <1>9, <2>2 DEF Entered
    <3>2. QED
      BY <1>7, <3>1 DEF SupportPackFound
  <2>3. QED
    BY <2>1, <2>2
<1>10. ASSUME NEW k \in DOMAIN provider_index' PROVE ProviderFound(k)'
  <2>1. ProviderFound(k) /\ provider_index'[k] = provider_index[k]
        /\ provider_index[k] \in DOMAIN dependencies
    BY <1>2, <1>6, <1>10 DEF ListInv
  <2>2. QED
    BY <1>4, <2>1 DEF ProviderFound, Entered
<1>11. \A ref : Supported(ref)' = IF ref = key THEN Supported(ref) \cup {id} ELSE Supported(ref)
  BY <1>1, <1>3, SupportPackCounts
<1>12. \A other : BoundTo(other)' = BoundTo(other)
  BY <1>2 DEF BoundTo
<1>13. ASSUME NEW i \in DOMAIN dependencies' PROVE dependencies'[i].agents = Served(i)'
  <2>1. CASE i \in DOMAIN dependencies
    <3>1. EntryIsIndexed(i) /\ dependencies[i].agents = Served(i)
      BY <2>1 DEF ListInv, EntriesAreIndexed
    <3>2. /\ dependencies'[i].pack_id = dependencies[i].pack_id
          /\ dependencies'[i].provider = dependencies[i].provider
      BY <1>4, <2>1 DEF Entered
    <3>3. (key \in DOMAIN support_index /\ i = support_index[key]) <=>
            dependencies[i].provider = {} /\ dependencies[i].pack_id = key
      BY <3>1 DEF ListInv, SupportPackFound, EntryIsIndexed
    <3>4. CASE dependencies[i].provider # {}
      <4>1. dependencies'[i].agents = dependencies[i].agents
        BY <1>4, <2>1, <3>3, <3>4 DEF Entered
      <4>2. QED
        BY <1>12, <3>1, <3>2, <3>4, <4>1 DEF Served
    <3>5. CASE dependencies[i].provider = {} /\ dependencies[i].pack_id = key
      <4>1. dependencies'[i].agents = dependencies[i].agents \cup {id}
        BY <1>3, <1>4, <2>1, <3>3, <3>5 DEF Entered
      <4>2. QED
        BY <1>11, <3>1, <3>2, <3>5, <4>1 DEF Served
    <3>6. CASE dependencies[i].provider = {} /\ dependencies[i].pack_id # key
      <4>1. dependencies'[i].agents = dependencies[i].agents
        BY <1>4, <2>1, <3>3, <3>6 DEF Entered
      <4>2. QED
        BY <1>11, <3>1, <3>2, <3>6, <4>1 DEF Served
    <3>7. QED
      BY <3>4, <3>5, <3>6
  <2>2. CASE i \notin DOMAIN dependencies
    <3>1. /\ key \notin DOMAIN support_index /\ dependencies'[i].pack_id = key
          /\ dependencies'[i].provider = {} /\ dependencies'[i].agents = {id}
      BY <1>7, <1>13, <2>2
    <3>2. Supported(key) = {}
      BY <3>1 DEF ListInv
    <3>3. QED
      BY <1>11, <3>1, <3>2 DEF Served
  <2>3. QED
    BY <2>1, <2>2
<1>14. \A binding \in bindings' : binding.provider \in DOMAIN provider_index'
  BY <1>2 DEF ListInv
<1>15. \A ref \in PackRefs : Supported(ref)' # {} => ref \in DOMAIN support_index'
  BY <1>5, <1>11 DEF ListInv
<1>16. QED
  BY <1>8, <1>9, <1>10, <1>13, <1>14, <1>15 DEF ListInv, EntriesAreIndexed

\* An agent that is finished has asked for exactly the packs that were looked at.
LEMMA FinishAgentCounts ==
  ASSUME TypeOK, FinishAgent, NEW ref
  PROVE  Supported(ref)' = Supported(ref)
<1>1. PICK packs \in Seq(PackRefs) : packs = Agent.support_packs /\ Len(packs) \in Nat
  BY AgentAtHand DEF FinishAgent
<1>2. /\ pack = Len(packs) + 1 /\ agent \in Nat /\ Agents' = Agents
      /\ agent' = agent + 1 /\ pack' = 1
  BY <1>1 DEF FinishAgent, TypeOK, Agents
<1>3. 1..(pack - 1) = DOMAIN packs /\ 1..(pack' - 1) = {}
  BY <1>1, <1>2, LenProperties
<1>4. DOMAIN Agents = 1..Len(Agents) /\ Len(Agents) \in Nat
  BY AgentAtHand DEF FinishAgent
<1>5. packs = Agents[agent].support_packs
  BY <1>1 DEF Agent
<1>6. \A j \in DOMAIN Agents :
        /\ j < agent' <=> j < agent \/ j = agent
        /\ j = agent => Agents[j].support_packs = packs
  BY <1>2, <1>4, <1>5
<1>7. \A j \in DOMAIN Agents :
        (\/ j < agent' /\ \E k \in DOMAIN Agents[j].support_packs : Agents[j].support_packs[k] = ref
         \/ j = agent' /\ \E k \in 1..(pack' - 1) : Agents[j].support_packs[k] = ref)
        <=>
        (\/ j < agent /\ \E k \in DOMAIN Agents[j].support_packs : Agents[j].support_packs[k] = ref
         \/ j = agent /\ \E k \in 1..(pack - 1) : Agents[j].support_packs[k] = ref)
  BY <1>3, <1>6
<1>8. QED
  BY <1>2, <1>7 DEF Supported

\* Every step keeps the list in order.
LEMMA ListStep == TypeOK /\ ListInv /\ [Next]_vars => ListInv'
<1> SUFFICES ASSUME TypeOK, ListInv, [Next]_vars PROVE ListInv'
  OBVIOUS
<1>1. ASSUME UNCHANGED <<bindings, dependencies, provider_index, support_index>>,
             \A ref : Supported(ref)' = Supported(ref)
      PROVE  ListInv'
  <2>1. \A i \in DOMAIN dependencies' : EntryIsIndexed(i)' /\ dependencies'[i].agents = Served(i)'
    <3> SUFFICES ASSUME NEW i \in DOMAIN dependencies
        PROVE EntryIsIndexed(i)' /\ dependencies'[i].agents = Served(i)'
      BY <1>1
    <3>1. EntryIsIndexed(i) /\ dependencies[i].agents = Served(i)
      BY DEF ListInv, EntriesAreIndexed
    <3>2. EntryIsIndexed(i)'
      BY <1>1, <3>1 DEF EntryIsIndexed
    <3>3. Served(i)' = Served(i)
      BY <1>1 DEF Served, BoundTo
    <3>4. QED
      BY <1>1, <3>1, <3>2, <3>3
  <2>2. /\ \A id \in DOMAIN provider_index' : ProviderFound(id)'
        /\ \A ref \in DOMAIN support_index' : SupportPackFound(ref)'
    BY <1>1 DEF ListInv, ProviderFound, SupportPackFound
  <2>3. \A ref \in PackRefs : Supported(ref)' # {} => ref \in DOMAIN support_index'
    BY <1>1 DEF ListInv
  <2>4. \A binding \in bindings' : binding.provider \in DOMAIN provider_index'
    BY <1>1 DEF ListInv
  <2>5. QED
    BY <2>1, <2>2, <2>3, <2>4 DEF ListInv, EntriesAreIndexed
<1>2. ASSUME NEW provider \in ProviderIds, Bind(provider) PROVE ListInv'
  BY <1>2, BindKeepsList
<1>3. CASE IncludeSupportPack
  BY <1>3, SupportPackKeepsList
<1>4. CASE FinishAgent
  BY <1>1, <1>4, FinishAgentCounts DEF FinishAgent
<1>5. CASE \/ \E provider \in ProviderIds : ReportMissing(provider)
           \/ ReportUnselected \/ SkipOptional
           \/ Finish \/ Refuse \/ PlanBundle \/ Finished \/ UNCHANGED vars
  <2>1. UNCHANGED <<request, agent, pack, bindings, dependencies, provider_index, support_index>>
    BY <1>5 DEF ReportMissing, ReportUnselected, SkipOptional, NextCapability, Finish, Refuse,
                PlanBundle, Finished, vars
  <2>2. \A ref : Supported(ref)' = Supported(ref)
    BY <2>1 DEF Supported, Agents
  <2>3. QED
    BY <1>1, <2>1, <2>2
<1>6. QED
  BY <1>2, <1>3, <1>4, <1>5 DEF Next

\* Hence the list is in order in every state.
LEMMA ListInvariant == Spec => [](TypeOK /\ ListInv)
  BY TypeInitially, TypeStep, ListInitially, ListStep, PTL DEF Spec

\* However many agents share packs and in whatever order they ask for them, no
\* index leads to a foreign entry and no pack is entered twice (resolve).
THEOREM PacksAreFound == Spec => []IndexesFindTheirPacks
  BY ListInvariant, ListInvSuffices, PTL

\* Every entry of the shared list applies to exactly the agents that are bound
\* to its provider or ask for its support pack (resolve).
THEOREM PacksServeTheirAgents == Spec => []DependenciesServeTheirAgents
  BY ListInvariant, ListInvSuffices, PTL

-----------------------------------------------------------------------------
(* The bundle.                                                             *)

\* What was planned is what the list held (to_bundle_plan), which is not
\* touched any more.
Planned == phase = "planned" => inclusions = AppPack \cup PacksById(TRUE) \cup PacksById(FALSE)

\* Only PlanBundle plans, and nothing is listed afterwards.
LEMMA PlannedStep == Planned /\ [Next]_vars => Planned'
<1> SUFFICES ASSUME Planned, [Next]_vars, phase' = "planned"
    PROVE  inclusions' = (AppPack \cup PacksById(TRUE) \cup PacksById(FALSE))'
  BY DEF Planned
<1>1. ASSUME dependencies' = dependencies, request' = request
      PROVE  (AppPack \cup PacksById(TRUE) \cup PacksById(FALSE))' =
               AppPack \cup PacksById(TRUE) \cup PacksById(FALSE)
  <2>1. \A isProvider : OfKind(isProvider)' = OfKind(isProvider)
    BY <1>1 DEF OfKind, DependencyRefs
  <2>2. PacksById(TRUE)' = PacksById(TRUE)
    BY <2>1 DEF PacksById
  <2>3. PacksById(FALSE)' = PacksById(FALSE)
    BY <2>1 DEF PacksById
  <2>4. AppPack' = AppPack
    BY <1>1 DEF AppPack, Agents
  <2>5. QED
    BY <2>2, <2>3, <2>4
<1>2. CASE PlanBundle
  BY <1>1, <1>2 DEF PlanBundle
<1>3. CASE Finished \/ UNCHANGED vars
  BY <1>1, <1>3 DEF Finished, vars, Planned
<1>4. QED
  BY <1>2, <1>3 DEF Next, Bind, ReportMissing, ReportUnselected, SkipOptional, AtCapability,
       NextCapability, IncludeSupportPack, AtPack, FinishAgent, Finish, Refuse

\* The one entry of its kind and id in the list is the one pack of the bundle.
LEMMA OnePackOfAKind ==
  ASSUME ListInv, NEW isProvider \in BOOLEAN, NEW i \in DOMAIN dependencies,
         (dependencies[i].provider # {}) <=> isProvider
  PROVE  {inc \in PacksById(isProvider) : inc.pack_id = dependencies[i].pack_id} =
           {[kind |-> IF isProvider THEN "provider" ELSE "support",
             pack_id |-> dependencies[i].pack_id, agents |-> dependencies[i].agents]}
<1>1. PICK entry : entry = dependencies[i]
  OBVIOUS
<1>2. \A j \in DOMAIN dependencies :
        /\ (dependencies[j].provider # {}) <=> isProvider
        /\ dependencies[j].pack_id = entry.pack_id
        => j = i
  BY <1>1 DEF ListInv, EntriesAreIndexed, EntryIsIndexed
<1>3. {o \in OfKind(isProvider) : o.pack_id = entry.pack_id} = {entry}
  BY <1>1, <1>2 DEF OfKind, DependencyRefs
<1>4. UNION {other.agents : other \in {o \in OfKind(isProvider) : o.pack_id = entry.pack_id}}
        = entry.agents
  BY <1>3
<1>5. entry \in OfKind(isProvider)
  BY <1>3
<1>6. PICK pack_of : pack_of = [kind |-> IF isProvider THEN "provider" ELSE "support",
                                pack_id |-> entry.pack_id, agents |-> entry.agents]
  OBVIOUS
<1>7. pack_of \in PacksById(isProvider) /\ pack_of.pack_id = entry.pack_id
  BY <1>4, <1>5, <1>6 DEF PacksById
<1>8. ASSUME NEW inc \in PacksById(isProvider), inc.pack_id = entry.pack_id PROVE inc = pack_of
  <2>1. PICK ref \in OfKind(isProvider) :
          inc = [kind |-> IF isProvider THEN "provider" ELSE "support", pack_id |-> ref.pack_id,
                 agents |-> UNION {other.agents : other \in
                              {o \in OfKind(isProvider) : o.pack_id = ref.pack_id}}]
    BY <1>8 DEF PacksById
  <2>2. ref.pack_id = entry.pack_id
    BY <1>8, <2>1
  <2>3. QED
    BY <1>4, <1>6, <2>1, <2>2
<1>9. QED
  BY <1>1, <1>6, <1>7, <1>8

\* Every pack of the bundle is an entry of the list.
LEMMA PacksHaveEntries ==
  ASSUME NEW isProvider \in BOOLEAN, NEW inc \in PacksById(isProvider)
  PROVE  /\ inc.kind = IF isProvider THEN "provider" ELSE "support"
         /\ \E i \in DOMAIN dependencies : /\ (dependencies[i].provider # {}) <=> isProvider
                                          /\ inc.pack_id = dependencies[i].pack_id
<1>1. PICK ref \in OfKind(isProvider) :
        inc = [kind |-> IF isProvider THEN "provider" ELSE "support", pack_id |-> ref.pack_id,
               agents |-> UNION {other.agents : other \in
                            {o \in OfKind(isProvider) : o.pack_id = ref.pack_id}}]
  BY DEF PacksById
<1>2. PICK i \in DOMAIN dependencies : ref = dependencies[i]
  BY DEF OfKind, DependencyRefs
<1>3. (ref.provider # {}) <=> isProvider
  BY DEF OfKind
<1>4. QED
  BY <1>1, <1>2, <1>3

\* So the list in order makes a bundle in order.
LEMMA PlannedSuffices == TypeOK /\ ListInv /\ Planned => BundleServesTheAgents
<1> SUFFICES ASSUME TypeOK, ListInv, Planned, phase = "planned"
    PROVE  BundleServesTheAgents
  BY DEF BundleServesTheAgents
<1>1. inclusions = AppPack \cup PacksById(TRUE) \cup PacksById(FALSE)
  BY DEF Planned
<1>2. \A inc \in PacksById(TRUE) :
        /\ inc.kind = "provider"
        /\ \E i \in DOMAIN dependencies : /\ dependencies[i].provider # {}
                                         /\ inc.pack_id = dependencies[i].pack_id
  BY PacksHaveEntries
<1>3. \A inc \in PacksById(FALSE) :
        /\ inc.kind = "support"
        /\ \E i \in DOMAIN dependencies : /\ dependencies[i].provider = {}
                                         /\ inc.pack_id = dependencies[i].pack_id
  BY PacksHaveEntries
<1>4. \A inc \in AppPack : inc.kind = "app"
  BY DEF AppPack
<1>5. ASSUME NEW id \in Providers
      PROVE  LET included == {inc \in inclusions : inc.kind = "provider" /\ inc.pack_id = id}
             IN  IF BoundTo(id) = {} THEN included = {}
                 ELSE \E inc \in included : included = {inc} /\ inc.agents = BoundTo(id)
  <2>1. PICK included : included = {inc \in inclusions : inc.kind = "provider" /\ inc.pack_id = id}
    OBVIOUS
  <2>2. included = {inc \in PacksById(TRUE) : inc.pack_id = id}
    BY <1>1, <1>2, <1>3, <1>4, <2>1
  <2>3. \A inc \in included :
          \E i \in DOMAIN dependencies :
            dependencies[i].provider # {} /\ dependencies[i].pack_id = id
    <3> SUFFICES ASSUME NEW inc \in included
        PROVE  \E i \in DOMAIN dependencies :
                 dependencies[i].provider # {} /\ dependencies[i].pack_id = id
      OBVIOUS
    <3>1. PICK i \in DOMAIN dependencies :
            dependencies[i].provider # {} /\ inc.pack_id = dependencies[i].pack_id
      BY <1>2, <2>2
    <3>2. inc.pack_id = id
      BY <2>2
    <3>3. QED
      BY <3>1, <3>2
  <2>4. \A i \in DOMAIN dependencies :
          dependencies[i].provider # {} /\ dependencies[i].pack_id = id =>
            /\ dependencies[i].agents = BoundTo(id)
            /\ dependencies[i].agents # {}
    BY DEF ListInv, EntriesAreIndexed, EntryIsIndexed, Served
  <2>5. CASE BoundTo(id) = {}
    BY <2>1, <2>3, <2>4, <2>5
  <2>6. CASE BoundTo(id) # {}
    <3>1. id \in DOMAIN provider_index
      BY <2>6 DEF ListInv, BoundTo
    <3>2. PICK i \in DOMAIN dependencies :
            dependencies[i].provider # {} /\ dependencies[i].pack_id = id
      BY <3>1 DEF ListInv, ProviderFound, TypeOK, IsIndex
    <3>3. PICK one : one = [kind |-> "provider", pack_id |-> id, agents |-> BoundTo(id)]
      OBVIOUS
    <3>4. {inc \in PacksById(TRUE) : inc.pack_id = id} = {one}
      <4>1. {inc \in PacksById(TRUE) : inc.pack_id = dependencies[i].pack_id} =
              {[kind |-> "provider", pack_id |-> dependencies[i].pack_id,
                agents |-> dependencies[i].agents]}
        BY <3>2, OnePackOfAKind
      <4>2. QED
        BY <2>4, <3>2, <3>3, <4>1
    <3>5. one.agents = BoundTo(id)
      BY <3>3
    <3>6. QED
      BY <2>1, <2>2, <2>6, <3>4, <3>5
  <2>7. QED
    BY <2>5, <2>6
<1>6. ASSUME NEW ref \in PackRefs
      PROVE  LET included == {inc \in inclusions : inc.kind = "support" /\ inc.pack_id = ref}
             IN  IF Supported(ref) = {} THEN included = {}
                 ELSE \E inc \in included : included = {inc} /\ inc.agents = Supported(ref)
  <2>1. PICK included : included = {inc \in inclusions : inc.kind = "support" /\ inc.pack_id = ref}
    OBVIOUS
  <2>2. included = {inc \in PacksById(FALSE) : inc.pack_id = ref}
    BY <1>1, <1>2, <1>3, <1>4, <2>1
  <2>3. \A inc \in included :
          \E i \in DOMAIN dependencies :
            dependencies[i].provider = {} /\ dependencies[i].pack_id = ref
    <3> SUFFICES ASSUME NEW inc \in included
        PROVE  \E i \in DOMAIN dependencies :
                 dependencies[i].provider = {} /\ dependencies[i].pack_id = ref
      OBVIOUS
    <3>1. PICK i \in DOMAIN dependencies :
            dependencies[i].provider = {} /\ inc.pack_id = dependencies[i].pack_id
      BY <1>3, <2>2
    <3>2. inc.pack_id = ref
      BY <2>2
    <3>3. QED
      BY <3>1, <3>2
  <2>4. \A i \in DOMAIN dependencies :
          dependencies[i].provider = {} /\ dependencies[i].pack_id = ref =>
            /\ dependencies[i].agents = Supported(ref)
            /\ dependencies[i].agents # {}
    BY DEF ListInv, EntriesAreIndexed, EntryIsIndexed, Served
  <2>5. CASE Supported(ref) = {}
    BY <2>1, <2>3, <2>4, <2>5
  <2>6. CASE Supported(ref) # {}
    <3>1. ref \in DOMAIN support_index
      BY <2>6 DEF ListInv
    <3>2. PICK i \in DOMAIN dependencies :
            dependencies[i].provider = {} /\ dependencies[i].pack_id = ref
      BY <3>1 DEF ListInv, SupportPackFound, TypeOK, IsIndex
    <3>3. PICK one : one = [kind |-> "support", pack_id |-> ref, agents |-> Supported(ref)]
      OBVIOUS
    <3>4. {inc \in PacksById(FALSE) : inc.pack_id = ref} = {one}
      <4>1. {inc \in PacksById(FALSE) : inc.pack_id = dependencies[i].pack_id} =
              {[kind |-> "support", pack_id |-> dependencies[i].pack_id,
                agents |-> dependencies[i].agents]}
        BY <3>2, OnePackOfAKind
      <4>2. QED
        BY <2>4, <3>2, <3>3, <4>1
    <3>5. one.agents = Supported(ref)
      BY <3>3
    <3>6. QED
      BY <2>1, <2>2, <2>6, <3>4, <3>5
  <2>7. QED
    BY <2>5, <2>6
<1>7. QED
  BY <1>5, <1>6 DEF BundleServesTheAgents

\* Nothing is planned at first.
LEMMA PlannedInitially == Init => Planned
  BY DEF Init, Planned

\* The bundle includes every pack some agent needs, once of its kind, for
\* exactly the agents that need it, and nothing else (to_bundle_plan).
THEOREM BundleIsRight == Spec => []BundleServesTheAgents
  BY ListInvariant, PlannedInitially, PlannedStep, PlannedSuffices, PTL DEF Spec

-----------------------------------------------------------------------------
(* Every capability is settled before the loop leaves it.                  *)

\* What NothingIsForgotten asks of one capability of an agent, for given
\* shared overrides, bindings and items.
SettledBy(shared, made, a, spec, items) ==
  \/ \E binding \in made :
       /\ binding.agent = a.id
       /\ binding.capability = spec.id
       /\ LET asked == OrElse(Choice(a.overrides, spec.id), Choice(shared, spec.id))
          IN  asked # {} => binding.provider \in asked
       /\ \A ref \in Catalog[binding.provider] :
            \E item \in items : /\ item.agent = a.id
                               /\ item.provider = {binding.provider}
                               /\ item.setup = {ref}
  \/ \E item \in items : item.agent = a.id /\ item.capability = {spec.id}
  \/ spec.optional

\* The agents left behind are settled by what is recorded, the capabilities of
\* the agent at hand that were looked at by what is being gathered for it.
Covered ==
  /\ \A i \in DOMAIN Agents : i < agent =>
       \A k \in DOMAIN Specs(Agents[i]) :
         SettledBy(request.shared, bindings, Agents[i], Specs(Agents[i])[k], unresolved)
  /\ agent <= Len(Agents) =>
       \A k \in DOMAIN Specs(Agent) : k < capability =>
         SettledBy(request.shared, bindings, Agent, Specs(Agent)[k], open)
  /\ phase = "resolved" => agent > Len(Agents)

\* More bindings and more items settle no less.
LEMMA SettledGrows ==
  ASSUME NEW shared, NEW made, NEW more, made \subseteq more, NEW a, NEW spec,
         NEW items, NEW further, items \subseteq further,
         SettledBy(shared, made, a, spec, items)
  PROVE  SettledBy(shared, more, a, spec, further)
<1>1. CASE \E item \in items : item.agent = a.id /\ item.capability = {spec.id}
  BY <1>1 DEF SettledBy
<1>2. CASE spec.optional
  BY <1>2 DEF SettledBy
<1>3. CASE ~spec.optional /\ ~\E item \in items : item.agent = a.id /\ item.capability = {spec.id}
  <2> DEFINE asked == OrElse(Choice(a.overrides, spec.id), Choice(shared, spec.id))
  <2>1. PICK binding \in made :
          /\ binding.agent = a.id
          /\ binding.capability = spec.id
          /\ asked # {} => binding.provider \in asked
          /\ \A ref \in Catalog[binding.provider] :
               \E item \in items : /\ item.agent = a.id
                                  /\ item.provider = {binding.provider}
                                  /\ item.setup = {ref}
    BY <1>3 DEF SettledBy
  <2> HIDE DEF asked
  <2>2. \A ref \in Catalog[binding.provider] :
          \E item \in further : /\ item.agent = a.id
                               /\ item.provider = {binding.provider}
                               /\ item.setup = {ref}
    BY <2>1
  <2>3. QED
    BY <2>1, <2>2 DEF SettledBy, asked
<1>4. QED
  BY <1>1, <1>2, <1>3

\* A capability that is settled when the loop goes on keeps everything covered.
LEMMA SettledCapability ==
  ASSUME TypeOK, Covered, AtCapability, NextCapability,
         bindings \subseteq bindings', open \subseteq open',
         SettledBy(request.shared, bindings', Agent, CurrentSpec, open')
  PROVE  Covered'
<1>1. /\ UNCHANGED <<request, agent, phase, unresolved>> /\ capability' = capability + 1
      /\ capability \in Nat /\ phase = "agents" /\ agent <= Len(Agents)
      /\ Agents' = Agents /\ Agent' = Agent
  BY DEF NextCapability, AtCapability, TypeOK, Agents, Agent
<1>2. DOMAIN Specs(Agent) \subseteq Nat
  BY <1>1, AgentAtHand
<1>3. ASSUME NEW i \in DOMAIN Agents, i < agent, NEW k \in DOMAIN Specs(Agents[i])
      PROVE  SettledBy(request.shared, bindings', Agents[i], Specs(Agents[i])[k], unresolved)
  BY <1>3, SettledGrows DEF Covered
<1>4. ASSUME NEW k \in DOMAIN Specs(Agent), k < capability + 1
      PROVE  SettledBy(request.shared, bindings', Agent, Specs(Agent)[k], open')
  <2>1. CASE k < capability
    BY <2>1, <1>1, SettledGrows DEF Covered
  <2>2. CASE k = capability
    BY <2>2 DEF CurrentSpec
  <2>3. QED
    BY <2>1, <2>2, <1>1, <1>2, <1>4
<1>5. QED
  BY <1>1, <1>3, <1>4 DEF Covered

\* What an agent asks for is what is selected for it.
LEMMA AskedIsSelected ==
  ASSUME NEW provider \in Selected(Agent, CurrentSpec.id)
  PROVE  LET asked == OrElse(Choice(Agent.overrides, CurrentSpec.id), Choice(request.shared, CurrentSpec.id))
         IN  asked # {} => provider \in asked
BY DEF Selected, OrElse

\* A bound capability comes with the setup items of its provider.
LEMMA BindSettles ==
  ASSUME TypeOK, Covered, NEW provider \in ProviderIds, Bind(provider) PROVE Covered'
<1>1. /\ AtCapability /\ NextCapability
      /\ provider \in Selected(Agent, CurrentSpec.id)
      /\ bindings \subseteq bindings' /\ open \subseteq open'
  BY DEF Bind
<1>2. PICK a, spec : a = Agent /\ spec = CurrentSpec
  OBVIOUS
<1>3. PICK binding \in bindings' :
        binding.agent = a.id /\ binding.capability = spec.id /\ binding.provider = provider
  <2>1. PICK binding : binding = [agent |-> a.id, capability |-> spec.id, provider |-> provider,
                                  optional |-> spec.optional]
    OBVIOUS
  <2>2. binding \in bindings'
    BY <2>1, <1>2 DEF Bind
  <2>3. QED
    BY <2>1, <2>2
<1>4. \A ref \in Catalog[provider] :
        \E item \in open' : item.agent = a.id /\ item.provider = {provider} /\ item.setup = {ref}
  <2> SUFFICES ASSUME NEW ref \in Catalog[provider]
               PROVE  \E item \in open' :
                        item.agent = a.id /\ item.provider = {provider} /\ item.setup = {ref}
    OBVIOUS
  <2>1. PICK item : item = [kind |-> "setup", agent |-> a.id, provider |-> {provider},
                            capability |-> {}, setup |-> {ref}]
    OBVIOUS
  <2>2. item \in open'
    BY <2>1, <1>2 DEF Bind
  <2>3. QED
    BY <2>1, <2>2
<1>5. OrElse(Choice(a.overrides, spec.id), Choice(request.shared, spec.id)) # {} =>
        provider \in OrElse(Choice(a.overrides, spec.id), Choice(request.shared, spec.id))
  BY <1>1, <1>2, AskedIsSelected
<1>6. SettledBy(request.shared, bindings', a, spec, open')
  BY <1>3, <1>4, <1>5 DEF SettledBy
<1>7. QED
  BY <1>1, <1>2, <1>6, SettledCapability

\* A capability without a binding is reported unless it is optional.
LEMMA ReportSettles ==
  ASSUME TypeOK, Covered,
         \/ \E provider \in ProviderIds : ReportMissing(provider)
         \/ ReportUnselected \/ SkipOptional
  PROVE  Covered'
<1>1. /\ AtCapability /\ NextCapability /\ bindings' = bindings /\ open \subseteq open'
  BY DEF ReportMissing, ReportUnselected, SkipOptional
<1>2. PICK a, spec : a = Agent /\ spec = CurrentSpec
  OBVIOUS
<1>3. SettledBy(request.shared, bindings', a, spec, open')
  <2>1. ASSUME NEW provider \in ProviderIds, ReportMissing(provider)
        PROVE  \E item \in open' : item.agent = a.id /\ item.capability = {spec.id}
    <3>1. PICK item : item = [kind |-> "missing", agent |-> a.id, provider |-> {provider},
                              capability |-> {spec.id}, setup |-> {}]
      OBVIOUS
    <3>2. item \in open'
      BY <2>1, <3>1, <1>2 DEF ReportMissing
    <3>3. QED
      BY <3>1, <3>2
  <2>2. ASSUME ReportUnselected
        PROVE  \E item \in open' : item.agent = a.id /\ item.capability = {spec.id}
    <3>1. PICK item : item = [kind |-> "unresolved", agent |-> a.id, provider |-> {},
                              capability |-> {spec.id}, setup |-> {}]
      OBVIOUS
    <3>2. item \in open'
      BY <2>2, <3>1, <1>2 DEF ReportUnselected
    <3>3. QED
      BY <3>1, <3>2
  <2>3. CASE SkipOptional
    BY <2>3, <1>2 DEF SkipOptional, SettledBy
  <2>4. QED
    BY <2>1, <2>2, <2>3 DEF SettledBy
<1>4. QED
  BY <1>1, <1>2, <1>3, SettledCapability

\* An agent is left with all its capabilities settled and its items recorded.
LEMMA FinishAgentCovers == ASSUME TypeOK, Covered, FinishAgent PROVE Covered'
<1>1. /\ UNCHANGED <<request, phase, bindings>> /\ Agents' = Agents /\ phase = "agents"
      /\ agent' = agent + 1 /\ capability' = 1 /\ unresolved' = unresolved \cup open
      /\ agent <= Len(Agents) /\ capability > Len(Specs(Agent)) /\ agent \in Nat /\ capability \in Nat
  BY DEF FinishAgent, Agents, Reported, TypeOK
<1>2. DOMAIN Agents = 1 .. Len(Agents) /\ Len(Agents) \in Nat
  BY <1>1, AgentAtHand
<1>3. ASSUME NEW i \in DOMAIN Agents, i < agent + 1, NEW k \in DOMAIN Specs(Agents[i])
      PROVE  SettledBy(request.shared, bindings, Agents[i], Specs(Agents[i])[k], unresolved')
  <2>1. CASE i < agent
    BY <2>1, <1>1, SettledGrows DEF Covered
  <2>2. CASE i = agent
    <3>1. k \in 1 .. Len(Specs(Agent)) /\ Len(Specs(Agent)) \in Nat /\ Agents[i] = Agent
      BY <2>2, <1>1, <1>3, AgentAtHand DEF Agent
    <3>2. SettledBy(request.shared, bindings, Agent, Specs(Agent)[k], open)
      BY <3>1, <1>1 DEF Covered
    <3>3. QED
      BY <3>1, <3>2, <1>1, SettledGrows
  <2>3. QED
    BY <2>1, <2>2, <1>1, <1>2, <1>3
<1>4. ASSUME agent + 1 <= Len(Agents) PROVE \A k \in DOMAIN Specs(Agents[agent + 1]) : ~(k < 1)
  <2>1. agent' <= Len(Agents') /\ TypeOK'
    BY <1>1, <1>4, FinishAgentTypes
  <2>2. Agent' = Agents[agent + 1]
    BY <1>1 DEF Agent
  <2>3. DOMAIN Specs(Agents[agent + 1]) \subseteq Nat \ {0}
    BY <1>1, <1>2, <1>4, AgentShape, CompositionAssumption, SpecsAreListed DEF TypeOK, Agents, IsAgent
  <2>4. QED
    BY <2>3
<1>5. Agent' = Agents[agent + 1]
  BY <1>1 DEF Agent
<1>6. QED
  BY <1>1, <1>3, <1>4, <1>5 DEF Covered

\* Every step keeps what was settled.
LEMMA CoveredStep == TypeOK /\ Covered /\ [Next]_vars => Covered'
<1> SUFFICES ASSUME TypeOK, Covered, [Next]_vars PROVE Covered'
  OBVIOUS
<1>1. ASSUME NEW provider \in ProviderIds, Bind(provider) PROVE Covered'
  BY <1>1, BindSettles
<1>2. CASE \/ \E provider \in ProviderIds : ReportMissing(provider)
           \/ ReportUnselected \/ SkipOptional
  BY <1>2, ReportSettles
<1>3. CASE FinishAgent
  BY <1>3, FinishAgentCovers
<1>4. CASE IncludeSupportPack \/ Finish \/ Refuse \/ PlanBundle \/ UNCHANGED vars
  <2>1. /\ UNCHANGED <<request, agent, capability, bindings, unresolved, open>>
        /\ phase' = "resolved" => phase = "resolved" \/ agent > Len(Agents)
    BY <1>4 DEF IncludeSupportPack, AtPack, Finish, Refuse, PlanBundle, vars
  <2>2. Agents' = Agents /\ Agent' = Agent
    BY <2>1 DEF Agents, Agent
  <2>3. QED
    BY <2>1, <2>2 DEF Covered
<1>5. QED
  BY <1>1, <1>2, <1>3, <1>4 DEF Next, Finished

\* Before the first capability nothing is owed.
LEMMA CoveredInitially == Init => Covered
<1> SUFFICES ASSUME Init PROVE Covered
  OBVIOUS
<1>1. TypeOK /\ agent = 1 /\ capability = 1 /\ phase = "agents"
  BY TypeInitially DEF Init
<1>2. DOMAIN Agents \subseteq Nat \ {0}
  BY <1>1, CompositionAssumption DEF TypeOK, IsRequest, Agents
<1>3. agent <= Len(Agents) => DOMAIN Specs(Agent) \subseteq Nat \ {0}
  BY <1>1, AgentAtHand
<1>4. QED
  BY <1>1, <1>2, <1>3 DEF Covered

\* When everything is resolved, every required capability of every agent is
\* bound to the provider it is meant to get, with the provider's setup items, or
\* reported, for any catalog, overrides and agents (resolve).
THEOREM EverythingIsAccountedFor == Spec => []NothingIsForgotten
<1>1. TypeOK /\ Covered => NothingIsForgotten
  <2> SUFFICES ASSUME TypeOK, Covered, phase = "resolved",
                      NEW i \in DOMAIN Agents, NEW k \in DOMAIN Specs(Agents[i])
               PROVE  LET spec == Specs(Agents[i])[k]
                      IN  \/ Bound(Agents[i], spec, unresolved)
                          \/ ReportedIn(Agents[i], spec, unresolved) \/ spec.optional
    BY DEF NothingIsForgotten
  <2>1. i < agent
    BY CompositionAssumption DEF Covered, TypeOK, Agents, IsRequest
  <2>2. SettledBy(request.shared, bindings, Agents[i], Specs(Agents[i])[k], unresolved)
    BY <2>1 DEF Covered
  <2>3. QED
    BY <2>2 DEF SettledBy, Bound, ReportedIn, Asked
<1>2. QED
  BY TypeInitially, TypeStep, CoveredInitially, CoveredStep, <1>1, PTL DEF Spec
-----------------------------------------------------------------------------
(* The application pack.                                                   *)

\* A supplier that cannot answer with the bytes of an asset.
Lacks(supplier, descriptor) ==
  \/ ~Holds(supplier, descriptor)
  \/ supplier.kind = "oci" /\ descriptor.asset_id \notin supplier.digests

Suppliers == chain[1].suppliers

\* An entry of the archive that is what its descriptor asks for.
CameFrom(entry, descriptor, c) ==
  /\ entry.path = descriptor.path
  /\ Holds(c.suppliers[entry.from], descriptor)
  /\ entry.bytes = c.suppliers[entry.from].store[LookupKey(c.suppliers[entry.from], descriptor)]
  /\ ~c.io_continues => \A j \in 1 .. (entry.from - 1) : Lacks(c.suppliers[j], descriptor)

\* The spec has a path for every agent, at the agent's place.
Declares ==
  /\ Len(Declared) \in Nat /\ DOMAIN Declared = 1 .. Len(Declared)
  /\ \A i \in DOMAIN Agents :
       i \in DOMAIN Declared /\ Declared[i].path = <<"agents", Agents[i].id>>

\* Where a search stands: every supplier asked so far lacks the asset, unless
\* one failed and the chain went on.
Searching ==
  /\ tried \in 0 .. Len(Suppliers)
  /\ last_io_error = {} => \A j \in 1 .. tried : Lacks(Suppliers[j], Descriptor)
  /\ ~chain[1].io_continues => last_io_error = {}

AttachedSoFar ==
  /\ IsList(attached) /\ Len(attached) <= Len(Declared)
  /\ \A i \in DOMAIN attached : CameFrom(attached[i], Declared[i], chain[1])

\* A result says how far the build came.
Concluded ==
  /\ pack_result = "written" => Len(attached) = Len(Declared)
  /\ pack_result = "not_found" => last_io_error = {} /\ tried = Len(Suppliers)

PackInv ==
  /\ pack_spec = <<>> =>
       pack_result = "none" /\ attached = <<>> /\ tried = 0 /\ last_io_error = {}
  /\ pack_spec # <<>> =>
       chain[1] \in Chains /\ Declares /\ Searching /\ AttachedSoFar /\ Concluded

\* What a supplier answers with tells whether it has the bytes
\* (AssetSupplier::provide).
LEMMA SuppliersTellTheTruth ==
  ASSUME NEW supplier, supplier.kind \in SupplierKinds, NEW descriptor
  PROVE  /\ "ok" \in Outcomes(supplier, descriptor) => Holds(supplier, descriptor)
         /\ "not_found" \in Outcomes(supplier, descriptor) => Lacks(supplier, descriptor)
<1>1. CASE supplier.kind = "none"
  BY <1>1 DEF Outcomes, Lacks, Holds
<1>2. CASE supplier.kind = "map"
  BY <1>2 DEF Outcomes, MapOutcomes, Lacks
<1>3. CASE supplier.kind = "fs"
  BY <1>3 DEF Outcomes, FsOutcomes, Lacks
<1>4. CASE supplier.kind = "http"
  BY <1>4 DEF Outcomes, HttpOutcomes, Lacks
<1>5. CASE supplier.kind = "oci"
  BY <1>5 DEF Outcomes, OciOutcomes, HttpOutcomes, Lacks
<1>6. QED
  BY <1>1, <1>2, <1>3, <1>4, <1>5 DEF SupplierKinds

\* A list with one more entry.
LEMMA ListGrows ==
  ASSUME NEW s, IsList(s), NEW e
  PROVE  /\ IsList(Append(s, e)) /\ Len(s) \in Nat /\ DOMAIN s = 1 .. Len(s)
         /\ Len(Append(s, e)) = Len(s) + 1 /\ DOMAIN Append(s, e) = 1 .. Len(s) + 1
         /\ \A i \in 1 .. Len(s) : Append(s, e)[i] = s[i]
         /\ Append(s, e)[Len(s) + 1] = e
<1> DEFINE T == ToSet(s) \cup {e}  t == Append(s, e)
<1>1. s \in Seq(T) /\ e \in T
  <2>1. ToSet(s) \subseteq T
    OBVIOUS
  <2>2. QED
    BY <2>1, SeqMonotonic DEF IsList
<1> HIDE DEF T
<1>2. /\ t \in Seq(T) /\ Len(s) \in Nat /\ DOMAIN s = 1 .. Len(s)
      /\ Len(t) = Len(s) + 1 /\ DOMAIN t = 1 .. Len(s) + 1
      /\ \A i \in 1 .. Len(s) : t[i] = s[i]
      /\ t[Len(s) + 1] = e
  BY <1>1, AppendProperties
<1> HIDE DEF t
<1>3. IsList(t)
  <2>1. PICK n \in Nat : t \in [1 .. n -> T]
    BY <1>2, SeqDef
  <2>2. t \in [1 .. n -> ToSet(t)]
    BY <2>1 DEF ToSet
  <2>3. QED
    BY <2>2, SeqDef DEF IsList
<1>4. QED
  BY <1>2, <1>3 DEF t

\* What is put before a list comes first in the whole.
LEMMA FrontStays ==
  ASSUME NEW T, NEW s \in Seq(T), NEW t \in Seq(T)
  PROVE  /\ s \o t \in Seq(T) /\ Len(s) <= Len(s \o t)
         /\ \A i \in 1 .. Len(s) : (s \o t)[i] = s[i]
<1>1. /\ s \o t \in Seq(T) /\ Len(s \o t) = Len(s) + Len(t) /\ Len(s) \in Nat /\ Len(t) \in Nat
      /\ \A i \in 1 .. Len(s) + Len(t) : (s \o t)[i] = IF i <= Len(s) THEN s[i] ELSE t[i - Len(s)]
  BY ConcatProperties, LenProperties
<1>2. QED
  BY <1>1

\* A mapped sequence is a list with an entry for each.
LEMMA AgentAssetsAreListed ==
  ASSUME NEW n \in Nat, NEW ids, ids \in [1 .. n -> AgentIds]
  PROVE  /\ IsList(Mapped(AgentAsset, ids)) /\ Len(Mapped(AgentAsset, ids)) = n
         /\ IsList(Mapped(AgentConfig, ids))
         /\ \A i \in 1 .. n : Mapped(AgentAsset, ids)[i].path = <<"agents", ids[i]>>
<1> DEFINE a == Mapped(AgentAsset, ids)  c == Mapped(AgentConfig, ids)
<1>1. /\ a = [i \in 1 .. n |-> AgentAsset(ids[i])]
      /\ c = [i \in 1 .. n |-> AgentConfig(ids[i])]
  BY DEF Mapped
<1> HIDE DEF a, c
<1>2. a \in [1 .. n -> ToSet(a)] /\ c \in [1 .. n -> ToSet(c)]
  BY <1>1 DEF ToSet
<1>3. IsList(a) /\ Len(a) = n /\ IsList(c)
  BY <1>2, SeqDef DEF IsList
<1>4. \A i \in 1 .. n : a[i].path = <<"agents", ids[i]>>
  BY <1>1 DEF AgentAsset
<1>5. QED
  BY <1>3, <1>4 DEF a, c
\* The spec that is built declares an asset at the path of every agent, before
\* all others (to_application_pack_spec, attach_assets).
LEMMA SpecDeclaresAgents ==
  ASSUME TypeOK, NEW addition \in Additions,
         NEW spec, spec = PackSpec(addition),
         NEW all, all = spec.assets \o spec.generated_configs
                          \o spec.generated_flows \o spec.generated_prompts
  PROVE  /\ Len(all) \in Nat /\ DOMAIN all = 1 .. Len(all)
         /\ \A i \in DOMAIN Agents :
              i \in DOMAIN all /\ all[i].path = <<"agents", Agents[i].id>>
<1> DEFINE a == Mapped(AgentAsset, AgentList)   b == Shared(ApplicationAsset)
           c == Mapped(AgentConfig, AgentList)  d == Shared(ApplicationConfig)
           e == addition.flows  f == addition.prompts
           T == ToSet(a) \cup ToSet(b) \cup ToSet(c) \cup ToSet(d) \cup ToSet(e) \cup ToSet(f)
<1>1. PICK n \in Nat : n = Len(Agents) /\ DOMAIN Agents = 1 .. n
  BY CompositionAssumption DEF TypeOK, IsRequest, Agents
<1>2. AgentList \in [1 .. n -> AgentIds] /\ \A i \in 1 .. n : AgentList[i] = Agents[i].id
  BY <1>1, CompositionAssumption DEF AgentList, TypeOK, IsRequest, IsAgent, Agents
<1>3. /\ IsList(a) /\ Len(a) = n /\ IsList(c)
      /\ \A i \in 1 .. n : a[i].path = <<"agents", Agents[i].id>>
  BY <1>1, <1>2, AgentAssetsAreListed
<1>4. IsList(b) /\ IsList(d)
  <2>1. \A x : IsList(<<x>>)
    BY DEF IsList, ToSet
  <2>2. IsList(<<>>)
    BY EmptySeq DEF IsList
  <2>3. QED
    BY <2>1, <2>2 DEF Shared
<1>5. IsList(e) /\ IsList(f)
  BY PackAssumption
<1>6. all = ((((a \o b) \o (c \o d)) \o e) \o f)
  BY DEF PackSpec
<1> HIDE DEF a, b, c, d, e, f
<1>7. a \in Seq(T) /\ b \in Seq(T) /\ c \in Seq(T) /\ d \in Seq(T) /\ e \in Seq(T) /\ f \in Seq(T)
  <2>1. /\ ToSet(a) \subseteq T /\ ToSet(b) \subseteq T /\ ToSet(c) \subseteq T
        /\ ToSet(d) \subseteq T /\ ToSet(e) \subseteq T /\ ToSet(f) \subseteq T
    OBVIOUS
  <2> HIDE DEF T
  <2>2. QED
    BY <1>3, <1>4, <1>5, <2>1, SeqMonotonic DEF IsList
<1> HIDE DEF T
<1>8. PICK u : u = a \o b
  OBVIOUS
<1>9. PICK v : v = c \o d
  OBVIOUS
<1>10. PICK w : w = u \o v
  OBVIOUS
<1>11. PICK x : x = w \o e
  OBVIOUS
<1>12. all = x \o f
  BY <1>6, <1>8, <1>9, <1>10, <1>11
<1>13. u \in Seq(T) /\ Len(a) <= Len(u) /\ \A i \in 1 .. Len(a) : u[i] = a[i]
  BY <1>7, <1>8, FrontStays
<1>14. v \in Seq(T)
  BY <1>7, <1>9, FrontStays
<1>15. w \in Seq(T) /\ Len(u) <= Len(w) /\ \A i \in 1 .. Len(u) : w[i] = u[i]
  BY <1>10, <1>13, <1>14, FrontStays
<1>16. x \in Seq(T) /\ Len(w) <= Len(x) /\ \A i \in 1 .. Len(w) : x[i] = w[i]
  BY <1>7, <1>11, <1>15, FrontStays
<1>17. all \in Seq(T) /\ Len(x) <= Len(all) /\ \A i \in 1 .. Len(x) : all[i] = x[i]
  BY <1>7, <1>12, <1>16, FrontStays
<1>18. /\ Len(u) \in Nat /\ Len(w) \in Nat /\ Len(x) \in Nat /\ Len(all) \in Nat
       /\ DOMAIN all = 1 .. Len(all)
  BY <1>13, <1>15, <1>16, <1>17, LenProperties
<1>19. ASSUME NEW i \in 1 .. n PROVE i \in 1 .. Len(all) /\ all[i] = a[i]
  <2>1. i \in 1 .. Len(u) /\ u[i] = a[i]
    BY <1>3, <1>13, <1>18
  <2>2. i \in 1 .. Len(w) /\ w[i] = a[i]
    BY <2>1, <1>15, <1>18
  <2>3. i \in 1 .. Len(x) /\ x[i] = a[i]
    BY <2>2, <1>16, <1>18
  <2>4. all[i] = x[i]
    BY <2>3, <1>17
  <2>5. i <= Len(all) /\ i \in Nat /\ i >= 1
    BY ONLY <2>3, <1>17, <1>18
  <2>6. i \in 1 .. Len(all)
    BY ONLY <2>5, <1>18
  <2>7. QED
    BY <2>3, <2>4, <2>6
<1>20. QED
  BY <1>1, <1>3, <1>18, <1>19

\* The spec and the suppliers of a build do not change under it.
LEMMA BuildStays ==
  ASSUME PackInv, pack_spec # <<>>, UNCHANGED <<request, pack_spec, chain>>
  PROVE  /\ pack_spec' # <<>> /\ chain'[1] \in Chains /\ Suppliers' = Suppliers
         /\ Declared' = Declared /\ Declares'
<1>1. Declared' = Declared
  BY DEF Declared
<1>2. QED
  BY <1>1 DEF PackInv, Declares, Agents, Suppliers

\* A step that leaves the build alone keeps its invariant.
LEMMA ResolvingKeepsPackInv ==
  ASSUME PackInv, request' = request, UNCHANGED packVars
  PROVE  PackInv'
<1>1. CASE pack_spec = <<>>
  BY <1>1 DEF PackInv, packVars
<1>2. CASE pack_spec # <<>>
  <2>1. Declared' = Declared /\ Declares' /\ Suppliers' = Suppliers /\ chain'[1] \in Chains
    BY <1>2, BuildStays DEF packVars
  <2>2. Descriptor' = Descriptor
    BY <2>1 DEF Descriptor, packVars
  <2>3. QED
    BY <1>2, <2>1, <2>2 DEF PackInv, packVars, Searching, AttachedSoFar, Concluded
<1>3. QED
  BY <1>1, <1>2

\* A build begins with a spec that declares all agents and nothing attached.
LEMMA MaterializeKeepsPackInv ==
  ASSUME TypeOK, PackInv, Materialize PROVE PackInv'
<1>1. PICK addition \in Additions, c \in Chains :
        /\ pack_spec' = <<PackSpec(addition)>> /\ chain' = <<c>>
        /\ pack_spec = <<>> /\ UNCHANGED <<vars, tried, last_io_error, attached, pack_result>>
  BY DEF Materialize
<1>2. /\ pack_spec' # <<>> /\ chain'[1] = c /\ attached' = <<>> /\ tried' = 0
      /\ last_io_error' = {} /\ pack_result' = "none" /\ Agents' = Agents
  BY <1>1 DEF PackInv, vars, Agents
<1>3. Declares'
  <2>1. Declared' = PackSpec(addition).assets \o PackSpec(addition).generated_configs
                      \o PackSpec(addition).generated_flows \o PackSpec(addition).generated_prompts
    BY <1>1 DEF Declared
  <2>2. PICK all : all = Declared'
    OBVIOUS
  <2>3. /\ Len(all) \in Nat /\ DOMAIN all = 1 .. Len(all)
        /\ \A i \in DOMAIN Agents : i \in DOMAIN all /\ all[i].path = <<"agents", Agents[i].id>>
    BY <2>1, <2>2, SpecDeclaresAgents
  <2>4. QED
    BY <1>2, <2>2, <2>3 DEF Declares
<1>4. Len(c.suppliers) \in Nat
  BY PackAssumption, ListGrows
<1>5. Searching'
  BY <1>2, <1>4 DEF Searching, Suppliers
<1>6. AttachedSoFar'
  <2>1. IsList(<<>>) /\ Len(<<>>) = 0 /\ DOMAIN <<>> = {}
    BY EmptySeq DEF IsList
  <2>2. QED
    BY <1>2, <1>3, <2>1 DEF AttachedSoFar, Declares
<1>7. QED
  BY <1>2, <1>3, <1>5, <1>6 DEF PackInv, Concluded
\* The descriptor at hand is one of those declared, and the supplier at hand
\* one of the chain.
LEMMA AtHand ==
  ASSUME PackInv, CanAttach
  PROVE  /\ pack_spec # <<>> /\ chain[1] \in Chains
         /\ Len(attached) \in Nat /\ Len(Suppliers) \in Nat /\ tried \in Nat
         /\ DOMAIN Suppliers = 1 .. Len(Suppliers)
         /\ tried < Len(Suppliers) =>
              tried + 1 \in 1 .. Len(Suppliers) /\ Supplier.kind \in SupplierKinds
<1>1. /\ pack_spec # <<>> /\ chain[1] \in Chains /\ tried \in 0 .. Len(Suppliers)
      /\ IsList(attached)
  BY DEF PackInv, CanAttach, AtAsset, Building, Searching, AttachedSoFar
<1>2. /\ Len(Suppliers) \in Nat /\ DOMAIN Suppliers = 1 .. Len(Suppliers)
      /\ \A i \in DOMAIN Suppliers : Suppliers[i].kind \in SupplierKinds
  BY <1>1, PackAssumption, ListGrows DEF Suppliers
<1>3. Len(attached) \in Nat
  BY <1>1, ListGrows
<1>4. QED
  BY <1>1, <1>2, <1>3 DEF Supplier, Suppliers

\* A build that ends with an error leaves everything as it was.
LEMMA AbortKeepsPackInv ==
  ASSUME PackInv, Building, NEW error, Abort(error), error # "written",
         error = "not_found" => last_io_error = {} /\ tried = Len(Suppliers)
  PROVE  PackInv'
<1>1. /\ UNCHANGED <<request, pack_spec, chain, tried, last_io_error, attached>>
      /\ pack_result' = error /\ pack_spec # <<>>
  BY DEF Abort, Building, vars
<1>2. /\ Declared' = Declared /\ Declares' /\ Suppliers' = Suppliers /\ chain'[1] \in Chains
      /\ pack_spec' # <<>>
  BY <1>1, BuildStays
<1>3. Descriptor' = Descriptor
  BY <1>1, <1>2 DEF Descriptor
<1>4. QED
  BY <1>1, <1>2, <1>3 DEF PackInv, Searching, AttachedSoFar, Concluded

\* The first supplier that has the bytes gives them (first success wins).
LEMMA SuppliedKeepsPackInv ==
  ASSUME PackInv, Supplied PROVE PackInv'
<1> DEFINE n == Len(attached)
<1>1. PICK entry : entry = [path |-> Descriptor.path,
                            bytes |-> Supplier.store[LookupKey(Supplier, Descriptor)],
                            from |-> tried + 1]
  OBVIOUS
<1>2. /\ UNCHANGED <<request, pack_spec, chain, pack_result>>
      /\ attached' = Append(attached, entry) /\ tried' = 0 /\ last_io_error' = {}
      /\ tried < Len(Suppliers) /\ "ok" \in Outcomes(Supplier, Descriptor)
      /\ CanAttach /\ n < Len(Declared) /\ pack_result = "none"
  BY <1>1 DEF Supplied, Suppliers, vars, CanAttach, AtAsset, Building
<1>3. /\ pack_spec # <<>> /\ n \in Nat /\ Len(Suppliers) \in Nat /\ tried \in Nat
      /\ Supplier.kind \in SupplierKinds
  BY <1>2, AtHand
<1>4. /\ Declared' = Declared /\ Declares' /\ Suppliers' = Suppliers /\ chain'[1] \in Chains
      /\ pack_spec' # <<>>
  BY <1>2, <1>3, BuildStays
<1>5. /\ Declares /\ Searching /\ AttachedSoFar
  BY <1>3 DEF PackInv
<1>6. CameFrom(entry, Declared[n + 1], chain[1])
  <2>1. Holds(Supplier, Descriptor)
    BY <1>2, <1>3, SuppliersTellTheTruth
  <2>2. Supplier = chain[1].suppliers[entry.from] /\ Descriptor = Declared[n + 1]
        /\ entry.from = tried + 1
    BY <1>1 DEF Supplier, Descriptor
  <2>3. ~chain[1].io_continues => \A j \in 1 .. tried : Lacks(Suppliers[j], Descriptor)
    BY <1>5 DEF Searching
  <2>4. 1 .. (entry.from - 1) = 1 .. tried
    BY <1>3, <2>2
  <2>5. QED
    BY <1>1, <2>1, <2>2, <2>3, <2>4 DEF CameFrom, Suppliers
<1>7. AttachedSoFar'
  <2>1. /\ IsList(attached') /\ Len(attached') = n + 1 /\ DOMAIN attached' = 1 .. n + 1
        /\ DOMAIN attached = 1 .. n
        /\ \A i \in 1 .. n : attached'[i] = attached[i]
        /\ attached'[n + 1] = entry
    BY <1>2, <1>5, ListGrows DEF AttachedSoFar
  <2>2. n + 1 <= Len(Declared)
    BY <1>2, <1>3, <1>5 DEF Declares
  <2>3. ASSUME NEW i \in 1 .. n + 1 PROVE CameFrom(attached'[i], Declared[i], chain[1])
    <3>1. CASE i \in 1 .. n
      BY <3>1, <1>5, <2>1 DEF AttachedSoFar
    <3>2. CASE i = n + 1
      BY <3>2, <1>6, <2>1
    <3>3. QED
      BY <3>1, <3>2, <1>3
  <2>4. QED
    BY <1>2, <1>4, <2>1, <2>2, <2>3 DEF AttachedSoFar
<1>8. Searching'
  BY <1>2, <1>3, <1>4 DEF Searching
<1>9. QED
  BY <1>2, <1>4, <1>7, <1>8 DEF PackInv, Concluded

\* A supplier that has not found the asset lacks it; one that failed leaves its
\* failure behind when the chain goes on.
LEMMA GoingOnKeepsPackInv ==
  ASSUME PackInv, CanAttach, tried < Len(Suppliers), tried' = tried + 1,
         UNCHANGED <<request, pack_spec, chain, attached, pack_result>>,
         \/ last_io_error' = last_io_error /\ "not_found" \in Outcomes(Supplier, Descriptor)
         \/ last_io_error' # {} /\ chain[1].io_continues
  PROVE  PackInv'
<1>1. /\ pack_spec # <<>> /\ chain[1] \in Chains /\ Len(Suppliers) \in Nat /\ tried \in Nat
      /\ Supplier.kind \in SupplierKinds /\ pack_result = "none"
  BY AtHand DEF CanAttach, AtAsset, Building
<1>2. /\ Declared' = Declared /\ Declares' /\ Suppliers' = Suppliers /\ chain'[1] \in Chains
      /\ pack_spec' # <<>>
  BY <1>1, BuildStays
<1>3. Descriptor' = Descriptor /\ Searching /\ AttachedSoFar
  BY <1>1, <1>2 DEF Descriptor, PackInv
<1>4. last_io_error' = {} => \A j \in 1 .. tried + 1 : Lacks(Suppliers[j], Descriptor)
  <2> SUFFICES ASSUME last_io_error' = {}, NEW j \in 1 .. tried + 1
               PROVE  Lacks(Suppliers[j], Descriptor)
    OBVIOUS
  <2>1. Lacks(Suppliers[tried + 1], Descriptor)
    BY <1>1, SuppliersTellTheTruth DEF Supplier, Suppliers
  <2>2. \A k \in 1 .. tried : Lacks(Suppliers[k], Descriptor)
    BY <1>3 DEF Searching
  <2>3. QED
    BY <1>1, <2>1, <2>2
<1>5. Searching'
  BY <1>1, <1>2, <1>3, <1>4 DEF Searching
<1>6. QED
  BY <1>1, <1>2, <1>3, <1>5 DEF PackInv, AttachedSoFar, Concluded

\* The request never changes.
LEMMA RequestStays == [Next]_vars => request' = request
BY DEF Next, Bind, ReportMissing, ReportUnselected, SkipOptional, NextCapability,
       IncludeSupportPack, FinishAgent, Finish, Refuse, PlanBundle, Finished, vars

\* Every step of resolving, planning and packing keeps the invariant.
LEMMA PackInvStep == TypeOK /\ PackInv /\ [PackNext]_<<vars, packVars>> => PackInv'
<1> SUFFICES ASSUME TypeOK, PackInv, [PackNext]_<<vars, packVars>> PROVE PackInv'
  OBVIOUS
<1>1. CASE (Next /\ UNCHANGED packVars) \/ UNCHANGED <<vars, packVars>>
  <2>1. request' = request /\ UNCHANGED packVars
    BY <1>1, RequestStays DEF vars, packVars
  <2>2. QED
    BY <2>1, ResolvingKeepsPackInv
<1>2. CASE Materialize
  BY <1>2, MaterializeKeepsPackInv
<1>3. CASE RefuseVersion
  BY <1>3, AbortKeepsPackInv DEF RefuseVersion
<1>4. CASE Supplied
  BY <1>4, SuppliedKeepsPackInv
<1>5. CASE NotFound
  BY <1>5, GoingOnKeepsPackInv DEF NotFound, vars, Suppliers
<1>6. CASE SupplierFails
  <2>1. CASE IoContinues
    <3>1. last_io_error' = {tried + 1} /\ tried' = tried + 1
          /\ UNCHANGED <<request, pack_spec, chain, attached, pack_result>>
          /\ CanAttach /\ tried < Len(Suppliers) /\ chain[1].io_continues
      BY <1>6, <2>1 DEF SupplierFails, vars, Suppliers, IoContinues
    <3>2. last_io_error' # {}
      BY <3>1
    <3>3. QED
      BY <3>1, <3>2, GoingOnKeepsPackInv
  <2>2. CASE ~IoContinues
    BY <1>6, <2>2, AbortKeepsPackInv DEF SupplierFails, CanAttach, AtAsset
  <2>3. QED
    BY <2>1, <2>2
<1>7. CASE Exhausted
  <2>1. Building /\ Abort(ExhaustedError) /\ tried = Len(Suppliers)
    BY <1>7 DEF Exhausted, CanAttach, AtAsset, Suppliers
  <2>2. ExhaustedError # "written" /\ (ExhaustedError = "not_found" => last_io_error = {})
    BY DEF ExhaustedError
  <2>3. QED
    BY <2>1, <2>2, AbortKeepsPackInv
<1>8. CASE WriteArchive
  <2>1. /\ UNCHANGED <<request, pack_spec, chain, tried, last_io_error, attached>>
        /\ pack_result' \in {"written", "build"} /\ pack_spec # <<>>
        /\ Len(attached) = Len(Declared)
    BY <1>8 DEF WriteArchive, Building, vars
  <2>2. /\ Declared' = Declared /\ Declares' /\ Suppliers' = Suppliers /\ chain'[1] \in Chains
        /\ pack_spec' # <<>>
    BY <2>1, BuildStays
  <2>3. Descriptor' = Descriptor
    BY <2>1, <2>2 DEF Descriptor
  <2>4. QED
    BY <2>1, <2>2, <2>3 DEF PackInv, Searching, AttachedSoFar, Concluded
<1>9. QED
  BY <1>1, <1>2, <1>3, <1>4, <1>5, <1>6, <1>7, <1>8 DEF PackNext

\* Packing is resolving with steps of its own: what holds of every resolution
\* holds while packs are built.
THEOREM PackingResolves == PackingSpec => Spec
<1>1. PackInit => Init
  BY DEF PackInit
<1>2. [PackNext]_<<vars, packVars>> => [Next]_vars
  BY DEF PackNext, Materialize, RefuseVersion, Supplied, NotFound, SupplierFails, Exhausted,
         WriteArchive, Abort, vars
<1>3. QED
  BY <1>1, <1>2, PTL DEF PackingSpec, Spec

\* In every state of a build its invariant holds.
LEMMA PackInvariant == PackingSpec => []PackInv
<1>1. PackInit => PackInv
  BY DEF PackInit, PackInv
<1>2. QED
  BY <1>1, PackingResolves, CompositionTypeCorrect, PackInvStep, PTL DEF PackingSpec

\* For any composition, additions and chain of suppliers, an archive that is
\* written has every declared asset, each from the first supplier that has it
\* (attach_assets, ChainedAssetSupplier::provide).
THEOREM WrittenArchivesAreComplete == PackingSpec => []ArchivesAreComplete
<1>1. PackInv => ArchivesAreComplete
  <2> SUFFICES ASSUME PackInv, pack_result = "written" PROVE ArchivesAreComplete
    BY DEF ArchivesAreComplete
  <2>1. /\ Declares /\ AttachedSoFar /\ Len(attached) = Len(Declared)
    BY DEF PackInv, Concluded
  <2>2. DOMAIN attached = DOMAIN Declared
    BY <2>1, ListGrows DEF Declares, AttachedSoFar
  <2>3. ASSUME NEW i \in DOMAIN AgentList
        PROVE  \E k \in DOMAIN attached : attached[k].path = <<"agents", AgentList[i]>>
    <3>1. i \in DOMAIN Agents /\ AgentList[i] = Agents[i].id
      BY <2>3 DEF AgentList
    <3>2. i \in DOMAIN attached /\ attached[i].path = <<"agents", AgentList[i]>>
      BY <2>1, <2>2, <3>1 DEF Declares, AttachedSoFar, CameFrom
    <3>3. QED
      BY <3>2
  <2>4. QED
    BY <2>1, <2>2, <2>3 DEF ArchivesAreComplete, AttachedSoFar, CameFrom, Lacks
<1>2. QED
  BY <1>1, PackInvariant, PTL

\* For any chain of suppliers, "not found" is said only of an asset none of
\* them could have given (last_io_error of ChainedAssetSupplier::provide).
THEOREM NotFoundTellsTheTruth == PackingSpec => []NotFoundIsTrue
<1>1. PackInv => NotFoundIsTrue
  <2> SUFFICES ASSUME PackInv, pack_result = "not_found", NEW j \in DOMAIN Suppliers
               PROVE  Lacks(Suppliers[j], Descriptor)
    BY DEF NotFoundIsTrue, Lacks, Suppliers
  <2>1. chain[1] \in Chains /\ Searching /\ last_io_error = {} /\ tried = Len(Suppliers)
    BY DEF PackInv, Concluded
  <2>2. DOMAIN Suppliers = 1 .. Len(Suppliers)
    BY <2>1, PackAssumption, ListGrows DEF Suppliers
  <2>3. QED
    BY <2>1, <2>2 DEF Searching
<1>2. QED
  BY <1>1, PackInvariant, PTL
=============================================================================
