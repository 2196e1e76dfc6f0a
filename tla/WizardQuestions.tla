--------------------------- MODULE WizardQuestions ---------------------------
(***************************************************************************)
(* The questions of the wizard (greentic-dw-cli, wizard.rs; the question   *)
(* contract of greentic-dw-types, qa.rs) and the scopes their answers live *)
(* in.  A template is a record                                             *)
(*   [id, name, multi, required, optional, providers, questions,           *)
(*    default_blocks, review_blocks, hints, values, count]                 *)
(* a provider of the catalog                                               *)
(*   [id, serves, fits, recommended, default_choice, recommended_choice,   *)
(*    suits, schemas, required, blocks]                                    *)
(* and an answer document                                                  *)
(*   [plain, template, mode, overrides, design, agents, tools]             *)
(* where plain holds the fields of the manifest, mode and template are     *)
(* sets of at most one, and agents gives some agents a document of their   *)
(* own [design, overrides].  Prompts, summaries and owners are left out.   *)
(***************************************************************************)
EXTENDS Naturals, Sequences, SequencesExt

CONSTANT
  AgentSuffixes                  \* the manifest ids with "agent-n" in them, and n

-----------------------------------------------------------------------------
(* Answers.  A key of design_answers is a name and whom it is scoped to:   *)
(* nobody, the n-th agent ("agent.n.") or an agent's whole id ("agent.id."); *)
(* a provider key has "provider." in front of a capability.                *)

Everyone == <<>>
Numbered(n) == <<"agent", n>>
ById(n) == <<"id", n>>

Key(to, name) == [to |-> to, name |-> name, provider |-> FALSE]
ProviderKey(to, capability) == [to |-> to, name |-> capability, provider |-> TRUE]

AgentCount == Key(Everyone, "agent_count")
Strategy == Key(Everyone, "provider_strategy")

Put(map, key, value) == [k \in DOMAIN map \cup {key} |-> IF k = key THEN value ELSE map[k]]

\* The elements that pass a test, in their order (Iterator::filter).
Matching(seq, Test(_)) ==
  FlattenSeq([i \in DOMAIN seq |-> IF Test(seq[i]) THEN <<seq[i]>> ELSE <<>>])

\* The first map that has the key wins.
Over(upper, lower) ==
  [k \in DOMAIN upper \cup DOMAIN lower |-> IF k \in DOMAIN upper THEN upper[k] ELSE lower[k]]

\* resolved_agent_count: the template must allow for it, and the answer be a
\* number above one (0 stands for one that does not parse).
ResolvedAgentCount(answers, template) ==
  IF template.multi /\ AgentCount \in DOMAIN answers.design /\ answers.design[AgentCount] > 1
    THEN answers.design[AgentCount] ELSE 1

\* uses_shared_provider_strategy: only a refusal is not shared.
SharesProviders(answers) ==
  Strategy \in DOMAIN answers.design => answers.design[Strategy] # "per_agent"

-----------------------------------------------------------------------------
(* Providers.                                                              *)

Served(catalog, id) == {i \in DOMAIN catalog : catalog[i].id = id}

\* DwProviderCatalog::find
FindProvider(catalog, id) ==
  {catalog[i] : i \in {j \in Served(catalog, id) : \A k \in Served(catalog, id) : j <= k}}

\* filter_by_suitability: an environment nobody knows filters nothing.
KnownEnvironments == {"oss", "local", "dev", "demo", "enterprise", "prod"}

FilterBySuitability(catalog, env) ==
  IF env \in KnownEnvironments THEN Matching(catalog, LAMBDA entry : env \in entry.suits)
                               ELSE catalog

Bit(b) == IF b THEN 1 ELSE 0

\* The tuple max_by_key compares.
Rank(entry, template) ==
  4 * Bit(template.id \in entry.recommended) + 2 * Bit(entry.default_choice)
    + Bit(entry.recommended_choice)

Candidates(template, catalog, capability) ==
  {i \in DOMAIN catalog :
     /\ capability \in catalog[i].serves
     /\ catalog[i].fits = {} \/ template.id \in catalog[i].fits}

\* select_provider_for_capability: the template's own choice if the catalog
\* has it, else the last of the best.
Recommended(template, catalog, capability) ==
  LET own == IF capability \in DOMAIN template.providers
               THEN FindProvider(catalog, template.providers[capability]) ELSE {}
      pool == Candidates(template, catalog, capability)
      Better(i, j) == \/ Rank(catalog[i], template) > Rank(catalog[j], template)
                      \/ Rank(catalog[i], template) = Rank(catalog[j], template) /\ i >= j
  IN  IF own # {} THEN own ELSE {catalog[i] : i \in {k \in pool : \A j \in pool : Better(k, j)}}

Capabilities(template) == template.required \o template.optional

\* collect_default_provider_overrides and collect_selected_provider_overrides.
SelectedOverrides(answers, template, catalog) ==
  LET offered == {c \in ToSet(Capabilities(template)) : Recommended(template, catalog, c) # {}}
      defaults == [c \in offered |-> (CHOOSE p \in Recommended(template, catalog, c) : TRUE).id]
  IN  Over(answers.overrides, defaults)

-----------------------------------------------------------------------------
(* The assembly: one sequence of blocks.                                   *)

Block(id, from, key, scope, phase, visibility) ==
  [id |-> id, from |-> from, key |-> key, scope |-> scope, agent |-> Everyone,
   phase |-> phase, visibility |-> visibility, select |-> FALSE]

\* template_block_visibility
TemplateVisibility(template, id, required) ==
  CASE required \/ id \in ToSet(template.default_blocks) -> "required"
    [] ~required /\ id \in ToSet(template.review_blocks) \ ToSet(template.default_blocks) -> "review_all"
    [] OTHER -> "optional"

CoreBlocks(template) ==
  <<Block("core.app.identity", "core", {}, "application", "design", "required"),
    Block("core.agent.topology", "core", {AgentCount}, "application", "design",
          IF template.multi THEN "review_all" ELSE "optional")>>

Plainly(name) == {Key(Everyone, name)}

\* The template's questions, and the blocks only its modes name, which have
\* neither key nor prompt.
TemplateBlocks(template) ==
  LET ids == {q.id : q \in ToSet(template.questions)}
      Named(q) == Block(q.id, "template", IF q.key = "" THEN {} ELSE Plainly(q.key), "agent", "design",
                        TemplateVisibility(template, q.id, q.required))
      Unnamed(id) == Block(id, "template", {}, "agent", "design", TemplateVisibility(template, id, FALSE))
      extra == Matching(template.default_blocks, LAMBDA id : id \notin ids)
                 \o Matching(template.review_blocks,
                             LAMBDA id : id \notin ids \cup ToSet(template.default_blocks))
  IN  [i \in DOMAIN template.questions |-> Named(template.questions[i])]
        \o [i \in DOMAIN extra |-> Unnamed(extra[i])]

\* A provider's follow-up questions are put off to setup when it needs a setup
\* schema or the question has one.
FollowUps(provider) ==
  LET own == {b.id : b \in ToSet(provider.blocks)}
      ids == provider.required
               \o Matching([i \in DOMAIN provider.blocks |-> provider.blocks[i].id],
                           LAMBDA id : id \notin ToSet(provider.required))
      Owned(id) == CHOOSE b \in ToSet(provider.blocks) : b.id = id
      KeyOf(id) == IF id \in own THEN Owned(id).key ELSE id
      AtSetup(id) == provider.schemas \/ (id \in own /\ Owned(id).schema)
  IN  [i \in DOMAIN ids |->
         Block(ids[i], provider.id, Plainly(KeyOf(ids[i])), "provider",
               IF AtSetup(ids[i]) THEN "setup" ELSE "design",
               IF AtSetup(ids[i]) THEN "hidden_unless_needed" ELSE "review_all")]

ProviderBlocks(template, catalog) ==
  LET Select(provider, i) ==
        [Block("provider.select", provider.id,
               {ProviderKey(Everyone, Capabilities(template)[i])}, "provider", "design",
               IF i <= Len(template.required) THEN "required" ELSE "review_all")
           EXCEPT !.select = TRUE]
      ForCapability(i) ==
        LET best == Recommended(template, catalog, Capabilities(template)[i])
        IN  IF best = {} THEN <<>>
            ELSE LET provider == CHOOSE p \in best : TRUE
                 IN  <<Select(provider, i)>> \o FollowUps(provider)
  IN  FlattenSeq([i \in DOMAIN Capabilities(template) |-> ForCapability(i)])

\* build_question_assembly; without a provider catalog there is no question
\* about providers.
Assembly(template, catalogs) ==
  CoreBlocks(template) \o TemplateBlocks(template)
    \o FlattenSeq([i \in DOMAIN catalogs |-> ProviderBlocks(template, catalogs[i])])
    \o (IF template.multi
          THEN <<Block("provider_strategy", "composition", {Strategy}, "shared", "design", "review_all")>>
          ELSE <<>>)
    \o (IF template.hints
          THEN <<Block("bundle_plan", "packaging", Plainly("bundle_plan_notes"), "application",
                       "design", "review_all")>>
          ELSE <<>>)

-----------------------------------------------------------------------------
(* What is shown.                                                          *)

\* QuestionVisibility::visible_in, with no dependency that requires a block.
Visible(block, mode) ==
  block.visibility = "required" \/ (mode = "review_all" /\ block.visibility # "hidden_unless_needed")

\* blocks_for
BlocksFor(assembly, phase, mode) ==
  Matching(assembly, LAMBDA b : b.phase = phase /\ Visible(b, mode))

\* scoped_visible_block_for_output: the block of the n-th agent.
ScopedBlock(block, n) ==
  [block EXCEPT !.agent = Numbered(n), !.key = {[k EXCEPT !.to = Numbered(n)] : k \in @}]

\* Which blocks every agent gets a copy of.
IsPerAgent(block, answers) ==
  block.scope = "agent" \/ (block.scope = "provider" /\ ~SharesProviders(answers))

\* resolve_visible_blocks_for_output
ResolveVisible(blocks, answers, template) ==
  LET count == ResolvedAgentCount(answers, template)
      Copies(block) == IF count > 1 /\ IsPerAgent(block, answers)
                         THEN [n \in 1..count |-> ScopedBlock(block, n)] ELSE <<block>>
  IN  FlattenSeq([i \in DOMAIN blocks |-> Copies(blocks[i])])

-----------------------------------------------------------------------------
(* What the resolver is asked: each agent's own answers.                   *)

\* What follows the last "agent-" of an id, else 1.
Suffix(id) == IF id \in DOMAIN AgentSuffixes THEN AgentSuffixes[id] ELSE 1

\* The agents are numbered in the application unless there is only one, which
\* has the application's own id.
AgentName(answers, template, i) ==
  IF ResolvedAgentCount(answers, template) > 1 THEN [id |-> ById(i), number |-> i]
  ELSE [id |-> ById(0), number |-> Suffix(answers.plain.manifest_id)]

\* agent_numeric_suffix
NumberedName(answers, name) == Numbered(name.number)

\* find_agent_answers: under the whole id, else under the number.
AgentDocument(answers, name) ==
  LET found == {name.id, NumberedName(answers, name)} \cap DOMAIN answers.agents
  IN  IF name.id \in found THEN answers.agents[name.id]
      ELSE IF found # {} THEN answers.agents[NumberedName(answers, name)]
      ELSE [design |-> <<>>, overrides |-> <<>>]

\* The flat answers of one scope, by the name they have there.
FlatAnswers(answers, to, provider) ==
  LET keys == {k \in DOMAIN answers.design : k.to = to /\ k.provider = provider}
  IN  [name \in {k.name : k \in keys} |->
         answers.design[CHOOSE k \in keys : k.name = name]]

\* Mutant: an agent's own answers come last.
ScopedAnswersGlobalFirst(answers, name) ==
  Over(FlatAnswers(answers, Everyone, FALSE),
       Over(FlatAnswers(answers, NumberedName(answers, name), FALSE),
            AgentDocument(answers, name).design))

\* scoped_agent_design_answers: everyone's, then the agent's document, then
\* the agent's flat keys.
ScopedAnswers(answers, name) ==
  Over(FlatAnswers(answers, name.id, FALSE),
    Over(FlatAnswers(answers, NumberedName(answers, name), FALSE),
      Over(AgentDocument(answers, name).design, FlatAnswers(answers, Everyone, FALSE))))

\* scoped_agent_provider_overrides
ScopedOverrides(answers, template, catalog, name) ==
  Over(FlatAnswers(answers, name.id, TRUE),
    Over(FlatAnswers(answers, NumberedName(answers, name), TRUE),
      Over(AgentDocument(answers, name).overrides,
        IF SharesProviders(answers) THEN <<>> ELSE SelectedOverrides(answers, template, catalog))))

\* build_review_envelope's DwCompositionResolveRequest.
ResolveRequest(answers, template, catalog) ==
  [application |-> answers.plain.manifest_id,
   tenant |-> answers.plain.tenant,
   mode |-> answers.mode \cup IF answers.mode = {} THEN {"recommended"} ELSE {},
   agents |-> [i \in 1..ResolvedAgentCount(answers, template) |->
                 LET name == AgentName(answers, template, i)
                 IN  [answers |-> ScopedAnswers(answers, name),
                      overrides |-> ScopedOverrides(answers, template, catalog, name)]],
   shared |-> IF SharesProviders(answers) THEN SelectedOverrides(answers, template, catalog)
              ELSE <<>>]

-----------------------------------------------------------------------------
(* What the resolver answers, as far as the wizard reads it.               *)

\* The provider an agent's capability gets, if the catalog has it.
BoundProvider(request, template, catalog, i, capability) ==
  LET ways == SelectSeq(<<request.agents[i].overrides, request.shared, template.providers>>,
                        LAMBDA map : capability \in DOMAIN map)
  IN  IF ways = <<>> THEN {} ELSE FindProvider(catalog, ways[1][capability])

\* A setup requirement of every bound provider with a setup schema.
SetupRequirements(request, template, catalog) ==
  {[provider |-> p.id, block |-> IF p.required = <<>> THEN {} ELSE {p.required[1]}] :
     p \in {q \in UNION {BoundProvider(request, template, catalog, i, c) :
                           i \in DOMAIN request.agents, c \in ToSet(Capabilities(template))} :
              q.schemas}}

\* Mutant: only the block a requirement names is shown.
SetupRequiredByName(block, requirements) == \E r \in requirements : block.id \in r.block

\* setup_block_is_required
SetupRequired(block, requirements) ==
  \E r \in requirements : block.id \in r.block \/ block.from = r.provider
=============================================================================
