-------------------------------- MODULE Wizard --------------------------------
(***************************************************************************)
(* A run of `greentic-dw wizard` (greentic-dw-cli, wizard.rs): from a      *)
(* command line over a template, an answer document and the questions put  *)
(* to the user to a validated worker, its review and its task.  The        *)
(* document that a dry run prints may then be replayed without questions.  *)
(***************************************************************************)
EXTENDS WizardQuestions, TemplateSources, WorkerManifest, TaskLifecycle, FiniteSets

CONSTANTS
  CommandLines,             \* the command lines somebody may type
  Documents,                \* the answer documents by name
  TemplateCatalogs,         \* the entries of every template catalog file
  ProviderCatalogs,         \* the providers of every provider catalog file
  Templates,                \* the template in every descriptor file
  Words,                    \* what a user may type where a text is asked for
  Counts,                   \* and where the number of agents is (0: no number)
  Typed                     \* and for the fields of the manifest

Texts == {"manifest_id", "display_name", "manifest_version", "tenant", "worker_default_locale"}

IsMap(map) == map = [k \in DOMAIN map |-> map[k]]
AtMostOne(option) == \A one, other \in option : one = other

\* AnswerDocument
IsDocument(document) ==
  /\ IsMap(document)
  /\ DOMAIN document = {"plain", "template", "mode", "overrides", "design", "agents", "tools"}
  /\ IsMap(document.plain) /\ Texts \subseteq DOMAIN document.plain
  /\ IsMap(document.overrides) /\ IsMap(document.design)
  /\ Len(document.tools) \in Nat /\ DOMAIN document.tools = 1..Len(document.tools)

\* Its design answers are under keys, the number of agents among them.
IsKeyed(document) ==
  /\ \A k \in DOMAIN document.design : k = [to |-> k.to, name |-> k.name, provider |-> k.provider]
  /\ AgentCount \in DOMAIN document.design => document.design[AgentCount] \in Nat

\* WizardArgs: an option is given at most once, --provider-override any number
\* of times.
IsCommandLine(line) ==
  /\ DOMAIN line = {"schema", "list", "answers", "template", "env", "template_catalog",
                    "provider_catalog", "non_interactive", "dry_run", "emit_answers",
                    "emit_manifest", "review_all", "fields", "overrides"}
  /\ AtMostOne(line.answers) /\ AtMostOne(line.template)
  /\ AtMostOne(line.template_catalog) /\ AtMostOne(line.provider_catalog)
  /\ Len(line.overrides) \in Nat /\ DOMAIN line.overrides = 1..Len(line.overrides)

\* A Vec of its elements.
IsList(list) == Len(list) \in Nat /\ list = [i \in 1..Len(list) |-> list[i]]

\* DigitalWorkerTemplate and DwProviderCatalog, as far as the order of what they
\* list matters.
IsTemplate(chosen) ==
  /\ IsList(chosen.questions) /\ IsList(chosen.default_blocks) /\ IsList(chosen.review_blocks)
  /\ IsList(chosen.required) /\ IsList(chosen.optional) /\ chosen.count \subseteq Nat
IsProviderCatalog(catalog) ==
  IsList(catalog) /\ \A i \in DOMAIN catalog : IsList(catalog[i].required) /\ IsList(catalog[i].blocks)

ASSUME WizardAssumption ==
  /\ DOMAIN TemplateCatalogs \cup DOMAIN ProviderCatalogs \cup DOMAIN Templates = Files
  /\ \A line \in CommandLines :
       IsCommandLine(line) /\ \A source \in line.answers : source.scheme \in {"file", "http", "https"}
  /\ \A name \in DOMAIN Documents : IsDocument(Documents[name]) /\ IsKeyed(Documents[name])
  /\ \A file \in DOMAIN TemplateCatalogs : LET entries == TemplateCatalogs[file] IN
       Len(entries) \in Nat /\ DOMAIN entries = 1..Len(entries)
  /\ \A file \in DOMAIN ProviderCatalogs : IsProviderCatalog(ProviderCatalogs[file])
  /\ \A file \in DOMAIN Templates : IsTemplate(Templates[file])
  /\ Counts \subseteq Nat
  /\ "" \notin Words

VARIABLES
  args,                     \* the command line
  phase,                    \* how far run_wizard has come
  error,                    \* what it ended with, if it failed
  answers,                  \* the AnswerDocument
  template,                 \* the selected template, a sequence of at most one
  providers,                \* the provider catalog, a sequence of at most one
  todo,                     \* blocks or fields still to be asked for
  told,                     \* what the user has answered [key, value]
  written,                  \* manifests in the directory of --emit-manifest
  result,                   \* the output, a sequence of at most one
  emitted                   \* document and output of the run that is replayed

vars == <<args, phase, error, answers, template, providers, todo, told, written, result, emitted>>

-----------------------------------------------------------------------------
(* Fields of the manifest.                                                 *)

Options == {"team", "requested_locale", "human_locale"}
AskedFields == <<"manifest_id", "display_name", "tenant", "team", "requested_locale", "human_locale">>

\* A text is missing when it is blank, an option when it is not there.
Missing(plain, field) == field \notin DOMAIN plain \/ (field \in Texts /\ plain[field] = "")

Option(plain, field) == IF field \in DOMAIN plain THEN {plain[field]} ELSE {}

\* Mutant: defaults replace what was given.
FilledAlways(plain, defaults) == Over(defaults, plain)

\* Defaults only fill gaps.
Filled(plain, defaults) ==
  Over([f \in {g \in DOMAIN defaults : Missing(plain, g)} |-> defaults[f]], plain)

\* apply_template_defaults
TemplateDefaults(document, chosen) ==
  [document EXCEPT
    !.plain = Filled(Filled(@, [manifest_id |-> chosen.id, display_name |-> chosen.name]), chosen.values),
    !.template = OrElse(@, {chosen.id}),
    !.design = IF AgentCount \in DOMAIN @ \/ chosen.count = {} THEN @
               ELSE Put(@, AgentCount, CHOOSE n \in chosen.count : TRUE)]

\* build_manifest
BuildManifest(document) ==
  [version |-> SchemaVersion, id |-> document.plain.manifest_id,
   display_name |-> document.plain.display_name,
   worker_version |-> {document.plain.manifest_version}, tenant |-> document.plain.tenant,
   team_policy |-> [enabled |-> TRUE, default |-> Option(document.plain, "team"), override |-> TRUE],
   capabilities |-> TRUE, default_locale |-> document.plain.worker_default_locale,
   policy |-> "prefer_requested", output |-> "match_requested", deep_agent |-> <<>>,
   tools |-> document.tools]

-----------------------------------------------------------------------------
(* Where a run reads from.                                                 *)

BlankDocument ==
  [plain |-> [f \in Texts |-> CASE f = "manifest_version" -> "0.5"
                                [] f = "worker_default_locale" -> "en-US"
                                [] OTHER -> ""],
   template |-> {}, mode |-> {}, overrides |-> <<>>, design |-> <<>>, agents |-> <<>>, tools |-> <<>>]

Starter(kind) == Relative(<<"examples", kind, "catalog.json">>)

\* discover_starter_catalog_path, only for runs that may ask.
CatalogPath(given, kind) ==
  IF given # {} THEN given
  ELSE IF args.non_interactive \/ ~IsFile(Starter(kind)) THEN {} ELSE {Starter(kind)}

TemplatePath == CatalogPath(args.template_catalog, "templates")
ProviderPath == CatalogPath(args.provider_catalog, "providers")

Provided == IF providers = <<>> THEN <<>> ELSE providers[1]

Init ==
  /\ args \in CommandLines
  /\ phase = "start" /\ error = {}
  /\ answers = BlankDocument
  /\ template = <<>> /\ providers = <<>> /\ todo = <<>>
  /\ told = {} /\ written = {} /\ result = <<>> /\ emitted = <<>>

\* A question mark in run_wizard: the error ends the run.
Fail(what) ==
  /\ phase' = "failed" /\ error' = {what}
  /\ UNCHANGED <<args, answers, template, providers, todo, told, written, result, emitted>>

Done(output) ==
  /\ phase' = "done" /\ result' = <<output>>
  /\ UNCHANGED <<args, error, answers, template, providers, todo, told, written, emitted>>

-----------------------------------------------------------------------------
(* Before any question.                                                    *)

PrintSchema == phase = "start" /\ args.schema /\ Done([mode |-> "schema"])

ListTemplates ==
  /\ phase = "start" /\ ~args.schema /\ args.list
  /\ \/ args.template_catalog = {} /\ Fail("catalog_path_required")
     \/ \E path \in args.template_catalog :
          IF OnDisk(path) \in DOMAIN TemplateCatalogs
            THEN Done([mode |-> "template_catalog",
                       entries |-> Catalog(path, TemplateCatalogs[OnDisk(path)]).entries])
            ELSE Fail("catalog_unreadable")

Loaded(document) ==
  /\ answers' = document
  /\ phase' = "template"
  /\ UNCHANGED <<args, error, template, providers, todo, told, written, result, emitted>>

\* load_answers: a file, or a document fetched over https; plain http is
\* refused.
LoadAnswers ==
  /\ phase = "start" /\ ~args.schema /\ ~args.list
  /\ \/ args.answers = {} /\ Loaded(BlankDocument)
     \/ \E source \in args.answers :
          \/ source.scheme = "http" /\ Fail("insecure_answers_url")
          \/ source.scheme = "https" /\ Fail("answers_fetch")
          \/ /\ source.scheme \in {"https", "file"}
             /\ IF source.name \in DOMAIN Documents THEN Loaded(Documents[source.name])
                ELSE Fail("answers_read")
          \/ source.scheme = "emitted" /\ Loaded(emitted[1].answers)

WithTemplate(chosen) ==
  /\ phase' = "providers"
  /\ template' = chosen
  /\ answers' = IF chosen = <<>> THEN answers ELSE TemplateDefaults(answers, chosen[1])
  /\ UNCHANGED <<args, error, providers, todo, told, written, result, emitted>>

\* The template of --template, or the one picked from the catalog's list
\* (prompt_template_selection: every response picks one).
SelectTemplate ==
  /\ phase = "template"
  /\ \/ /\ args.template = {}
        /\ args.non_interactive \/ TemplatePath = {}
        /\ WithTemplate(<<>>)
     \/ args.template # {} /\ TemplatePath = {} /\ Fail("catalog_path_required")
     \/ /\ args.template # {} \/ ~args.non_interactive
        /\ \E path \in TemplatePath :
             IF OnDisk(path) \notin DOMAIN TemplateCatalogs THEN Fail("catalog_unreadable")
             ELSE LET catalog == Catalog(path, TemplateCatalogs[OnDisk(path)])
                      ids == OrElse(args.template, {e.id : e \in ToSet(catalog.entries)})
                  IN  \/ ids = {} /\ WithTemplate(<<>>)
                      \/ \E id \in ids :
                           IF Resolution(catalog, id) # "found" THEN Fail(Resolution(catalog, id))
                           ELSE \E entry \in FindEntry(catalog, id) :
                                  LET file == OnDisk(Candidate(catalog, entry.path))
                                  IN  IF file \in DOMAIN Templates THEN WithTemplate(<<Templates[file]>>)
                                      ELSE Fail("descriptor_parse")

LoadProviders ==
  /\ phase = "providers"
  /\ \/ /\ ProviderPath = {} \/ \E path \in ProviderPath : OnDisk(path) \in DOMAIN ProviderCatalogs
        /\ providers' = IF ProviderPath = {} THEN <<>>
                        ELSE LET path == CHOOSE p \in ProviderPath : TRUE
                             IN  <<FilterBySuitability(ProviderCatalogs[OnDisk(path)], args.env)>>
        /\ phase' = "overrides"
        /\ UNCHANGED <<args, error, answers, template, todo, told, written, result, emitted>>
     \/ /\ \E path \in ProviderPath : OnDisk(path) \notin DOMAIN ProviderCatalogs
        /\ Fail("provider_catalog_unreadable")

\* Mutant: flags only fill gaps.
WithOverridesFill(document) ==
  [document EXCEPT !.plain = Over(@, args.fields),
                   !.mode = IF args.review_all THEN {"review_all"} ELSE @,
                   !.overrides = FoldLeft(LAMBDA map, o : Put(map, o.capability, o.provider), @, args.overrides)]

\* The flags replace what the document says.
WithOverrides(document) ==
  [document EXCEPT !.plain = Over(args.fields, @),
                   !.mode = IF args.review_all THEN {"review_all"} ELSE @,
                   !.overrides = FoldLeft(LAMBDA map, o : Put(map, o.capability, o.provider), @, args.overrides)]

\* apply_overrides, and what run_wizard does next.
ApplyOverrides ==
  /\ phase = "overrides"
  /\ \/ /\ \E o \in ToSet(args.overrides) : "" \in {o.capability, o.provider}
        /\ Fail("invalid_provider_override")
     \/ /\ \A o \in ToSet(args.overrides) : "" \notin {o.capability, o.provider}
        /\ answers' = WithOverrides(answers)
        /\ phase' = IF args.non_interactive THEN "build"
                    ELSE IF template = <<>> THEN "fields" ELSE "mode"
        /\ todo' = IF phase' = "fields" THEN AskedFields ELSE <<>>
        /\ UNCHANGED <<args, error, template, providers, told, written, result, emitted>>

-----------------------------------------------------------------------------
(* The questions (prompt_design_flow_with and prompt_if_missing).          *)

DesignBlocks(document) ==
  BlocksFor(Assembly(template[1], providers), "design", CHOOSE m \in document.mode : TRUE)

\* The two questions that decide how often the others are asked.
AskedFirst(block, document) ==
  \/ block.key = {AgentCount} /\ template[1].multi /\ AgentCount \notin DOMAIN document.design
  \/ block.key = {Strategy} /\ Strategy \notin DOMAIN document.design

\* How deep the questions go.
AskMode ==
  /\ phase = "mode"
  /\ \E mode \in OrElse(answers.mode, {"recommended", "review_all"}) :
       answers' = [answers EXCEPT !.mode = {mode}]
  /\ todo' = DesignBlocks(answers')
  /\ phase' = "topology"
  /\ UNCHANGED <<args, error, template, providers, told, written, result, emitted>>

\* Mutant: a question is put whether or not it was answered before.
AskedAgain(block, document) ==
  /\ block.key \notin {{}, {AgentCount}, {Strategy}}
  /\ block.select => block.agent # Everyone \/ \A k \in block.key : k.name \notin DOMAIN document.overrides

\* Which blocks a question is still put for: nobody has answered it.
Asked(block, document) ==
  /\ block.key \notin {{}, {AgentCount}, {Strategy}}
  /\ \A k \in block.key :
       IF block.select /\ block.agent = Everyone THEN k.name \notin DOMAIN document.overrides
                                                 ELSE k \notin DOMAIN document.design

\* The next block; one agent, and Enter, are not written down.
AskTopology ==
  /\ phase = "topology" /\ todo # <<>>
  /\ \/ UNCHANGED answers
     \/ /\ AskedFirst(Head(todo), answers)
        /\ \E key \in Head(todo).key :
             \E value \in IF key = AgentCount THEN Counts \ {1} ELSE {"shared", "per_agent"} :
               answers' = [answers EXCEPT !.design = Put(@, key, value)]
  /\ todo' = Tail(todo)
  /\ UNCHANGED <<args, phase, error, template, providers, told, written, result, emitted>>

BeginQuestions ==
  /\ phase = "topology" /\ todo = <<>>
  /\ todo' = ResolveVisible(DesignBlocks(answers), answers, template[1])
  /\ phase' = "questions"
  /\ UNCHANGED <<args, error, answers, template, providers, told, written, result, emitted>>

\* upsert_agent_answer_document
AgentEntry(document, agent) ==
  IF agent \in DOMAIN document.agents THEN document.agents[agent]
  ELSE [design |-> <<>>, overrides |-> <<>>]

\* Where an answer goes: an agent's into its document and, under the scoped
\* key, into the flat answers as well.
Store(document, block, key, value) ==
  LET entry == AgentEntry(document, block.agent)
      own == IF block.select THEN [entry EXCEPT !.overrides = Put(@, key.name, value)]
                             ELSE [entry EXCEPT !.design = Put(@, key.name, value)]
  IN  IF block.agent # Everyone
        THEN [document EXCEPT !.agents = Put(@, block.agent, own), !.design = Put(@, key, value)]
      ELSE IF block.select THEN [document EXCEPT !.overrides = Put(@, key.name, value)]
      ELSE [document EXCEPT !.design = Put(@, key, value)]

\* A provider choice may name any provider, a text any word.
Responses(block) == IF block.select THEN {Provided[i].id : i \in DOMAIN Provided} ELSE Words

\* The next block: not asked, left with Enter, or answered.
AnswerQuestion ==
  /\ phase = "questions" /\ todo # <<>>
  /\ \/ UNCHANGED <<answers, told>>
     \/ /\ Asked(Head(todo), answers)
        /\ \E key \in Head(todo).key, value \in Responses(Head(todo)) :
             /\ answers' = Store(answers, Head(todo), key, value)
             /\ told' = {t \in told : t.key # key} \cup {[key |-> key, value |-> value]}
  /\ todo' = Tail(todo)
  /\ UNCHANGED <<args, phase, error, template, providers, written, result, emitted>>

EndQuestions ==
  /\ phase = "questions" /\ todo = <<>>
  /\ todo' = AskedFields
  /\ phase' = "fields"
  /\ UNCHANGED <<args, error, answers, template, providers, told, written, result, emitted>>

\* prompt_if_missing: a text is stored even if it is blank.
AskField ==
  /\ phase = "fields" /\ todo # <<>>
  /\ \/ ~Missing(answers.plain, Head(todo)) /\ UNCHANGED answers
     \/ /\ Missing(answers.plain, Head(todo))
        /\ \E value \in Typed[Head(todo)] \cup {""} :
             answers' = IF value = "" /\ Head(todo) \in Options THEN answers
                        ELSE [answers EXCEPT !.plain = Put(@, Head(todo), value)]
  /\ todo' = Tail(todo)
  /\ UNCHANGED <<args, phase, error, template, providers, told, written, result, emitted>>

EndFields ==
  /\ phase = "fields" /\ todo = <<>>
  /\ phase' = "build"
  /\ UNCHANGED <<args, error, answers, template, providers, todo, told, written, result, emitted>>

-----------------------------------------------------------------------------
(* The worker, its task and the review.                                    *)

ValidateManifest ==
  /\ phase = "build"
  /\ \/ \E problem \in Validate(BuildManifest(answers)) : Fail(problem)
     \/ /\ Validate(BuildManifest(answers)) = {}
        /\ phase' = "emit"
        /\ UNCHANGED <<args, error, answers, template, providers, todo, told, written, result, emitted>>

\* emit_manifest_file
EmitManifest ==
  /\ phase = "emit"
  /\ \/ args.emit_manifest /\ Fail("manifest_write")
     \/ /\ written' = IF args.emit_manifest THEN written \cup {BuildManifest(answers)} ELSE written
        /\ phase' = "output"
        /\ UNCHANGED <<args, error, answers, template, providers, todo, told, result, emitted>>

\* The task of the worker's own tenant and team.
Task(document) ==
  TaskEnvelope(BuildManifest(document),
    [tenant |-> document.plain.tenant, team |-> Option(document.plain, "team")],
    Option(document.plain, "requested_locale"), Option(document.plain, "human_locale"))

\* build_dry_run_output, the part that needs a template.
Review(document, chosen, catalogs) ==
  LET request == ResolveRequest(document, chosen, IF catalogs = <<>> THEN <<>> ELSE catalogs[1])
      needs == SetupRequirements(request, chosen, IF catalogs = <<>> THEN <<>> ELSE catalogs[1])
      assembly == Assembly(chosen, catalogs)
      setup == Matching(assembly, LAMBDA b : b.phase = "setup" /\ SetupRequired(b, needs))
      design == BlocksFor(assembly, "design", CHOOSE m \in request.mode : TRUE)
  IN  [request |-> request,
       design |-> ResolveVisible(design, document, chosen),
       setup |-> ResolveVisible(setup, document, chosen)]

DryRun ==
  /\ phase = "output" /\ args.dry_run
  /\ Done([mode |-> "dry_run", task |-> Task(answers),
           review |-> [i \in DOMAIN template |-> Review(answers, template[i], providers)]])

\* The engine starts and completes the task; nothing can refuse it.
Execute ==
  /\ phase = "output" /\ ~args.dry_run
  /\ Done([mode |-> "execute",
           task |-> [Task(answers) EXCEPT
                      !.state = FoldLeft(LAMBDA s, op : TargetState(op, s), @, <<"start", "complete">>)]])

\* What --template may be to select a template in the catalog at a path.
NamesOf(chosen, path) ==
  LET catalog == Catalog(path, TemplateCatalogs[OnDisk(path)])
  IN  {e.id : e \in {f \in ToSet(catalog.entries) :
         /\ Resolution(catalog, f.id) = "found"
         /\ \E entry \in FindEntry(catalog, f.id) :
              LET file == OnDisk(Candidate(catalog, entry.path))
              IN  file \in DOMAIN Templates /\ Templates[file] = chosen}}

\* The printed document is run again with the same template and catalogs and
\* no other flag.
Replay ==
  /\ phase = "done" /\ emitted = <<>>
  /\ args.emit_answers /\ result[1].mode = "dry_run"
  /\ emitted' = <<[answers |-> answers, result |-> result[1]]>>
  /\ \E names \in IF template = <<>> THEN {{}}
                   ELSE {{id} : id \in UNION {NamesOf(template[1], path) : path \in TemplatePath}} :
       args' = [args EXCEPT !.answers = {[scheme |-> "emitted", name |-> ""]},
                            !.template = names,
                            !.template_catalog = TemplatePath, !.provider_catalog = ProviderPath,
                            !.non_interactive = TRUE, !.review_all = FALSE,
                            !.fields = <<>>, !.overrides = <<>>]
  /\ phase' = "start" /\ answers' = BlankDocument
  /\ template' = <<>> /\ providers' = <<>> /\ todo' = <<>> /\ told' = {} /\ result' = <<>>
  /\ UNCHANGED <<error, written>>

Next ==
  \/ PrintSchema \/ ListTemplates \/ LoadAnswers \/ SelectTemplate \/ LoadProviders
  \/ ApplyOverrides \/ AskMode \/ AskTopology \/ BeginQuestions \/ AnswerQuestion
  \/ EndQuestions \/ AskField \/ EndFields \/ ValidateManifest \/ EmitManifest
  \/ DryRun \/ Execute \/ Replay

Spec == Init /\ [][Next]_vars

-----------------------------------------------------------------------------
(* Safety.                                                                 *)

\* Nothing that the document, the template or the user has answered is changed
\* by a later question, although two capabilities of one provider put the
\* same follow-up question twice; only the flags replace a provider choice
\* (apply_template_defaults, prompt_design_flow_with).
AnswersAreKept ==
  [][(phase \notin {"start", "done"}) =>
       /\ \A k \in DOMAIN answers.design :
            k \in DOMAIN answers'.design /\ answers'.design[k] = answers.design[k]
       /\ phase # "overrides" => \A c \in DOMAIN answers.overrides :
            c \in DOMAIN answers'.overrides /\ answers'.overrides[c] = answers.overrides[c]]_vars

Document(source) == IF source.scheme = "emitted" THEN emitted[1].answers ELSE Documents[source.name]

\* For the fields of the manifest a flag beats the document, the document the
\* template, the template the user; and a flag beats the document's providers
\* (apply_template_defaults, apply_overrides, prompt_if_missing).
FieldsKeepTheirPrecedence ==
  phase \in {"mode", "topology", "questions", "fields", "build", "emit", "output"} =>
    /\ \A f \in DOMAIN args.fields : ~Missing(args.fields, f) => answers.plain[f] = args.fields[f]
    /\ \A source \in args.answers : LET plain == Document(source).plain IN
         \A f \in DOMAIN plain \ DOMAIN args.fields : ~Missing(plain, f) => answers.plain[f] = plain[f]
    /\ \A i \in DOMAIN args.overrides :
         (\A j \in DOMAIN args.overrides : j > i => args.overrides[j].capability # args.overrides[i].capability)
           => answers.overrides[args.overrides[i].capability] = args.overrides[i].provider

Reviewed == phase = "done" /\ result[1].mode = "dry_run" /\ result[1].review # <<>>

\* What the composition of the i-th agent is asked to use under a key's name.
Used(request, i, key) ==
  IF key.provider THEN Over(request.agents[i].overrides, request.shared) ELSE request.agents[i].answers

\* An agent has an answer of its own under the key's name, in either form.
OwnAnswers(key) ==
  \/ \E k \in DOMAIN answers.design :
       k.to # Everyone /\ k.name = key.name /\ k.provider = key.provider
  \/ \E a \in DOMAIN answers.agents : LET entry == answers.agents[a] IN
       key.name \in DOMAIN (IF key.provider THEN entry.overrides ELSE entry.design)

\* The document answers under an agent's whole id, which nobody is asked for
\* and which beats what the user says.
AnsweredById == \E k \in DOMAIN answers.design : k.to # Everyone /\ k.to[1] = "id"

\* What the user says last of one agent is what that agent is composed with,
\* what is said of all reaches every agent unless some have answers of their
\* own, and a document's entry for an agent counts unless there is a flat key
\* (scoped_agent_design_answers, scoped_agent_provider_overrides).
AgentsGetTheirOwnAnswers ==
  Reviewed => LET request == result[1].review[1].request IN
    \A i \in DOMAIN request.agents :
      /\ \A t \in told :
           \/ t.key.to = Numbered(i) /\ ~AnsweredById
           \/ t.key.to = Everyone /\ ~OwnAnswers(t.key)
           => Used(request, i, t.key)[t.key.name] = t.value
      /\ (Len(request.agents) > 1 /\ Numbered(i) \in DOMAIN answers.agents
            /\ ById(i) \notin DOMAIN answers.agents) =>
           \A name \in DOMAIN answers.agents[Numbered(i)].design :
             (\A to \in {Numbered(i), ById(i)} : Key(to, name) \notin DOMAIN answers.design)
               => request.agents[i].answers[name] = answers.agents[Numbered(i)].design[name]

\* The setup questions on show are those of the providers some agent is bound
\* to and that need a setup, whichever capability they serve, and with several
\* agents of their own providers each agent has its copy
\* (build_dry_run_output, setup_block_is_required).
SetupQuestionsFollowTheProviders ==
  Reviewed /\ providers # <<>> =>
    LET review == result[1].review[1]
        bound == UNION {BoundProvider(review.request, template[1], Provided, i, c) :
                          i \in DOMAIN review.request.agents, c \in ToSet(Capabilities(template[1]))}
        needy == {p \in bound : p.schemas}
        Copies(block) == {b \in ToSet(review.setup) : b.id = block.id /\ b.from = block.from}
        agents == Len(review.request.agents)
    IN  \A block \in ToSet(Assembly(template[1], providers)) :
          block.phase = "setup" =>
            /\ block.from \in {p.id : p \in needy} =>
                 Cardinality({b.agent : b \in Copies(block)})
                   = IF agents > 1 /\ ~SharesProviders(answers) THEN agents ELSE 1
            /\ Copies(block) # {} => \E p \in needy : p.id = block.from \/ block.id \in ToSet(p.required)

\* A printed document, run again without questions, asks for the same
\* composition and the same task, whatever mixture of flags, document,
\* template and answers it came from (AnswerDocument's "replay/capture").
ReplayRepeatsTheRequest ==
  emitted # <<>> =>
    /\ phase = "failed" => error = {"manifest_write"}
    /\ phase = "done" => result = <<emitted[1].result>>

\* A template that its catalog lists and that lies beside it is used: README,
\* "Use the built-in starter template catalog".
StarterTemplateIsUsed ==
  error = {"unreadable"} =>
    \E path \in TemplatePath, id \in args.template : \A i \in DOMAIN TemplateCatalogs[OnDisk(path)] :
      LET entry == TemplateCatalogs[OnDisk(path)][i]
      IN  entry.id = id => ~IsFile(Join(Parent(path), entry.path))
=============================================================================
