------------------------------ MODULE MCWizard ------------------------------
(* An instance of Wizard for TLC: a template for several agents whose two   *)
(* capabilities one provider serves, one whose provider needs a setup, and  *)
(* a single-agent one; catalogs at absolute paths, in the working directory *)
(* and, as in the repository, below it.                                     *)
EXTENDS Cli, TLC

MCCwd == <<"repo">>
MCAgentSuffixes == ("crew.agent-2" :> 2)

AbsoluteCatalog == <<"data", "catalog.json">>
LocalCatalog == <<"repo", "catalog.json">>
StarterCatalog == <<"repo", "examples", "templates", "catalog.json">>
ProvidersFile == <<"data", "providers.json">>

\* ---- Templates -----------------------------------------------------------

Solo == [id |-> "solo", name |-> "Solo", multi |-> FALSE, required |-> <<"mem">>, optional |-> <<>>,
         providers |-> [mem |-> "pg"], questions |-> <<[id |-> "tone", key |-> "tone", required |-> FALSE]>>,
         default_blocks |-> <<"tone">>, review_blocks |-> <<"extra">>, hints |-> FALSE,
         values |-> [tenant |-> "acme", team |-> "ops"], count |-> {2}]
Duo == [Solo EXCEPT !.id = "duo", !.name = "Duo", !.multi = TRUE, !.default_blocks = <<>>,
                    !.questions = <<[id |-> "tone", key |-> "tone", required |-> TRUE]>>, !.count = {}]
Squad == [Duo EXCEPT !.id = "squad", !.name = "Squad", !.required = <<"mem">>, !.optional = <<"obs">>,
                     !.providers = <<>>, !.questions = <<>>, !.review_blocks = <<>>,
                     !.values = <<>>, !.hints = TRUE]

File(segments) == [absolute |-> FALSE, segments |-> segments]
Entry(id, kind, path) == [id |-> id, kind |-> kind, path |-> path]

Entries ==
  <<Entry("squad", "local_path", File(<<"squad.json">>)),
    Entry("duo", "local_path", File(<<"lib", "..", "duo.json">>)),
    Entry("solo", "dev_path", File(<<"solo.json">>)),
    Entry("gone", "local_path", File(<<"gone.json">>)),
    Entry("away", "local_path", File(<<"..", "solo.json">>)),
    Entry("remote", "oci", File(<<"remote">>)),
    Entry("list", "local_path", File(<<"empty.json">>))>>

MCTemplates ==
  (<<"data", "squad.json">> :> Squad) @@ (<<"data", "duo.json">> :> Duo) @@
  (<<"data", "solo.json">> :> Solo) @@ (<<"solo.json">> :> Solo) @@
  (<<"repo", "solo.json">> :> Solo) @@
  (<<"repo", "examples", "templates", "solo.json">> :> Solo)
MCTemplateCatalogs ==
  (AbsoluteCatalog :> Entries) @@ (LocalCatalog :> <<Entry("solo", "local_path", File(<<"solo.json">>))>>) @@
  (StarterCatalog :> <<Entry("solo", "local_path", File(<<"solo.json">>))>>) @@
  (<<"data", "empty.json">> :> <<>>)

\* ---- Providers -----------------------------------------------------------

Redis == [id |-> "redis", serves |-> {"mem", "obs"}, fits |-> {}, recommended |-> {"squad"},
          default_choice |-> FALSE, recommended_choice |-> TRUE, suits |-> {"local", "prod"},
          schemas |-> FALSE, required |-> <<>>,
          blocks |-> <<[id |-> "redis.url", key |-> "url", schema |-> FALSE]>>]
Pg == [id |-> "pg", serves |-> {"mem"}, fits |-> {"solo", "duo"}, recommended |-> {},
       default_choice |-> TRUE, recommended_choice |-> TRUE, suits |-> {"local"},
       schemas |-> TRUE, required |-> <<"pg.auth">>,
       blocks |-> <<[id |-> "pg.size", key |-> "size", schema |-> FALSE]>>]
MCProviderCatalogs == ProvidersFile :> <<Redis, Pg>>

MCFiles == DOMAIN MCTemplates \cup DOMAIN MCTemplateCatalogs \cup DOMAIN MCProviderCatalogs

\* ---- Documents -----------------------------------------------------------

Named == [BlankDocument EXCEPT !.plain.manifest_id = "crew", !.plain.display_name = "Crew"]
\* Two agents, the first answered in the structured form.
Structured == [Named EXCEPT
  !.design = (AgentCount :> 2) @@ (Strategy :> "per_agent") @@ (Key(Everyone, "tone") :> "x"),
  !.agents = Numbered(1) :> [design |-> [tone |-> "y"], overrides |-> [mem |-> "redis"]],
  !.template = {"squad"}]
\* Flat keys for the second agent of an application with a number in its id,
\* and one under a whole id.
Flat == [Named EXCEPT
  !.plain.manifest_id = "crew.agent-2",
  !.design = (AgentCount :> 2) @@ (Key(Numbered(2), "tone") :> "y") @@ (ProviderKey(Numbered(2), "mem") :> "none")]
Whole == [Flat EXCEPT !.design = @ @@ (Key(ById(1), "tone") :> "y")]
Tooled == [Named EXCEPT !.plain.display_name = "", !.mode = {"review_all"},
  !.tools = <<[extension_id |-> "e", extension_version |-> "1", tool_name |-> "t", description |-> "d",
               schema |-> TRUE, agentic |-> FALSE]>>]
MCDocuments == [structured |-> Structured, flat |-> Flat, whole |-> Whole, tooled |-> Tooled]

\* ---- Command lines -------------------------------------------------------

Plain ==
  [schema |-> FALSE, list |-> FALSE, answers |-> {}, template |-> {}, env |-> "local",
   template_catalog |-> {Rooted(AbsoluteCatalog)}, provider_catalog |-> {Rooted(ProvidersFile)},
   non_interactive |-> FALSE, dry_run |-> TRUE, emit_answers |-> TRUE, emit_manifest |-> FALSE,
   review_all |-> FALSE, fields |-> [tenant |-> "acme", requested_locale |-> "nl", human_locale |-> "nl"],
   overrides |-> <<>>]

From(name, scheme) == {[scheme |-> scheme, name |-> name]}
ToRedis == <<[capability |-> "mem", provider |-> "pg"], [capability |-> "mem", provider |-> "redis"]>>

MCCommandLines ==
  {[Plain EXCEPT !.template = {id}] : id \in {"squad", "duo", "solo"}}
  \cup {[Plain EXCEPT !.template = {id}, !.answers = From(name, "file"), !.non_interactive = quiet,
                      !.review_all = deep, !.overrides = o, !.dry_run = dry] :
          id \in {"duo", "solo"}, name \in {"structured", "flat", "whole", "tooled"}, quiet \in BOOLEAN,
          deep \in BOOLEAN, o \in {<<>>, ToRedis}, dry \in BOOLEAN}
  \cup {[Plain EXCEPT !.template = {"duo"}, !.answers = From("structured", "file"),
                      !.fields = [manifest_id |-> "named", team |-> "red"] @@ @]}
  \cup {[Plain EXCEPT !.template = {"gone"}], [Plain EXCEPT !.template = {"away"}],
        [Plain EXCEPT !.template = {"remote"}], [Plain EXCEPT !.template = {"nobody"}],
        [Plain EXCEPT !.template = {"solo"}, !.template_catalog = {}, !.non_interactive = TRUE],
        [Plain EXCEPT !.template = {"solo"}, !.template_catalog = {Relative(<<"catalog.json">>)}],
        [Plain EXCEPT !.template_catalog = {}],
        [Plain EXCEPT !.template_catalog = {Rooted(<<"data", "empty.json">>)}, !.fields = <<>>],
        [Plain EXCEPT !.template_catalog = {Rooted(<<"nowhere">>)}],
        [Plain EXCEPT !.provider_catalog = {Rooted(<<"nowhere">>)}],
        [Plain EXCEPT !.provider_catalog = {}, !.env = "staging"], [Plain EXCEPT !.env = "prod"],
        [Plain EXCEPT !.overrides = <<[capability |-> "mem", provider |-> ""]>>],
        [Plain EXCEPT !.answers = From("flat", "http")], [Plain EXCEPT !.answers = From("flat", "https")],
        [Plain EXCEPT !.answers = From("missing", "file")],
        [Plain EXCEPT !.non_interactive = TRUE, !.emit_manifest = TRUE, !.answers = From("structured", "file")],
        [Plain EXCEPT !.template = {"solo"}, !.fields = [team |-> ""] @@ @], [Plain EXCEPT !.schema = TRUE], [Plain EXCEPT !.list = TRUE],
        [Plain EXCEPT !.list = TRUE, !.template_catalog = {}],
        [Plain EXCEPT !.list = TRUE, !.template_catalog = {Rooted(<<"nowhere">>)}]}

\* The command of the README, run in the repository.
StarterCommand ==
  {[Plain EXCEPT !.template_catalog = {Relative(Tail(StarterCatalog))}, !.provider_catalog = {},
                 !.template = {"solo"}, !.non_interactive = TRUE]}

\* ---- Worker packs ---------------------------------------------------------

\* A spec with two documents whose stems are the same, beside them a third
\* that only the working directory has; a broken pdf, and an invalid spec.
Doc(text) == [type |-> "text", text |-> text]
WorkerSpecOf(pack, valid, documents) ==
  [type |-> "spec", kind |-> "single_turn", pack |-> pack, valid |-> valid,
   documents |-> [i \in DOMAIN documents |-> Relative(<<documents[i]>>)]]
MCDisk ==
  (<<"specs", "crew.yaml">> :> WorkerSpecOf("crew.gtpack", TRUE, <<"faq.md", "faq.pdf">>)) @@
  (<<"specs", "torn.yaml">> :> WorkerSpecOf("crew.gtpack", TRUE, <<"faq.md", "torn.pdf">>)) @@
  (<<"specs", "lone.yaml">> :> WorkerSpecOf("lone.gtpack", TRUE, <<"here.md">>)) @@
  (<<"specs", "wrong.yaml">> :> WorkerSpecOf("crew.gtpack", FALSE, <<>>)) @@
  (<<"specs", "faq.md">> :> Doc("beside")) @@ (<<"specs", "faq.pdf">> :> [type |-> "pdf", text |-> "pages"]) @@
  (<<"specs", "torn.pdf">> :> [type |-> "binary"]) @@
  (<<"repo", "faq.md">> :> Doc("elsewhere")) @@ (<<"repo", "here.md">> :> Doc("here"))
MCDirectories == {<<>>, <<"repo">>, <<"specs">>, <<"repo", "dist">>}
MCStems == ("faq.md" :> "faq") @@ ("faq.pdf" :> "faq") @@ ("here.md" :> "here")
MCKinds == ("single-turn" :> "single_turn") @@ ("deep_worker" :> "deep_worker")

Order(do, file, out) == [do |-> do, kind |-> "", file |-> file, out |-> out, schema |-> FALSE]
At(path, slash) == {[path |-> path, slash |-> slash]}
Outs ==
  {{}, At(Relative(<<>>), FALSE), At(Relative(<<"dist">>), FALSE), At(Relative(<<"dist">>), TRUE),
   At(Relative(<<"out">>), TRUE), At(Relative(<<"dist", "mine.gtpack">>), FALSE),
   At(Relative(<<"crew.gtpack">>), FALSE), At(Relative(<<"nowhere", "mine.gtpack">>), FALSE),
   At(Relative(<<"..", "specs", "mine.gtpack">>), FALSE)}
SpecNames == {"crew.yaml", "torn.yaml", "lone.yaml", "wrong.yaml", "faq.md", "gone.yaml"}
MCWorkerCommands ==
  {Order("build", {Rooted(<<"specs", name>>)}, out) : name \in SpecNames, out \in Outs}
  \cup {Order("validate", {Rooted(<<"specs", name>>)}, {}) : name \in {"crew.yaml", "wrong.yaml"}}
  \cup {[Order("init", {}, out) EXCEPT !.kind = kind] :
           kind \in {"single-turn", "deep_worker", "solo"},
           out \in {{}, At(Rooted(<<"specs", "lone.yaml">>), FALSE), At(Relative(<<"dist">>), FALSE)}}
  \cup {Order("new", {Relative(<<"single-turn">>)}, {}), Order("new", {}, {}),
        [Order("new", {Relative(<<"single-turn">>)}, {}) EXCEPT !.schema = TRUE]}

MCTyped == [f \in ToSet(AskedFields) |-> IF f \in {"tenant", "team"} THEN {"ops"} ELSE {}]
=============================================================================
