------------------------------ MODULE Workspace ------------------------------
(***************************************************************************)
(* The in-memory artifact store (greentic-dw-workspace-mem) under several  *)
(* users at once: callers that create, update, read, list and link          *)
(* artifacts, and threads that compress or summarise contexts through       *)
(* providers (greentic-dw-context-llm) whose results become artifacts.      *)
(* Every call of the store holds its lock, so it is one step; a provider    *)
(* waits for its model and draws its number outside the lock.               *)
(***************************************************************************)
EXTENDS Naturals, Sequences

CONSTANTS
  Providers, Threads,       \* context providers on one store, threads that use them
  ScopeOf,                  \* the scope of each provider
  StepIds, Scopes, Bodies,  \* ids, scopes and bodies of the other callers
  MaxFragments,             \* bound: fragment references of a context
  MaxCalls                  \* bound: calls in a behaviour

ASSUME WorkspaceAssumption ==
  "caller" \notin Providers /\ MaxFragments \in Nat /\ MaxCalls \in Nat

Idle == [stage |-> "idle"]
Kinds == {"compressed", "summary"}

VARIABLES
  store,                    \* artifacts by id: [scope, body, versions, links]
  counter,                  \* next number of each provider
  packages,                 \* contexts built: [number, fragments]
  job,                      \* what each thread is compressing or summarising
  answer,                   \* how the last call returned
  seen,                     \* versions some caller was told of (history)
  author,                   \* who created each artifact (history)
  collisions,               \* contexts lost to an id that was taken (history)
  calls                     \* calls so far

workspaceVars ==
  <<store, counter, packages, job, answer, seen, author, collisions, calls>>

WorkspaceInit ==
  /\ store = <<>> /\ author = <<>>
  /\ counter = [p \in Providers |-> 0]
  /\ packages = {}
  /\ job = [t \in Threads |-> Idle]
  /\ answer = "none"
  /\ seen = {} /\ collisions = {} /\ calls = 0

-----------------------------------------------------------------------------
Known(id) == id \in DOMAIN store
Latest(id) == store[id].versions[Len(store[id].versions)]
Told(id, version) == seen' = seen \cup {[id |-> id, version |-> version.number, body |-> version.body]}

Called(result) == calls < MaxCalls /\ calls' = calls + 1 /\ answer' = result

With(f, id, value) == [i \in DOMAIN f \cup {id} |-> IF i = id THEN value ELSE f[i]]

\* Mutant: an id that is taken is written over.
MayCreateAlways(id) == TRUE

\* create_artifact refuses an id the store knows, whatever its scope.
MayCreate(id) == ~Known(id)

\* create_artifact of an id the store does not know: version 1.
CreateArtifact(id, scope, body, by) ==
  LET first == [number |-> 1, body |-> body] IN
  /\ store' = With(store, id, [scope |-> scope, body |-> body, versions |-> <<first>>, links |-> {}])
  /\ author' = With(author, id, by)
  /\ Told(id, first)

Create(id, scope, body) ==
  /\ \/ Called("ok") /\ MayCreate(id) /\ CreateArtifact(id, scope, body, "caller")
     \/ Called("already exists") /\ ~MayCreate(id) /\ UNCHANGED <<store, author, seen>>
  /\ UNCHANGED <<counter, packages, job, collisions>>

\* Mutant: an update replaces the latest version.
PushInPlace(versions, version) == [versions EXCEPT ![Len(versions)] = version]

\* entry.versions.push.
Push(versions, version) == Append(versions, version)

\* update_artifact: the number follows the latest one; nothing checks which
\* version the caller had read.
Update(id, body) ==
  /\ \/ /\ Called("ok") /\ Known(id)
        /\ LET next == [number |-> Latest(id).number + 1, body |-> body]
           IN  /\ store' = With(store, id, [scope |-> store[id].scope, body |-> body,
                                         versions |-> Push(store[id].versions, next), links |-> store[id].links])
               /\ Told(id, next)
     \/ Called("not found") /\ ~Known(id) /\ UNCHANGED <<store, seen>>
  /\ UNCHANGED <<counter, packages, job, author, collisions>>

\* read_artifact: the body, under the number of the latest version.
Read(id) ==
  /\ \/ Called("ok") /\ Known(id) /\ Told(id, [number |-> Latest(id).number, body |-> store[id].body])
     \/ Called("not found") /\ ~Known(id) /\ UNCHANGED seen
  /\ UNCHANGED <<store, counter, packages, job, author, collisions>>

\* list_artifacts: the latest version of every artifact of exactly this scope.
List(scope) ==
  /\ Called("ok")
  /\ seen' = seen \cup
       {[id |-> id, version |-> Latest(id).number, body |-> Latest(id).body] :
          id \in {i \in DOMAIN store : store[i].scope = scope}}
  /\ UNCHANGED <<store, counter, packages, job, author, collisions>>

\* link_artifacts: both ends are looked up.
Linkable(from, to) == Known(to) /\ Known(from)

Link(from, to) ==
  /\ \/ /\ Called("ok") /\ Linkable(from, to)
        /\ store' = With(store, from, [scope |-> store[from].scope, body |-> store[from].body,
                          versions |-> store[from].versions, links |-> store[from].links \cup {to}])
     \/ Called("not found") /\ ~Linkable(from, to) /\ UNCHANGED store
  /\ UNCHANGED <<counter, packages, job, seen, author, collisions>>

-----------------------------------------------------------------------------
\* Mutant: a provider's number is read but not drawn.
NextIdKept(p) == counter' = counter

\* next_id: one atomic counter for contexts, compressions and summaries.
NextId(p) == counter' = [counter EXCEPT ![p] = @ + 1]

\* validate_context_package of a package that was cut to its budget.
ValidBudget(max) == max > 0

\* build_context: the first references within the budget; a budget of none is
\* refused, after the number was drawn.
BuildContext(p, refs, max) ==
  /\ NextId(p)
  /\ \/ /\ ValidBudget(max) /\ Called("ok")
        /\ LET taken == IF refs < max THEN refs ELSE max
           IN  packages' = packages \cup {[number |-> counter[p], fragments |-> taken]}
     \/ ~ValidBudget(max) /\ Called("invalid") /\ UNCHANGED packages
  /\ UNCHANGED <<store, job, seen, author, collisions>>

\* compress_context and summarize_context, up to the call of the model.
Begin(t, p, package, kind) ==
  /\ job[t] = Idle
  /\ job' = [job EXCEPT ![t] = [stage |-> "asking", provider |-> p, package |-> package, kind |-> kind]]
  /\ Called("none")
  /\ UNCHANGED <<store, counter, packages, seen, author, collisions>>

ModelFails(t) ==
  /\ job[t].stage = "asking"
  /\ job' = [job EXCEPT ![t] = Idle]
  /\ answer' = "provider error"
  /\ UNCHANGED <<store, counter, packages, seen, author, collisions, calls>>

\* The model has answered: the number of the artifact is drawn.
DrawId(t) ==
  LET j == job[t] IN
  /\ j.stage = "asking"
  /\ job' = [job EXCEPT ![t] = [stage |-> "writing", provider |-> j.provider,
                                id |-> <<j.kind, j.package.number, counter[j.provider]>>]]
  /\ NextId(j.provider)
  /\ UNCHANGED <<store, packages, answer, seen, author, collisions, calls>>

\* write_artifact under the provider's scope; a refusal fails the call.
WriteArtifact(t) ==
  LET j == job[t] IN
  /\ j.stage = "writing"
  /\ job' = [job EXCEPT ![t] = Idle]
  /\ \/ /\ MayCreate(j.id) /\ answer' = "ok"
        /\ CreateArtifact(j.id, ScopeOf[j.provider], <<j.provider, j.id[2]>>, j.provider)
        /\ UNCHANGED collisions
     \/ /\ ~MayCreate(j.id) /\ answer' = "provider error"
        /\ collisions' = collisions \cup {[id |-> j.id, provider |-> j.provider]}
        /\ UNCHANGED <<store, seen, author>>
  /\ UNCHANGED <<counter, packages, calls>>

\* A request that does not validate: an artifact without an id, scope or
\* title, a link without a relation, a context over its budget.
RefuseRequest ==
  /\ Called("invalid")
  /\ UNCHANGED <<store, counter, packages, job, seen, author, collisions>>

WorkspaceNext ==
  \/ RefuseRequest
  \/ \E id \in StepIds, scope \in Scopes, body \in Bodies : Create(id, scope, body)
  \/ \E id \in StepIds \cup DOMAIN store :
       \/ Read(id)
       \/ \E body \in Bodies : Update(id, body)
       \/ \E to \in StepIds \cup DOMAIN store : Link(id, to)
  \/ \E scope \in Scopes : List(scope)
  \/ \E p \in Providers, refs, max \in 0..MaxFragments : BuildContext(p, refs, max)
  \/ \E t \in Threads :
       \/ ModelFails(t) \/ DrawId(t) \/ WriteArtifact(t)
       \/ \E p \in Providers, package \in packages, kind \in Kinds : Begin(t, p, package, kind)

WorkspaceSpec == WorkspaceInit /\ [][WorkspaceNext]_workspaceVars

-----------------------------------------------------------------------------
\* Whatever any caller was told of an artifact stays true: the version it
\* created, wrote, read or saw listed is still in the store under its number
\* with the body it had, whoever writes in between, and every link still leads
\* to an artifact (create_artifact, update_artifact, link_artifacts).
WhatWasToldStays ==
  /\ \A told \in seen :
       /\ Known(told.id) /\ told.version \in DOMAIN store[told.id].versions
       /\ store[told.id].versions[told.version] = [number |-> told.version, body |-> told.body]
  /\ \A id \in DOMAIN store : store[id].links \subseteq DOMAIN store

\* A context that was compressed or summarised is never lost to an artifact
\* of the same provider, however its threads interleave between the model's
\* answer, the number and the write (LlmContextProvider::next_id); providers
\* that share a store can take each other's ids.
ProvidersDoNotCollideWithThemselves ==
  \A c \in collisions : author[c.id] # c.provider
=============================================================================
