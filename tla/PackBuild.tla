------------------------------ MODULE PackBuild ------------------------------
(***************************************************************************)
(* The application pack of a composition: to_application_pack_spec         *)
(* (greentic-dw-types, pack_spec.rs) declares its assets, a chain of       *)
(* suppliers provides their bytes one by one, and only then the archive is *)
(* written (greentic-dw-pack-builder, lib.rs, meta.rs, supplier.rs).  The  *)
(* archive writer and the stores behind the suppliers are external.        *)
(***************************************************************************)
EXTENDS Composition, SequencesExt

CONSTANTS
  Packed,                   \* the requests whose compositions are packed
  Additions,                \* what a caller adds to a spec [version, flows, prompts]
  Chains                    \* chains of suppliers [suppliers, io_continues]

SupplierKinds == {"none", "map", "fs", "http", "oci"}

IsList(s) == s \in Seq(ToSet(s))

ASSUME PackAssumption ==
  /\ Packed \subseteq Requests
  /\ \A addition \in Additions : IsList(addition.flows) /\ IsList(addition.prompts)
  /\ \A c \in Chains :
       /\ IsList(c.suppliers) /\ c.io_continues \in BOOLEAN
       /\ \A i \in DOMAIN c.suppliers : c.suppliers[i].kind \in SupplierKinds

VARIABLES
  pack_spec,                \* the DwApplicationPackSpec, a sequence of at most one
  chain,                    \* the suppliers of the build, likewise
  tried,                    \* how many suppliers were asked for the asset at hand
  last_io_error,            \* suppliers that failed for it, before the chain went on
  attached,                 \* the entries of the archive so far [path, bytes, from]
  pack_result               \* "none", "written" or the error

packVars == <<pack_spec, chain, tried, last_io_error, attached, pack_result>>

PackInit ==
  /\ Init
  /\ pack_spec = <<>> /\ chain = <<>> /\ tried = 0 /\ last_io_error = {}
  /\ attached = <<>> /\ pack_result = "none"

-----------------------------------------------------------------------------
(* The spec.                                                               *)

AgentList == [i \in DOMAIN Agents |-> Agents[i].id]

\* One asset and one generated configuration for an agent, at one path.
AgentAsset(id) == [asset_id |-> <<"asset.config", id>>, path |-> <<"agents", id>>, agents |-> {id}]
AgentConfig(id) == [asset_id |-> <<"generated.config", id>>, path |-> <<"agents", id>>, agents |-> {id}]

\* What a multi-agent application has besides: again twice at one path.
ApplicationAsset ==
  [asset_id |-> <<"asset.config.application">>, path |-> <<"shared">>, agents |-> ToSet(AgentList)]
ApplicationConfig == [ApplicationAsset EXCEPT !.asset_id = <<"generated.config.application">>]

Mapped(Op(_), seq) == [i \in DOMAIN seq |-> Op(seq[i])]
Shared(entry) == IF multi_agent THEN <<entry>> ELSE <<>>

\* DwApplicationPackRequirement of every binding.
PackRequirements ==
  {[capability |-> b.capability, provider |-> b.provider, agents |-> {b.agent}] : b \in bindings}

\* DwApplicationPackLayout
Layout ==
  IF multi_agent THEN [shared_roots |-> {"shared"}, hint |-> "multi_agent_shared_providers"]
                 ELSE [shared_roots |-> {}, hint |-> "single_agent_pack"]

\* to_application_pack_spec, with what the caller adds to it.
PackSpec(addition) ==
  [version |-> addition.version, agents |-> AgentList, multi_agent |-> multi_agent,
   assets |-> Mapped(AgentAsset, AgentList) \o Shared(ApplicationAsset),
   generated_configs |-> Mapped(AgentConfig, AgentList) \o Shared(ApplicationConfig),
   generated_flows |-> addition.flows, generated_prompts |-> addition.prompts,
   requirements |-> PackRequirements, dependency_pack_refs |-> DependencyRefs,
   setup_requirements |-> unresolved, layout |-> Layout]

\* The composition is resolved; a supplier chain is at hand.
Materialize ==
  /\ phase = "resolved" /\ pack_spec = <<>> /\ request \in Packed
  /\ \E addition \in Additions : pack_spec' = <<PackSpec(addition)>>
  /\ \E c \in Chains : chain' = <<c>>
  /\ UNCHANGED <<vars, tried, last_io_error, attached, pack_result>>

-----------------------------------------------------------------------------
(* Suppliers.  A supplier has a kind and what its store holds: bytes by id  *)
(* for "map" and "oci", by path for "fs" and "http"; "oci" also has the ids *)
(* it knows a digest for.                                                  *)

\* What the descriptor is looked up by.
LookupKey(supplier, descriptor) ==
  IF supplier.kind \in {"fs", "http"} THEN descriptor.path ELSE descriptor.asset_id

\* The doc of supplier.rs: "Suppliers should resolve bytes by asset_id".
Holds(supplier, descriptor) ==
  supplier.kind # "none" /\ LookupKey(supplier, descriptor) \in DOMAIN supplier.store

MapOutcomes(supplier, descriptor) == IF Holds(supplier, descriptor) THEN {"ok"} ELSE {"not_found"}

\* FsAssetSupplier: an absent file is not found, everything else that fails
\* is an I/O error.
FsOutcomes(supplier, descriptor) == IF Holds(supplier, descriptor) THEN {"ok", "io"} ELSE {"not_found"}

\* HttpAssetSupplier: 404 is not found, any other failure an I/O error.
HttpOutcomes(supplier, descriptor) ==
  IF Holds(supplier, descriptor) THEN {"ok", "io"} ELSE {"not_found", "io"}

\* OciAssetSupplier: without a digest the registry is not asked.
OciOutcomes(supplier, descriptor) ==
  IF descriptor.asset_id \notin supplier.digests THEN {"not_found"}
  ELSE HttpOutcomes(supplier, descriptor)

\* How AssetSupplier::provide may end; NoAssetSupplier has nothing.
Outcomes(supplier, descriptor) ==
  CASE supplier.kind = "none" -> {"not_found"}
    [] supplier.kind = "map" -> MapOutcomes(supplier, descriptor)
    [] supplier.kind = "fs" -> FsOutcomes(supplier, descriptor)
    [] supplier.kind = "http" -> HttpOutcomes(supplier, descriptor)
    [] supplier.kind = "oci" -> OciOutcomes(supplier, descriptor)

-----------------------------------------------------------------------------
(* The build.                                                              *)

Building == pack_spec # <<>> /\ pack_result = "none"

\* The order attach_assets asks in.
Declared ==
  pack_spec[1].assets \o pack_spec[1].generated_configs
    \o pack_spec[1].generated_flows \o pack_spec[1].generated_prompts

AtAsset == Building /\ Len(attached) < Len(Declared)
Descriptor == Declared[Len(attached) + 1]
Supplier == chain[1].suppliers[tried + 1]

Abort(error) ==
  /\ pack_result' = error
  /\ UNCHANGED <<vars, pack_spec, chain, tried, last_io_error, attached>>

\* build_pack_meta; a version that is absent has a default.
RefuseVersion ==
  /\ Building /\ attached = <<>> /\ tried = 0
  /\ pack_spec[1].version = "not_semver"
  /\ Abort("invalid_version")

CanAttach == AtAsset /\ pack_spec[1].version # "not_semver"

\* The next supplier has the bytes: first success wins.
Supplied ==
  /\ CanAttach /\ tried < Len(chain[1].suppliers)
  /\ "ok" \in Outcomes(Supplier, Descriptor)
  /\ attached' = Append(attached,
       [path |-> Descriptor.path, bytes |-> Supplier.store[LookupKey(Supplier, Descriptor)],
        from |-> tried + 1])
  /\ tried' = 0 /\ last_io_error' = {}
  /\ UNCHANGED <<vars, pack_spec, chain, pack_result>>

NotFound ==
  /\ CanAttach /\ tried < Len(chain[1].suppliers)
  /\ "not_found" \in Outcomes(Supplier, Descriptor)
  /\ tried' = tried + 1
  /\ UNCHANGED <<vars, pack_spec, chain, last_io_error, attached, pack_result>>

\* Mutant: an I/O failure never ends the search.
IoContinuesAlways == TRUE

IoContinues == chain[1].io_continues

\* An I/O failure ends the build, or is kept while the chain goes on.
SupplierFails ==
  /\ CanAttach /\ tried < Len(chain[1].suppliers)
  /\ "io" \in Outcomes(Supplier, Descriptor)
  /\ IF IoContinues
       THEN /\ tried' = tried + 1
            /\ last_io_error' = {tried + 1}
            /\ UNCHANGED <<vars, pack_spec, chain, attached, pack_result>>
       ELSE Abort("io")

\* Mutant: a chain that comes to its end has not found the asset.
ExhaustedErrorNotFound == "not_found"

ExhaustedError == IF last_io_error # {} THEN "io" ELSE "not_found"

Exhausted ==
  /\ CanAttach /\ tried = Len(chain[1].suppliers)
  /\ Abort(ExhaustedError)

\* entry_flows of build_pack_meta, each with a stub in the archive.
EntryFlows ==
  IF pack_spec[1].generated_flows = <<>>
    THEN [i \in DOMAIN pack_spec[1].agents |-> <<"entry", pack_spec[1].agents[i]>>]
    ELSE [i \in DOMAIN pack_spec[1].generated_flows |-> pack_spec[1].generated_flows[i].asset_id]

\* The external builder writes the archive, for at least one flow, or fails.
WriteArchive ==
  /\ Building /\ Len(attached) = Len(Declared) /\ EntryFlows # <<>>
  /\ pack_result' \in {"written", "build"}
  /\ UNCHANGED <<vars, pack_spec, chain, tried, last_io_error, attached>>

PackNext ==
  \/ Next /\ UNCHANGED packVars
  \/ Materialize \/ RefuseVersion \/ Supplied \/ NotFound \/ SupplierFails
  \/ Exhausted \/ WriteArchive

PackingSpec == PackInit /\ [][PackNext]_<<vars, packVars>>

-----------------------------------------------------------------------------
(* Safety.                                                                 *)

\* An archive is written only with every declared asset at its path, and its
\* bytes come from the first supplier of the chain that holds it unless the
\* chain was told to go on past failures (attach_assets,
\* ChainedAssetSupplier::provide: "first success wins").
ArchivesAreComplete ==
  pack_result = "written" =>
    /\ Len(attached) = Len(Declared)
    /\ \A i \in DOMAIN Declared :
         LET entry == attached[i] s == chain[1].suppliers[entry.from] IN
         /\ entry.path = Declared[i].path
         /\ Holds(s, Declared[i]) /\ entry.bytes = s.store[LookupKey(s, Declared[i])]
         /\ ~chain[1].io_continues => \A j \in 1..(entry.from - 1) :
              \/ ~Holds(chain[1].suppliers[j], Declared[i])
              \/ chain[1].suppliers[j].kind = "oci" /\ Declared[i].asset_id \notin chain[1].suppliers[j].digests
    /\ \A i \in DOMAIN AgentList : \E k \in DOMAIN attached : attached[k].path = <<"agents", AgentList[i]>>

\* A build says that an asset was not found only if no supplier it could ask
\* holds it: a store that failed is never taken for one that lacks the asset
\* (last_io_error of ChainedAssetSupplier::provide).
NotFoundIsTrue ==
  pack_result = "not_found" =>
    \A j \in DOMAIN chain[1].suppliers : LET s == chain[1].suppliers[j] IN
      \/ ~Holds(s, Descriptor)
      \/ s.kind = "oci" /\ Descriptor.asset_id \notin s.digests
=============================================================================
