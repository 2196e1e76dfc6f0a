---------------------------- MODULE MCComposition ----------------------------
(* Instances of Composition for TLC: up to three agents of a few templates, *)
(* a provider for two capabilities, one that needs setting up, one that is  *)
(* not in the catalog, and a support pack with the id of a provider.        *)
EXTENDS Composition

MCAgentIds == {"a1", "a2", "a3"}
MCCapabilities == {"memory", "search"}
MCProviderIds == {"core", "index", "ghost"}
MCPackRefs == {"docs", "core"}
MCSetupRefs == {"keys", "quota"}
MCCatalog == [core |-> {}, index |-> {"keys", "quota"}]

Nobody == <<>>

Variants ==
  [required : {<<"memory">>, <<"memory", "search">>},
   optional : {<<>>, <<"search">>},
   overrides : {Nobody, [memory |-> "index"], [search |-> "ghost"]},
   defaults : {Nobody, [memory |-> "core", search |-> "core"]},
   support_packs : {<<>>, <<"docs">>, <<"core", "docs">>},
   multi : {FALSE}]

\* Agents that differ in fewer ways, for requests of three.
Plain ==
  {v \in Variants : v.optional = <<>> /\ v.defaults # Nobody /\ v.support_packs # <<"docs">>
                      /\ v.required # <<"memory">>}

Named(i, v) ==
  [id |-> <<"a1", "a2", "a3">>[i], required |-> v.required, optional |-> v.optional,
   overrides |-> v.overrides, defaults |-> v.defaults, support_packs |-> v.support_packs,
   multi |-> v.multi]

AgentLists ==
  {<<>>} \cup {<<Named(1, v), Named(2, w)>> : v, w \in Variants}
         \cup {<<Named(1, u), Named(2, v), Named(3, w)>> : u, v, w \in Plain}
         \cup {<<[Named(1, v) EXCEPT !.multi = TRUE]>> : v \in Variants}

MCRequests == [agents : AgentLists, shared : {Nobody, [search |-> "index"]}]
=============================================================================
