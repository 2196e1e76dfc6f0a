----------------------------- MODULE MCPackBuild -----------------------------
(* MCComposition carried on to the pack, for a few of its requests: one     *)
(* agent, one agent of a multi-agent template and two agents.               *)
EXTENDS MCComposition, PackBuild

FewWays == {v \in Plain : v.support_packs = <<>> /\ v.overrides = Nobody}
MCPacked ==
  {r \in MCRequests : r.shared = Nobody /\ Len(r.agents) \in 1..2
     /\ \A i \in DOMAIN r.agents : \E v \in FewWays :
          r.agents[i] \in {Named(i, v), [Named(i, v) EXCEPT !.multi = TRUE]}}

Flow == [asset_id |-> <<"main-flow">>, path |-> <<"flows", "main">>, agents |-> {"a1"}]
Prompt == [asset_id |-> <<"system-prompt">>, path |-> <<"prompts", "system">>, agents |-> {"a1"}]
Nothing == [version |-> "none", flows |-> <<>>, prompts |-> <<>>]
MCAdditions ==
  {Nothing, [Nothing EXCEPT !.version = "not_semver"],
   [version |-> "semver", flows |-> <<Flow>>, prompts |-> <<Prompt>>]}

\* Every asset by its id, those of the first agent only, and by path.
Ids == {<<kind, a>> : kind \in {"asset.config", "generated.config"}, a \in {"a1", "a2"}}
       \cup {<<"asset.config.application">>, <<"generated.config.application">>, <<"main-flow">>, <<"system-prompt">>}
Paths == {<<"agents", "a1">>, <<"agents", "a2">>, <<"shared">>, <<"flows", "main">>, <<"prompts", "system">>}
Store(keys, origin) == [k \in keys |-> [key |-> k, origin |-> origin]]

Empty == [kind |-> "none"]
AllIds == [kind |-> "map", store |-> Store(Ids, "map")]
SomeIds == [AllIds EXCEPT !.store = Store({id \in Ids : Len(id) = 2}, "map")]
Disk == [kind |-> "fs", store |-> Store({<<"agents", "a1">>, <<"shared">>}, "fs")]
Site == [kind |-> "http", store |-> Store(Paths, "http")]
Registry == [kind |-> "oci", store |-> Store(Ids \ {<<"main-flow">>}, "oci"),
             digests |-> {<<"asset.config", "a1">>, <<"main-flow">>}]

MCChains ==
  {[suppliers |-> s, io_continues |-> c] :
     s \in {<<>>, <<Empty>>, <<AllIds>>, <<SomeIds, Site>>, <<Disk, Registry, AllIds>>, <<Registry, Disk>>},
     c \in BOOLEAN}
=============================================================================
