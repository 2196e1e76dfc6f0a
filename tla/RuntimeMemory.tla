---------------------------- MODULE RuntimeMemory ----------------------------
(***************************************************************************)
(* The two memory tiers of the kernel (greentic-dw-runtime, memory.rs,      *)
(* capability.rs and the memory methods of runtime.rs).  A caller that     *)
(* holds the task between two calls of the kernel writes and reads         *)
(* records; a policy sees the task and the record; the stores are external *)
(* and outlive a crash.                                                    *)
(***************************************************************************)
EXTENDS DwRuntime, Functions

CONSTANTS
  Wirings,                  \* [short, long, bindings]: ways a runtime may be built
  Queries, Values,          \* what is asked for (scope, subject and key), and written
  NoValue,                  \* the provider's None, or JSON null
  MayWrite, MayRead,        \* what the policy allows: pairs of a state and a query
  MaxAccesses               \* bound: memory calls in a behaviour

Tiers == {"short-term", "long-term"}
Stores ==
  {"plain"} \cup UNION {{b.provider : b \in Range(w.bindings)} : w \in Wirings}

\* w.short: how the short-term tier is wired; w.long: is the long-term tier?
ASSUME MemoryAssumption ==
  /\ \A w \in Wirings :
       /\ w.short \subseteq {"plain", "capability"} /\ w.long \in BOOLEAN
       /\ w.bindings \in Seq(Range(w.bindings))
  /\ NoValue \notin Values
  /\ MaxAccesses \in Nat

VARIABLES
  wiring,                   \* the extensions and resolved bindings of this runtime
  stores,                   \* the records of every store, by query
  possible,                 \* what a tier may hold, by tier and query (history)
  answer,                   \* how the last memory call returned
  accesses                  \* memory calls so far

memoryVars == <<wiring, stores, possible, answer, accesses>>

MemoryInit ==
  /\ Init /\ wiring \in Wirings
  /\ stores = [s \in Stores |-> [q \in Queries |-> NoValue]]
  /\ possible = [t \in Tiers |-> [q \in Queries |-> {NoValue}]]
  /\ answer = <<>> /\ accesses = 0

-----------------------------------------------------------------------------
Hits(capability) ==
  {i \in DOMAIN wiring.bindings : wiring.bindings[i].capability = capability}

\* Mutant: the last binding of a capability counts for it.
BindingForCapabilityLast(capability) ==
  {wiring.bindings[i] : i \in {j \in Hits(capability) : \A k \in Hits(capability) : k <= j}}

\* binding_for_capability: the first one.
BindingForCapability(capability) ==
  {wiring.bindings[i] : i \in {j \in Hits(capability) : \A k \in Hits(capability) : j <= k}}

\* Does a tier have an extension at all?
Wired(tier) == IF tier = "short-term" THEN wiring.short # {} ELSE wiring.long

\* The capability's extension goes before the plain one; it knows its store by
\* the binding of its capability, which may be missing.
StoreOf(tier) ==
  IF tier = "long-term" \/ "capability" \in wiring.short
    THEN {b.provider : b \in BindingForCapability(tier)} ELSE {"plain"}

Answer(result, tier, query, value) ==
  /\ answer' = <<[result |-> result, tier |-> tier, query |-> query, value |-> value]>>
  /\ accesses' = accesses + 1
  /\ UNCHANGED <<vars, wiring>>

\* Nothing is asked of a store: the tier is not wired, the policy forbids it
\* or the capability has no binding.
Refused(tier, query, allowed) ==
  /\ \/ ~Wired(tier) /\ Answer("not_configured", tier, query, NoValue)
     \/ Wired(tier) /\ <<env, query>> \notin allowed /\ Answer("denied", tier, query, NoValue)
     \/ /\ Wired(tier) /\ <<env, query>> \in allowed /\ StoreOf(tier) = {}
        /\ Answer("missing_binding", tier, query, NoValue)
  /\ UNCHANGED <<stores, possible>>

Calling == pc = "idle" /\ accesses < MaxAccesses

\* remember and remember_long_term: the store may fail before or after it
\* has written.
Remember(tier, query, value) ==
  /\ Calling
  /\ \/ Refused(tier, query, MayWrite)
     \/ /\ Wired(tier) /\ <<env, query>> \in MayWrite
        /\ \E s \in StoreOf(tier) :
             \/ /\ stores' = [stores EXCEPT ![s][query] = value]
                /\ possible' = [possible EXCEPT ![tier][query] = {value}]
                /\ Answer("ok", tier, query, value)
             \/ /\ stores' \in {stores, [stores EXCEPT ![s][query] = value]}
                /\ possible' = [possible EXCEPT ![tier][query] = @ \cup {value}]
                /\ Answer("backend", tier, query, NoValue)

\* recall and recall_long_term; a capability's reply may not parse.
Recall(tier, query) ==
  /\ Calling
  /\ \/ Refused(tier, query, MayRead)
     \/ /\ Wired(tier) /\ <<env, query>> \in MayRead
        /\ \E s \in StoreOf(tier) :
             \/ Answer("ok", tier, query, stores[s][query])
             \/ Answer("backend", tier, query, NoValue)
             \/ s # "plain" /\ Answer("invalid_payload", tier, query, NoValue)
        /\ UNCHANGED <<stores, possible>>

MemoryNext ==
  \/ Next /\ UNCHANGED memoryVars
  \/ \E tier \in Tiers, query \in Queries :
       \/ Recall(tier, query)
       \/ \E value \in Values : Remember(tier, query, value)

MemorySpec == MemoryInit /\ [][MemoryNext]_<<vars, memoryVars>>

-----------------------------------------------------------------------------
\* A recall that succeeds gives what was last written to that tier under that
\* query, or what a failed write since then may have left; a record of the
\* other tier never shows through, and none is lost in a crash, although both
\* tiers dispatch through one list of bindings (CapabilityMemoryExtension).
TiersAnswerForThemselves ==
  answer # <<>> /\ answer[1].result = "ok" =>
    answer[1].value \in possible[answer[1].tier][answer[1].query]
=============================================================================
