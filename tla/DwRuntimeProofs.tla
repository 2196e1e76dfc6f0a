-------------------------- MODULE DwRuntimeProofs --------------------------
(***************************************************************************)
(* Proofs about the runtime kernel for every chain of hooks, every set of  *)
(* engine decisions and every bound.                                       *)
(***************************************************************************)
EXTENDS RuntimeMemory, Integers, SequenceTheorems, TLAPS

\* An operation that applies leads to a lifecycle state, and out of a
\* terminal state it leads nowhere (core apply_operation).
LEMMA OperationTargets ==
  ASSUME NEW op \in Operations, NEW s \in States
  PROVE  /\ TargetState(op, s) \in States
         /\ Applies(op, s) /\ s \in Terminal => TargetState(op, s) = s
         /\ Applies(op, s) /\ TargetState(op, s) # s
              => CanTransition(s, TargetState(op, s))
BY DEF TargetState, Applies, CanTransition, LegalTransitions, States, Terminal, Operations

\* Dropping the head of a sequence of several elements leaves some.
LEMMA LongTail ==
  ASSUME NEW S, NEW s \in Seq(S), Len(s) > 1
  PROVE  Tail(s) \in Seq(S) /\ Tail(s) # <<>>
<1>1. s # <<>>
  BY Len(<<>>) = 0
<1> DEFINE n == Len(s)
           m == Len(Tail(s))
<1>2. Tail(s) \in Seq(S) /\ m = n - 1 /\ n \in Nat /\ n > 1
  BY <1>1, HeadTailProperties, LenProperties
<1> HIDE DEF n
<1>3. m # 0
  <2> HIDE DEF m
  <2>1. QED
    BY <1>2
<1>4. QED
  BY <1>2, <1>3, EmptySeq

\* Every variable keeps its type (TypeOK of DwRuntime).
THEOREM TypeCorrect == Spec => []TypeOK
<1>1. Init => TypeOK
  BY RuntimeAssumption DEF Init, TypeOK, States, Outcomes, Events
<1>2. TypeOK /\ [Next]_vars => TypeOK'
  <2> SUFFICES ASSUME TypeOK, [Next]_vars PROVE TypeOK'
    OBVIOUS
  <2> USE DEF TypeOK, Outcomes
  <2>1. CASE Call
    BY <2>1 DEF Call, Begin, DirectOperations, Operations
  <2>2. CASE Tick
    BY <2>2, RuntimeAssumption DEF Tick, Begin
  <2>3. CASE TickNoop
    BY <2>3 DEF TickNoop, Return
  <2>4. CASE TickRefused
    BY <2>4 DEF TickRefused, Return
  <2>5. CASE HookBlocks
    BY <2>5 DEF HookBlocks, Return
  <2>6. CASE RejectOperation
    BY <2>6 DEF RejectOperation, Return
  <2>7. CASE ApplyOperation
    <3> DEFINE op == Head(queue)
    <3>1. op \in Operations
      BY <2>7 DEF ApplyOperation
    <3>2. TargetState(op, env) \in States
      BY <3>1, OperationTargets
    <3>3. RuntimeEvent(op) \in Events
      BY <3>1, <3>2 DEF RuntimeEvent, Events
    <3>4. QED
      BY <2>7, <3>2, <3>3 DEF ApplyOperation, Notify
  <2>8. CASE SaveState
    <3>1. CASE MoreOperations
      <4>1. Tail(queue) \in Seq(Operations) /\ Tail(queue) # <<>>
        BY <3>1, LongTail DEF MoreOperations
      <4>2. QED
        BY <2>8, <3>1, <4>1 DEF SaveState
    <3>2. CASE ~MoreOperations
      BY <2>8, <3>2 DEF SaveState, Return
    <3>3. QED
      BY <3>1, <3>2
  <2>9. CASE SaveFails
    BY <2>9 DEF SaveFails, AfterFailedSave, SaveError, Return
  <2>10. CASE CrashAndResume
    BY <2>10 DEF CrashAndResume, LoadedState, Return, States
  <2>11. CASE UNCHANGED vars
    BY <2>11 DEF vars
  <2>12. QED
    BY <2>1, <2>2, <2>3, <2>4, <2>5, <2>6, <2>7, <2>8, <2>9, <2>10, <2>11 DEF Next
<1>3. QED
  BY <1>1, <1>2, PTL DEF Spec

-----------------------------------------------------------------------------
\* The strengthening under which the properties are inductive.
\* Between notification and save the last event is the one being saved.
SavingWhatWasAnnounced ==
  pc = "save" => log # <<>> /\ log[Len(log)].to = env

\* No event carries an epoch that has not begun.
EpochsBegun == \A i \in 1..Len(log) : log[i].epoch <= epoch

\* A finished task in the store is the one the caller holds.
DurableTerminal == stored \in Terminal => env = stored

KernelInv ==
  /\ TypeOK
  /\ SavingWhatWasAnnounced
  /\ EpochsBegun
  /\ ObserversTrackTask
  /\ StoreBehindObservers
  /\ AckedIsDurable
  /\ (outcome = "acked" => pc = "idle")
  /\ HookAuthority
  /\ DurableTerminal

\* KernelInv holds initially.
LEMMA KernelInvInit == Init => KernelInv
BY RuntimeAssumption
   DEF Init, KernelInv, TypeOK, SavingWhatWasAnnounced, EpochsBegun, ObserversTrackTask,
       ObservedState, StoreBehindObservers, AckedIsDurable, HookAuthority,
       DurableTerminal, States, Terminal, Outcomes

\* What appending one event does to the log of observed events.
LEMMA AppendedLog ==
  ASSUME TypeOK, NEW e \in Events
  PROVE  /\ Append(log, e) \in Seq(Events)
         /\ Append(log, e) # <<>>
         /\ Len(log) \in Nat
         /\ Len(Append(log, e)) = Len(log) + 1
         /\ Append(log, e)[Len(log) + 1] = e
         /\ \A i \in 1..Len(log) : Append(log, e)[i] = log[i]
BY AppendProperties, EmptySeq DEF TypeOK

\* Applying one operation of a call keeps the invariant.
LEMMA ApplyKeepsInv == KernelInv /\ TypeOK' /\ ApplyOperation => KernelInv'
<1> SUFFICES ASSUME KernelInv, TypeOK', ApplyOperation PROVE KernelInv'
  OBVIOUS
<1> DEFINE op == Head(queue)
           e  == RuntimeEvent(op)
<1>1. op \in Operations /\ queue # <<>>
  BY DEF KernelInv, TypeOK, ApplyOperation
<1>2. TargetState(op, env) \in States
  BY <1>1, OperationTargets DEF KernelInv, TypeOK
<1>3. e \in Events
  BY <1>1, <1>2 DEF RuntimeEvent, Events, KernelInv, TypeOK
<1>4. /\ log' = Append(log, e) /\ Len(log) \in Nat /\ Len(log') = Len(log) + 1
      /\ log'[Len(log')] = e /\ log' # <<>>
      /\ \A i \in 1..Len(log) : log'[i] = log[i]
  BY <1>3, AppendedLog DEF ApplyOperation, Notify, KernelInv
<1>5. e.to = env' /\ e.from = env /\ e.epoch = epoch /\ e.op = op
  BY DEF RuntimeEvent, ApplyOperation
<1>6. UNCHANGED <<stored, epoch, resumedAt, outcome>> /\ pc' = "save" /\ pc = "apply"
  BY DEF ApplyOperation
<1>7. SavingWhatWasAnnounced'
  BY <1>4, <1>5 DEF SavingWhatWasAnnounced
<1>8. EpochsBegun'
  BY <1>4, <1>5, <1>6 DEF EpochsBegun, KernelInv, TypeOK
<1>9. ObserversTrackTask'
  <2>1. env' = ObservedState'
    BY <1>4, <1>5, <1>6 DEF ObservedState
  <2>2. ASSUME NEW i \in 1..Len(log') - 1, log'[i].epoch = log'[i + 1].epoch
        PROVE  log'[i].to = log'[i + 1].from
    <3>1. CASE i < Len(log)
      BY <1>4, <2>2, <3>1 DEF KernelInv, ObserversTrackTask
    <3>2. CASE i = Len(log)
      <4>1. log'[i] = log[Len(log)] /\ log'[i + 1] = e /\ log # <<>>
        BY <1>4, <3>2, <2>2
      <4>2. log[Len(log)].epoch = epoch
        BY <4>1, <2>2, <1>5
      <4>3. log[Len(log)].to = env
        BY <4>1, <4>2 DEF KernelInv, ObserversTrackTask, ObservedState
      <4>4. QED
        BY <4>1, <4>3, <1>5
    <3>3. QED
      BY <3>1, <3>2, <1>4
  <2>3. QED
    BY <2>1, <2>2 DEF ObserversTrackTask
<1>10. StoreBehindObservers'
  BY <1>4, <1>6 DEF StoreBehindObservers, KernelInv
<1>11. AckedIsDurable' /\ (outcome' = "acked" => pc' = "idle")
  BY <1>6 DEF AckedIsDurable, KernelInv
<1>12. HookAuthority'
  <2>1. ASSUME NEW i \in 1..Len(log'), NEW h \in DOMAIN HookChain
        PROVE  <<log'[i].op, log'[i].from>> \notin HookChain[h]
    <3>1. CASE i = Len(log) + 1
      BY <1>4, <1>5, <3>1 DEF ApplyOperation, PreHooksPass
    <3>2. CASE i \in 1..Len(log)
      BY <1>4, <3>2 DEF HookAuthority, KernelInv
    <3>3. QED
      BY <3>1, <3>2, <1>4, SMTT(30)
  <2>2. QED
    BY <2>1, <1>6 DEF HookAuthority
<1>13. DurableTerminal'
  BY <1>1, <1>6, OperationTargets
     DEF DurableTerminal, KernelInv, TypeOK, ApplyOperation, Terminal, States
<1>14. QED
  BY <1>7, <1>8, <1>9, <1>10, <1>11, <1>12, <1>13 DEF KernelInv

\* A save, successful or not, keeps the invariant.
LEMMA SaveKeepsInv == KernelInv /\ TypeOK' /\ (SaveState \/ SaveFails) => KernelInv'
<1> SUFFICES ASSUME KernelInv, TypeOK', SaveState \/ SaveFails PROVE KernelInv'
  OBVIOUS
<1>1. /\ UNCHANGED <<env, log, epoch, resumedAt>>
      /\ pc = "save" /\ pc' # "save"
      /\ stored' \in {stored, env}
  BY DEF SaveState, SaveFails, AfterFailedSave, Return
<1>2. log # <<>> /\ log[Len(log)].to = env /\ Len(log) \in 1..Len(log)
  BY <1>1, EmptySeq DEF KernelInv, SavingWhatWasAnnounced, TypeOK
<1>3. SavingWhatWasAnnounced' /\ EpochsBegun' /\ ObserversTrackTask' /\ HookAuthority'
  BY <1>1 DEF KernelInv, SavingWhatWasAnnounced, EpochsBegun, ObserversTrackTask,
              ObservedState, HookAuthority
<1>4. StoreBehindObservers'
  BY <1>1, <1>2 DEF KernelInv, StoreBehindObservers
<1>5. AckedIsDurable' /\ (outcome' = "acked" => pc' = "idle")
  BY <1>1 DEF KernelInv, AckedIsDurable, SaveState, SaveFails, SaveError, Return
<1>6. DurableTerminal'
  BY <1>1 DEF KernelInv, DurableTerminal
<1>7. QED
  BY <1>3, <1>4, <1>5, <1>6 DEF KernelInv

\* A crash and resume keeps the invariant.
LEMMA ResumeKeepsInv == KernelInv /\ TypeOK' /\ CrashAndResume => KernelInv'
<1> SUFFICES ASSUME KernelInv, TypeOK', CrashAndResume PROVE KernelInv'
  OBVIOUS
<1>1. /\ UNCHANGED <<stored, log>> /\ epoch' = epoch + 1 /\ epoch \in Nat
      /\ env' = LoadedState /\ resumedAt' = env' /\ pc' = "idle" /\ outcome' = "none"
  BY DEF CrashAndResume, Return, KernelInv, TypeOK
<1>2. \A i \in 1..Len(log) : log[i].epoch \in Nat /\ log[i].epoch < epoch'
  <2>1. ASSUME NEW i \in 1..Len(log) PROVE log[i] \in Events
    BY <2>1, ElementOfSeq DEF KernelInv, TypeOK
  <2>2. QED
    BY <1>1, <2>1 DEF KernelInv, EpochsBegun, Events
<1>3. EpochsBegun'
  BY <1>1, <1>2 DEF EpochsBegun
<1>4. ObserversTrackTask'
  <2>1. log # <<>> => Len(log) \in 1..Len(log)
    BY EmptySeq DEF KernelInv, TypeOK
  <2>2. env' = ObservedState'
    BY <1>1, <1>2, <2>1 DEF ObservedState
  <2>3. QED
    BY <1>1, <2>2 DEF ObserversTrackTask, KernelInv
<1>5. DurableTerminal'
  BY <1>1, RuntimeAssumption DEF DurableTerminal, LoadedState, Terminal, States
<1>6. QED
  BY <1>1, <1>3, <1>4, <1>5
     DEF KernelInv, SavingWhatWasAnnounced, StoreBehindObservers, AckedIsDurable, HookAuthority

\* Every step keeps the invariant.
LEMMA KernelInvStep == KernelInv /\ TypeOK' /\ [Next]_vars => KernelInv'
<1> SUFFICES ASSUME KernelInv, TypeOK', [Next]_vars PROVE KernelInv'
  OBVIOUS
<1> DEFINE Quiet == /\ UNCHANGED <<env, stored, log, epoch, resumedAt>>
                    /\ pc' # "save" /\ outcome' # "acked"
<1>1. ASSUME Quiet PROVE KernelInv'
  BY <1>1 DEF KernelInv, SavingWhatWasAnnounced, EpochsBegun, ObserversTrackTask, ObservedState,
              StoreBehindObservers, AckedIsDurable, HookAuthority, DurableTerminal
<1>2. CASE Call \/ Tick
  BY <1>1, <1>2 DEF Call, Tick, Begin
<1>3. CASE TickNoop \/ TickRefused \/ HookBlocks \/ RejectOperation
  BY <1>1, <1>3 DEF TickNoop, TickRefused, HookBlocks, RejectOperation, Return
<1>4. CASE ApplyOperation
  BY <1>4, ApplyKeepsInv
<1>5. CASE SaveState \/ SaveFails
  BY <1>5, SaveKeepsInv
<1>6. CASE CrashAndResume
  BY <1>6, ResumeKeepsInv
<1>7. CASE UNCHANGED vars
  BY <1>7 DEF vars, KernelInv, TypeOK, SavingWhatWasAnnounced, EpochsBegun, ObserversTrackTask,
              ObservedState, StoreBehindObservers, AckedIsDurable, HookAuthority, DurableTerminal
<1>8. QED
  BY <1>2, <1>3, <1>4, <1>5, <1>6, <1>7 DEF Next

\* Hence the inductive invariant holds in every state.
LEMMA KernelInvariant == Spec => []KernelInv
<1>1. KernelInv /\ TypeOK' /\ [Next]_vars => KernelInv'
  BY KernelInvStep
<1>2. QED
  BY KernelInvInit, TypeCorrect, <1>1, PTL DEF Spec

-----------------------------------------------------------------------------
\* Observers and the store agree about the task: observers replay to the
\* envelope, the store is behind them and an acknowledged call is durable.
THEOREM ObserversAndStore ==
  Spec => [](ObserversTrackTask /\ StoreBehindObservers /\ AckedIsDurable)
<1>1. KernelInv => ObserversTrackTask /\ StoreBehindObservers /\ AckedIsDurable
  BY DEF KernelInv
<1>2. QED
  BY <1>1, KernelInvariant, PTL

\* No operation a hook vetoes ever happens, in a batch or after a resume,
\* whatever the chain of hooks (run_pre_hooks).
THEOREM VetoesHold == Spec => []HookAuthority
<1>1. KernelInv => HookAuthority
  BY DEF KernelInv
<1>2. QED
  BY <1>1, KernelInvariant, PTL

\* A durably finished task never changes again (apply_operation,
\* save_state and load_state together).
THEOREM Finished == Spec => FinishedStaysFinished
<1> DEFINE Frozen == stored \in Terminal => env' = stored /\ stored' = stored
<1>1. KernelInv /\ KernelInv' /\ [Next]_vars => [Frozen]_vars
  <2> SUFFICES ASSUME KernelInv, KernelInv', [Next]_vars, stored \in Terminal
               PROVE  env' = stored /\ stored' = stored
    OBVIOUS
  <2>1. env = stored
    BY DEF KernelInv, DurableTerminal
  <2>2. stored' = stored
    BY <2>1 DEF Next, vars, Call, Tick, TickNoop, TickRefused, HookBlocks, RejectOperation,
                ApplyOperation, SaveState, SaveFails, CrashAndResume, Begin, Return
  <2>3. env' = stored'
    BY <2>2 DEF KernelInv, DurableTerminal
  <2>4. QED
    BY <2>2, <2>3
<1>2. QED
  BY <1>1, KernelInvariant, PTL DEF Spec, FinishedStaysFinished

\* The kernel implements TaskRecord: every step of apply_operation, of a
\* failed save and of a resume is a step of the record or a stutter.
THEOREM RecordRefinement == Spec => ImplementsTaskRecord
<1>1. Init => Record!Init
  BY DEF Init, Record!Init
<1>2. TypeOK /\ [Next]_vars => [Record!Next]_(Record!recordVars)
  <2> SUFFICES ASSUME TypeOK, [Next]_vars, ~UNCHANGED <<env, stored>>
               PROVE  Record!Next
    BY DEF Record!recordVars
  <2> USE DEF Record!Next, Record!Advance, Record!Persist, Record!Recover
  <2>1. CASE ApplyOperation
    <3>1. Head(queue) \in Operations
      BY <2>1 DEF ApplyOperation, TypeOK
    <3>2. CanTransition(env, env') /\ env' \in States /\ stored' = stored
      BY <2>1, <3>1, OperationTargets DEF ApplyOperation, TypeOK
    <3>3. QED
      BY <3>2 DEF Record!CanTransition, Record!LegalTransitions, Record!States,
                  CanTransition, LegalTransitions, States
  <2>2. CASE SaveState \/ SaveFails
    BY <2>2 DEF SaveState, SaveFails, AfterFailedSave
  <2>3. CASE CrashAndResume
    BY <2>3 DEF CrashAndResume, LoadedState
  <2>4. QED
    BY <2>1, <2>2, <2>3 DEF Next, vars, Call, Tick, TickNoop, TickRefused, HookBlocks,
                            RejectOperation, Begin, Return
<1>3. QED
  BY <1>1, <1>2, TypeCorrect, PTL DEF Spec, ImplementsTaskRecord, Record!Spec
-----------------------------------------------------------------------------
(* The memory tiers.                                                       *)

\* The wiring leads the two tiers to different stores.
Separate == StoreOf("short-term") \cap StoreOf("long-term") = {}

\* What a tier's store holds is what the tier may hold, and so was what the
\* last call that succeeded gave.
StoresAnswer ==
  /\ DOMAIN stores = Stores
  /\ \A s \in Stores : DOMAIN stores[s] = Queries
  /\ DOMAIN possible = Tiers
  /\ \A t \in Tiers : DOMAIN possible[t] = Queries
  /\ \A t \in Tiers : \A s \in StoreOf(t) \cap Stores, q \in Queries : stores[s][q] \in possible[t][q]

MemoryInv ==
  /\ wiring \in Wirings /\ Separate /\ StoresAnswer /\ TiersAnswerForThemselves

\* A tier's store is one of the stores there are.
LEMMA StoresAreKnown ==
  ASSUME wiring \in Wirings, NEW tier \in Tiers PROVE StoreOf(tier) \subseteq Stores
<1>1. \A cap : BindingForCapability(cap) \subseteq Range(wiring.bindings)
  BY DEF BindingForCapability, Hits, Range
<1>2. {b.provider : b \in BindingForCapability(tier)} \subseteq Stores
  BY <1>1 DEF Stores
<1>3. QED
  BY <1>2 DEF StoreOf, Stores

\* A tier has one store at most: of the bindings of a capability the first one
\* counts (binding_for_capability).
LEMMA OneStoreForATier ==
  ASSUME wiring \in Wirings, NEW tier \in Tiers, NEW r \in StoreOf(tier), NEW s \in StoreOf(tier)
  PROVE  r = s
<1>1. PICK n \in Nat : DOMAIN wiring.bindings = 1 .. n
  <2>1. wiring.bindings \in Seq(Range(wiring.bindings))
    BY MemoryAssumption
  <2>2. PICK bindings : bindings = wiring.bindings /\ bindings \in Seq(Range(wiring.bindings))
    BY <2>1
  <2>3. Len(bindings) \in Nat /\ DOMAIN bindings = 1 .. Len(bindings)
    BY <2>2, LenProperties
  <2>4. QED
    BY <2>2, <2>3
<1>2. \A i, j \in Hits(tier) : i \in Int /\ j \in Int
  BY <1>1 DEF Hits
<1>3. \A a, b \in BindingForCapability(tier) : a = b
  <2> SUFFICES ASSUME NEW i \in Hits(tier), NEW j \in Hits(tier),
                      \A k \in Hits(tier) : i <= k, \A k \in Hits(tier) : j <= k
               PROVE  i = j
    BY DEF BindingForCapability
  <2>1. QED
    BY <1>2
<1>4. QED
  BY <1>3 DEF StoreOf

\* The wiring of a runtime does not change, so neither do its stores.
LEMMA WiringStays ==
  ASSUME wiring' = wiring
  PROVE  \A tier : StoreOf(tier)' = StoreOf(tier)
BY DEF StoreOf, BindingForCapability, Hits

\* A call that asks no store leaves what it finds.
LEMMA AnswerKeepsMemoryInv ==
  ASSUME MemoryInv, NEW tier, NEW query, NEW result, NEW value,
         Answer(result, tier, query, value), UNCHANGED <<stores, possible>>,
         result = "ok" => value \in possible[tier][query]
  PROVE  MemoryInv'
<1>1. /\ wiring' = wiring /\ UNCHANGED <<stores, possible>>
      /\ answer' = <<[result |-> result, tier |-> tier, query |-> query, value |-> value]>>
  BY DEF Answer
<1>2. Separate' /\ StoresAnswer'
  BY <1>1, WiringStays DEF MemoryInv, Separate, StoresAnswer
<1>3. TiersAnswerForThemselves'
  BY <1>1 DEF TiersAnswerForThemselves
<1>4. QED
  BY <1>1, <1>2, <1>3 DEF MemoryInv

\* What is written to a tier shows in no other tier.
LEMMA WritingKeepsMemoryInv ==
  ASSUME MemoryInv, NEW tier \in Tiers, NEW query \in Queries, NEW value, NEW result, NEW given,
         NEW s \in StoreOf(tier), Answer(result, tier, query, given),
         stores' \in {stores, [stores EXCEPT ![s][query] = value]},
         NEW kept, possible' = [possible EXCEPT ![tier][query] = kept],
         stores'[s][query] \in kept,
         result = "ok" => given \in kept
  PROVE  MemoryInv'
<1>1. /\ wiring' = wiring
      /\ answer' = <<[result |-> result, tier |-> tier, query |-> query, value |-> given]>>
  BY DEF Answer
<1>2. s \in Stores /\ StoresAnswer
  BY StoresAreKnown DEF MemoryInv
<1>3. /\ DOMAIN stores' = Stores /\ DOMAIN possible' = Tiers
      /\ \A r \in Stores : DOMAIN stores'[r] = Queries
      /\ \A t \in Tiers : DOMAIN possible'[t] = Queries
      /\ possible'[tier][query] = kept
  BY <1>2 DEF StoresAnswer
<1>4. ASSUME NEW t \in Tiers, NEW r \in StoreOf(t) \cap Stores, NEW q \in Queries
      PROVE  stores'[r][q] \in possible'[t][q]
  <2>1. stores[r][q] \in possible[t][q]
    BY <1>2 DEF StoresAnswer
  <2>2. CASE t = tier /\ q = query
    <3>1. possible'[t][q] = kept
      BY <1>3, <2>2
    <3>2. r = s
      BY <2>2, OneStoreForATier DEF MemoryInv
    <3>3. QED
      BY <2>2, <3>1, <3>2
  <2>3. CASE t # tier \/ q # query
    <3>1. possible'[t][q] = possible[t][q]
      BY <1>2, <2>3 DEF StoresAnswer
    <3>2. t # tier => r # s
      BY DEF MemoryInv, Separate, Tiers
    <3>3. stores'[r][q] = stores[r][q]
      BY <1>2, <2>3, <3>2 DEF StoresAnswer
    <3>4. QED
      BY <2>1, <3>1, <3>3
  <2>4. QED
    BY <2>2, <2>3
<1>5. StoresAnswer' /\ Separate'
  BY <1>1, <1>3, <1>4, WiringStays DEF StoresAnswer, MemoryInv, Separate
<1>6. TiersAnswerForThemselves'
  BY <1>1, <1>3 DEF TiersAnswerForThemselves
<1>7. QED
  BY <1>1, <1>5, <1>6 DEF MemoryInv
\* Every call and every step of the kernel keeps the tiers apart.
LEMMA MemoryInvStep == MemoryInv /\ [MemoryNext]_<<vars, memoryVars>> => MemoryInv'
<1> SUFFICES ASSUME MemoryInv, [MemoryNext]_<<vars, memoryVars>> PROVE MemoryInv'
  OBVIOUS
<1>1. CASE UNCHANGED memoryVars
  <2>1. UNCHANGED <<wiring, stores, possible, answer>>
    BY <1>1 DEF memoryVars
  <2>2. QED
    BY <2>1, WiringStays DEF MemoryInv, Separate, StoresAnswer, TiersAnswerForThemselves
<1>2. ASSUME NEW tier \in Tiers, NEW query \in Queries, Recall(tier, query) PROVE MemoryInv'
  <2>1. CASE Refused(tier, query, MayRead)
    BY <2>1, AnswerKeepsMemoryInv DEF Refused
  <2>2. ASSUME NEW s \in StoreOf(tier), Answer("ok", tier, query, stores[s][query]),
               UNCHANGED <<stores, possible>>
        PROVE  MemoryInv'
    <3>1. stores[s][query] \in possible[tier][query]
      BY StoresAreKnown DEF MemoryInv, StoresAnswer
    <3>2. QED
      BY <2>2, <3>1, AnswerKeepsMemoryInv
  <2>3. CASE /\ UNCHANGED <<stores, possible>>
             /\ \/ Answer("backend", tier, query, NoValue)
                \/ Answer("invalid_payload", tier, query, NoValue)
    BY <2>3, AnswerKeepsMemoryInv
  <2>4. QED
    BY <1>2, <2>1, <2>2, <2>3 DEF Recall
<1>3. ASSUME NEW tier \in Tiers, NEW query \in Queries, NEW value \in Values,
             Remember(tier, query, value)
      PROVE  MemoryInv'
  <2>1. CASE Refused(tier, query, MayWrite)
    BY <2>1, AnswerKeepsMemoryInv DEF Refused
  <2>2. ASSUME NEW s \in StoreOf(tier), Answer("ok", tier, query, value),
               stores' = [stores EXCEPT ![s][query] = value],
               possible' = [possible EXCEPT ![tier][query] = {value}]
        PROVE  MemoryInv'
    <3>1. stores'[s][query] = value
      BY <2>2, StoresAreKnown DEF MemoryInv, StoresAnswer
    <3>2. QED
      BY <2>2, <3>1, WritingKeepsMemoryInv
  <2>3. ASSUME NEW s \in StoreOf(tier), Answer("backend", tier, query, NoValue),
               stores' \in {stores, [stores EXCEPT ![s][query] = value]},
               possible' = [possible EXCEPT ![tier][query] = @ \cup {value}]
        PROVE  MemoryInv'
    <3>1. PICK kept : kept = possible[tier][query] \cup {value}
      OBVIOUS
    <3>2. possible' = [possible EXCEPT ![tier][query] = kept]
      BY <2>3, <3>1 DEF MemoryInv, StoresAnswer
    <3>3. s \in Stores /\ stores[s][query] \in kept
      BY <3>1, StoresAreKnown DEF MemoryInv, StoresAnswer
    <3>4. stores'[s][query] \in kept
      BY <2>3, <3>1, <3>3 DEF MemoryInv, StoresAnswer
    <3>5. PICK result : result = "backend"
      OBVIOUS
    <3>6. Answer(result, tier, query, NoValue) /\ (result = "ok" => NoValue \in kept)
      BY <2>3, <3>5
    <3>7. stores' \in {stores, [stores EXCEPT ![s][query] = value]}
      BY <2>3
    <3>8. QED
      BY ONLY MemoryInv, tier \in Tiers, query \in Queries, s \in StoreOf(tier), <3>2, <3>4, <3>6, <3>7,
         WritingKeepsMemoryInv
  <2>4. QED
    BY <1>3, <2>1, <2>2, <2>3 DEF Remember
<1>4. QED
  BY <1>1, <1>2, <1>3 DEF MemoryNext, memoryVars

\* Memory calls are apart from the kernel's: whatever holds of the kernel holds
\* while its caller writes and reads records (remember, recall).
THEOREM MemoryLeavesTheKernelAlone == MemorySpec => Spec
<1>1. MemoryInit => Init
  BY DEF MemoryInit
<1>2. ASSUME NEW tier, NEW query, Recall(tier, query) PROVE UNCHANGED vars
  BY <1>2 DEF Recall, Refused, Answer
<1>3. ASSUME NEW tier, NEW query, NEW value, Remember(tier, query, value) PROVE UNCHANGED vars
  BY <1>3 DEF Remember, Refused, Answer
<1>4. [MemoryNext]_<<vars, memoryVars>> => [Next]_vars
  BY <1>2, <1>3 DEF MemoryNext
<1>5. QED
  BY <1>1, <1>4, PTL DEF MemorySpec, Spec

\* A runtime whose wiring gives the two tiers different stores never answers
\* from one tier with a record of the other, nor with anything that was not
\* written (StoreOf: the first binding of a capability).
THEOREM TiersKeepApart == MemorySpec /\ Separate => []TiersAnswerForThemselves
<1>1. MemoryInit /\ Separate => MemoryInv
  <2> SUFFICES ASSUME MemoryInit, Separate PROVE MemoryInv
    OBVIOUS
  <2>1. answer = <<>> /\ wiring \in Wirings
    BY DEF MemoryInit
  <2>2. StoresAnswer
    BY DEF MemoryInit, StoresAnswer
  <2>3. QED
    BY <2>1, <2>2 DEF MemoryInv, TiersAnswerForThemselves
<1>2. MemoryInv => TiersAnswerForThemselves
  BY DEF MemoryInv
<1>3. QED
  BY <1>1, <1>2, MemoryInvStep, PTL DEF MemorySpec
=============================================================================
