--------------------------- MODULE DispatchProofs ---------------------------
(***************************************************************************)
(* Proofs about the two components a dispatch gives its loop beside the    *)
(* kernel, each under its own specification: the tool executor, for any    *)
(* set of calls and any budget, and the artifact store with the context    *)
(* providers on it, for any number of providers, threads, ids and calls.   *)
(***************************************************************************)
EXTENDS ToolExecutor, Workspace, SequenceTheorems, TLAPS

-----------------------------------------------------------------------------
(* The tool executor.                                                      *)

\* What a step under way may still use is left in the budget of the run.
GrantFits == phase \in {"chat", "resolve"} => charged + granted <= Total

\* A call not in the cache has not reached its tool.
CacheRemembers ==
  \A call \in Calls : effects[call] <= 1 /\ (cache[call] = "none" => effects[call] = 0)

\* While a step goes on, its last chat is still ahead.
RoundsLeft ==
  /\ ConversationIsBounded
  /\ phase \in {"chat", "resolve"} => rounds <= RoundLimit

ExecutorInv ==
  TypeOK /\ HostCallsAreCharged /\ GrantFits /\ CacheRemembers /\ RoundsLeft

\* The calls of all steps are a number.
LEMMA TotalType == Total \in Nat
BY ToolExecutorAssumption DEF Total, TOOL_CALLS_PER_ITERATION

\* The grant is within the cap and within what the run has left (ToolBudget::grant).
LEMMA GrantBounds ==
  ASSUME charged \in 0 .. Total
  PROVE  Grant \in 0 .. PER_STEP_TOOL_CAP /\ charged + Grant <= Total
<1>1. Remaining \in Nat /\ charged + Remaining <= Total
  BY TotalType DEF Remaining
<1>2. QED
  BY <1>1, TotalType DEF Grant, Smaller, PER_STEP_TOOL_CAP

\* The invariant holds before the first step.
LEMMA ExecutorInvInit == Init => ExecutorInv
<1> SUFFICES ASSUME Init PROVE ExecutorInv
  OBVIOUS
<1>1. cache \in [Calls -> HostAnswers \cup {"none"}] /\ effects \in [Calls -> Nat]
  BY DEF Init
<1>2. TypeOK
  BY <1>1, TotalType, ToolExecutorAssumption DEF Init, TypeOK, PER_STEP_TOOL_CAP
<1>3. HostCallsAreCharged /\ GrantFits /\ CacheRemembers /\ RoundsLeft
  BY DEF Init, HostCallsAreCharged, GrantFits, CacheRemembers, RoundsLeft,
     ConversationIsBounded, RoundLimit, CACHED_ROUND_ALLOWANCE
<1>4. QED
  BY <1>2, <1>3 DEF ExecutorInv

\* Going on to the next call leaves a sequence of calls, empty only for a chat.
LEMMA NextCallType ==
  ASSUME ExecutorInv, phase = "resolve", NextCall
  PROVE  /\ Current \in Calls
         /\ asked' \in Seq(Calls)
         /\ phase' \in {"chat", "resolve"}
         /\ phase' = "resolve" => asked' # <<>>
<1>1. asked \in Seq(Calls) /\ asked # <<>>
  BY DEF ExecutorInv, TypeOK
<1>2. Len(asked) \in Nat \ {0} /\ Current \in Calls
  BY <1>1 DEF Current
<1>3. Tail(asked) \in Seq(Calls) /\ Len(Tail(asked)) = Len(asked) - 1
  BY <1>1
<1>4. Tail(asked) = <<>> => Len(asked) = 1
  <2>1. Tail(asked) = <<>> => Len(Tail(asked)) = 0
    BY <1>3, EmptySeq
  <2>2. QED
    BY <1>2, <1>3, <2>1
<1>5. QED
  BY <1>2, <1>3, <1>4 DEF NextCall

\* Every step of the conversation keeps the invariant.
LEMMA ExecutorInvStep == ExecutorInv /\ [Next]_vars => ExecutorInv'
<1> SUFFICES ASSUME ExecutorInv, [Next]_vars PROVE ExecutorInv'
  OBVIOUS
<1> USE DEF ExecutorInv
<1>1. CASE BeginStep
  <2>1. Grant \in 0 .. PER_STEP_TOOL_CAP /\ charged + Grant <= Total
    BY GrantBounds DEF TypeOK
  <2> HIDE DEF Grant
  <2>2. TypeOK'
    BY <1>1, <2>1, ToolExecutorAssumption DEF BeginStep, TypeOK
  <2>3. HostCallsAreCharged' /\ GrantFits' /\ CacheRemembers'
    BY <1>1, <2>1, TotalType
       DEF BeginStep, TypeOK, HostCallsAreCharged, GrantFits, CacheRemembers, Total
  <2>4. RoundsLeft'
    BY <1>1, <2>1 DEF BeginStep, RoundsLeft, ConversationIsBounded, RoundLimit,
       CACHED_ROUND_ALLOWANCE
  <2>5. QED
    BY <2>2, <2>3, <2>4
<1>2. CASE AskForTools
  <2>1. rounds \in Nat /\ granted \in Nat /\ rounds < RoundLimit
    BY <1>2 DEF AskForTools, OfferTools, TypeOK
  <2>2. rounds' \in Nat /\ rounds' <= RoundLimit /\ RoundLimit' = RoundLimit
    BY <1>2, <2>1 DEF AskForTools, Counted, Smaller, RoundLimit, CACHED_ROUND_ALLOWANCE, stepVars
  <2>3. asked' \in Seq(Calls) /\ asked' # <<>>
    <3>1. PICK n \in 1 .. MaxAsked : asked' \in [1 .. n -> Calls]
      BY <1>2 DEF AskForTools
    <3>2. QED
      BY <3>1, ToolExecutorAssumption
  <2>4. TypeOK'
    BY <1>2, <2>2, <2>3 DEF AskForTools, TypeOK, stepVars, Total
  <2>5. HostCallsAreCharged' /\ GrantFits' /\ CacheRemembers'
    BY <1>2 DEF AskForTools, HostCallsAreCharged, GrantFits, CacheRemembers, stepVars, Total
  <2>6. RoundsLeft'
    BY <1>2, <2>1, <2>2 DEF AskForTools, RoundsLeft, ConversationIsBounded, RoundLimit,
       CACHED_ROUND_ALLOWANCE, stepVars
  <2>7. QED
    BY <2>4, <2>5, <2>6
<1>3. CASE FinishStep
  <2>1. rounds' \in Nat /\ rounds' <= granted' + CACHED_ROUND_ALLOWANCE + 1
    BY <1>3 DEF FinishStep, Counted, Smaller, RoundsLeft, RoundLimit, CACHED_ROUND_ALLOWANCE,
       TypeOK
  <2>2. charged' = charged + used /\ charged' \in 0 .. Total
    BY <1>3, TotalType DEF FinishStep, Charge, Smaller, TypeOK, GrantFits
  <2>3. TypeOK'
    BY <1>3, <2>1, <2>2 DEF FinishStep, TypeOK, Total
  <2>4. HostCallsAreCharged' /\ GrantFits' /\ CacheRemembers'
    BY <1>3, <2>2 DEF FinishStep, HostCallsAreCharged, GrantFits, CacheRemembers
  <2>5. RoundsLeft'
    BY <1>3, <2>1 DEF FinishStep, RoundsLeft, ConversationIsBounded
  <2>6. QED
    BY <2>3, <2>4, <2>5
<1>4. CASE ChatFails
  BY <1>4 DEF ChatFails, TypeOK, HostCallsAreCharged, GrantFits, CacheRemembers, RoundsLeft,
     ConversationIsBounded, stepVars, Total
<1>5. CASE AnswerFromCache \/ RefuseOverBudget
  <2>1. NextCall /\ phase = "resolve" /\ UNCHANGED <<used, cache, hostCalls, effects>>
    BY <1>5 DEF AnswerFromCache, RefuseOverBudget
  <2>2. asked' \in Seq(Calls) /\ phase' \in {"chat", "resolve"}
          /\ (phase' = "resolve" => asked' # <<>>)
    BY <2>1, NextCallType
  <2>3. UNCHANGED <<stepVars, rounds>>
    BY <2>1 DEF NextCall
  <2>4. TypeOK'
    BY <2>1, <2>2, <2>3 DEF TypeOK, stepVars, Total
  <2>5. QED
    BY <2>1, <2>2, <2>3, <2>4
       DEF HostCallsAreCharged, GrantFits, CacheRemembers, RoundsLeft, ConversationIsBounded,
           RoundLimit, stepVars, Total
<1>6. CASE CallHost
  <2>1. NextCall /\ phase = "resolve" /\ cache[Current] = "none" /\ used < granted
    BY <1>6 DEF CallHost, MayCall
  <2>2. /\ Current \in Calls /\ asked' \in Seq(Calls) /\ phase' \in {"chat", "resolve"}
        /\ phase' = "resolve" => asked' # <<>>
    BY <2>1, NextCallType
  <2>3. UNCHANGED <<stepVars, rounds>>
    BY <2>1 DEF NextCall
  <2>4. used' = used + 1 /\ hostCalls' = hostCalls + 1
    BY <1>6 DEF CallHost
  <2>5. used' \in 0 .. granted /\ hostCalls' \in 0 .. Total
    BY <2>1, <2>4, TotalType DEF TypeOK, HostCallsAreCharged, GrantFits
  <2>6. PICK reply \in HostAnswers :
          /\ cache' = [cache EXCEPT ![Current] = Kept(reply)]
          /\ effects' = [effects EXCEPT ![Current] =
                           IF reply = "unreachable" THEN @ ELSE @ + 1]
    BY <1>6 DEF CallHost
  <2>7. TypeOK'
    <3>1. cache' \in [Calls -> HostAnswers \cup {"none"}] /\ effects' \in [Calls -> Nat]
      BY <2>2, <2>6 DEF TypeOK, Kept
    <3>2. QED
      BY <2>2, <2>3, <2>5, <3>1 DEF TypeOK, stepVars, Total
  <2>8. CacheRemembers'
    BY <2>1, <2>2, <2>6 DEF CacheRemembers, TypeOK, Kept, HostAnswers
  <2>9. HostCallsAreCharged' /\ GrantFits' /\ RoundsLeft'
    BY <2>1, <2>2, <2>3, <2>4
       DEF TypeOK, HostCallsAreCharged, GrantFits, RoundsLeft, ConversationIsBounded,
           RoundLimit, stepVars, Total
  <2>10. QED
    BY <2>7, <2>8, <2>9
<1>7. CASE InvokeEnds \/ UNCHANGED vars
  BY <1>7 DEF InvokeEnds, vars, TypeOK, HostCallsAreCharged, GrantFits, CacheRemembers,
     RoundsLeft, ConversationIsBounded, RoundLimit, Total
<1>8. QED
  BY <1>1, <1>2, <1>3, <1>4, <1>5, <1>6, <1>7 DEF Next

\* Hence it holds in every state.
LEMMA ExecutorInvariant == Spec => []ExecutorInv
BY ExecutorInvInit, ExecutorInvStep, PTL DEF Spec

-----------------------------------------------------------------------------
\* Types, and no step uses more calls than it was granted (resolve_call).
THEOREM ExecutorTypeCorrect == Spec => []TypeOK
BY ExecutorInvariant, PTL DEF ExecutorInv

\* Whatever the model asks for and however often steps are revisited, a call
\* reaches its tool at most once in an invoke (LlmToolStepExecutor::cache).
THEOREM SideEffectsAreNotRepeated == Spec => []ToolsAreReachedOnce
<1>1. ExecutorInv => ToolsAreReachedOnce
  BY DEF ExecutorInv, CacheRemembers, ToolsAreReachedOnce
<1>2. QED
  BY <1>1, ExecutorInvariant, PTL

\* The run's budget counts exactly the calls the host has seen
\* (ToolBudget::charge).
THEOREM BudgetTellsTheCalls == Spec => []HostCallsAreCharged
<1>1. ExecutorInv => HostCallsAreCharged
  BY DEF ExecutorInv
<1>2. QED
  BY <1>1, ExecutorInvariant, PTL

\* Every conversation of a step is bounded, whatever the model repeats
\* (round_limit, CACHED_ROUND_ALLOWANCE).
THEOREM ConversationsEnd == Spec => []ConversationIsBounded
<1>1. ExecutorInv => ConversationIsBounded
  BY DEF ExecutorInv, RoundsLeft
<1>2. QED
  BY <1>1, ExecutorInvariant, PTL

-----------------------------------------------------------------------------
(* The artifact store and the context providers.                           *)

\* A thread that holds a number it has drawn for the artifact it will write.
Writing(t) == job[t].stage = "writing"

\* Numbers a provider has drawn lie below its counter; no two threads hold
\* the same one, and no artifact of the provider has one that is still held.
NumbersAreDrawnOnce ==
  /\ DOMAIN author = DOMAIN store
  /\ \A c \in collisions : c.id \in DOMAIN author
  /\ counter \in [Providers -> Nat]
  /\ job = [t \in Threads |-> job[t]]
  /\ \A t \in Threads : job[t].stage # "idle" => job[t].provider \in Providers
  /\ \A t \in Threads : Writing(t) =>
       job[t].id[3] \in Nat /\ job[t].id[3] < counter[job[t].provider]
  /\ \A t, u \in Threads :
       t # u /\ Writing(t) /\ Writing(u) /\ job[t].provider = job[u].provider =>
         job[t].id[3] # job[u].id[3]
  /\ \A id \in DOMAIN author : author[id] \in Providers =>
       /\ id[3] \in Nat /\ id[3] < counter[author[id]]
       /\ \A t \in Threads : Writing(t) /\ job[t].provider = author[id] => job[t].id[3] # id[3]

ProviderInv == NumbersAreDrawnOnce /\ ProvidersDoNotCollideWithThemselves

\* What the calls of the store change that the providers' numbers depend on.
LEMMA StoreCallsKeepNumbers ==
  ASSUME ProviderInv, UNCHANGED <<counter, job, author, collisions>>, DOMAIN store' = DOMAIN store
  PROVE  ProviderInv'
BY DEF ProviderInv, NumbersAreDrawnOnce, ProvidersDoNotCollideWithThemselves, Writing

\* The stage of a thread that one step has moved.
LEMMA JobMoved ==
  ASSUME job = [t \in Threads |-> job[t]], NEW t \in Threads, NEW j,
         job' = [job EXCEPT ![t] = j]
  PROVE  /\ job' = [u \in Threads |-> job'[u]]
         /\ job'[t] = j
         /\ \A u \in Threads : u # t => job'[u] = job[u]
OBVIOUS

\* A thread that becomes idle, or asks its model, holds no number.
LEMMA ThreadWithoutNumber ==
  ASSUME ProviderInv, NEW t \in Threads, NEW j, job' = [job EXCEPT ![t] = j],
         j.stage # "writing", j.stage # "idle" => j.provider \in Providers,
         UNCHANGED <<counter, author, collisions, store>>
  PROVE  ProviderInv'
<1>1. /\ job' = [u \in Threads |-> job'[u]]
      /\ job'[t] = j
      /\ \A u \in Threads : u # t => job'[u] = job[u]
  BY JobMoved DEF ProviderInv, NumbersAreDrawnOnce
<1>2. \A u \in Threads : Writing(u)' => u # t /\ Writing(u) /\ job'[u] = job[u]
  BY <1>1 DEF Writing
<1>3. \A u \in Threads : job'[u].stage # "idle" => job'[u].provider \in Providers
  BY <1>1 DEF ProviderInv, NumbersAreDrawnOnce
<1>4. NumbersAreDrawnOnce'
  BY <1>1, <1>2, <1>3 DEF ProviderInv, NumbersAreDrawnOnce
<1>5. QED
  BY <1>4 DEF ProviderInv, ProvidersDoNotCollideWithThemselves

\* build_context draws a number nobody holds.
LEMMA CounterGrows ==
  ASSUME ProviderInv, NEW p \in Providers, NextId(p),
         UNCHANGED <<job, author, collisions, store>>
  PROVE  ProviderInv'
<1>1. /\ counter' \in [Providers -> Nat]
      /\ \A q \in Providers : counter[q] <= counter'[q]
  BY DEF ProviderInv, NumbersAreDrawnOnce, NextId
<1>2. \A n \in Nat, q \in Providers : n < counter[q] => n < counter'[q]
  BY <1>1 DEF ProviderInv, NumbersAreDrawnOnce
<1>3. NumbersAreDrawnOnce'
  BY <1>1, <1>2 DEF ProviderInv, NumbersAreDrawnOnce, Writing
<1>4. QED
  BY <1>3 DEF ProviderInv, ProvidersDoNotCollideWithThemselves

\* The number a thread draws is the counter's, above every number drawn.
LEMMA DrawnNumberIsNew ==
  ASSUME ProviderInv, NEW t \in Threads, DrawId(t)
  PROVE  ProviderInv'
<1> DEFINE p == job[t].provider
           n == counter[p]
           j == [stage |-> "writing", provider |-> p, id |-> <<job[t].kind, job[t].package.number, n>>]
<1>1. p \in Providers /\ n \in Nat
  BY DEF DrawId, ProviderInv, NumbersAreDrawnOnce
<1>2. job' = [job EXCEPT ![t] = j]
  BY DEF DrawId
<1>3. /\ job' = [u \in Threads |-> job'[u]]
      /\ job'[t] = j
      /\ \A u \in Threads : u # t => job'[u] = job[u]
  BY <1>2, JobMoved DEF ProviderInv, NumbersAreDrawnOnce
<1>4. job'[t].provider = p /\ job'[t].id[3] = n /\ job'[t].stage = "writing"
  BY <1>3
<1>5. /\ counter' \in [Providers -> Nat] /\ counter'[p] = n + 1
      /\ \A m \in Nat, q \in Providers : m < counter[q] => m < counter'[q]
  BY <1>1 DEF DrawId, NextId, ProviderInv, NumbersAreDrawnOnce
<1>6. \A u \in Threads : job'[u].stage # "idle" => job'[u].provider \in Providers
  BY <1>1, <1>3, <1>4 DEF ProviderInv, NumbersAreDrawnOnce
<1>7. \A u \in Threads : Writing(u)' =>
        job'[u].id[3] \in Nat /\ job'[u].id[3] < counter'[job'[u].provider]
  <2> SUFFICES ASSUME NEW u \in Threads, Writing(u)'
               PROVE  job'[u].id[3] \in Nat /\ job'[u].id[3] < counter'[job'[u].provider]
    OBVIOUS
  <2>1. CASE u = t
    BY <2>1, <1>1, <1>4, <1>5
  <2>2. CASE u # t
    <3>1. Writing(u) /\ job'[u] = job[u]
      BY <2>2, <1>3 DEF Writing
    <3>2. job[u].provider \in Providers /\ job[u].id[3] \in Nat /\ job[u].id[3] < counter[job[u].provider]
      BY <3>1 DEF ProviderInv, NumbersAreDrawnOnce, Writing
    <3>3. QED
      BY <3>1, <3>2, <1>5
  <2>3. QED
    BY <2>1, <2>2
<1>8. \A u \in Threads : u # t /\ Writing(u)' /\ job'[u].provider = p => job'[u].id[3] # n
  <2> SUFFICES ASSUME NEW u \in Threads, u # t, Writing(u)', job'[u].provider = p
               PROVE  job'[u].id[3] # n
    OBVIOUS
  <2>1. Writing(u) /\ job'[u] = job[u]
    BY <1>3 DEF Writing
  <2>2. job[u].id[3] \in Nat /\ job[u].id[3] < n
    BY <2>1 DEF ProviderInv, NumbersAreDrawnOnce
  <2>3. QED
    BY <2>1, <2>2, <1>1
<1>9. \A u, v \in Threads :
        u # v /\ Writing(u)' /\ Writing(v)' /\ job'[u].provider = job'[v].provider =>
          job'[u].id[3] # job'[v].id[3]
  BY <1>3, <1>4, <1>8 DEF ProviderInv, NumbersAreDrawnOnce, Writing
<1>10. \A id \in DOMAIN author' : author'[id] \in Providers =>
        /\ id[3] \in Nat /\ id[3] < counter'[author'[id]]
        /\ \A u \in Threads : Writing(u)' /\ job'[u].provider = author'[id] => job'[u].id[3] # id[3]
  <2> SUFFICES ASSUME NEW id \in DOMAIN author, author[id] \in Providers
               PROVE  /\ id[3] \in Nat /\ id[3] < counter'[author[id]]
                      /\ \A u \in Threads : Writing(u)' /\ job'[u].provider = author[id] => job'[u].id[3] # id[3]
    BY DEF DrawId
  <2>1. id[3] \in Nat /\ id[3] < counter[author[id]]
    BY DEF ProviderInv, NumbersAreDrawnOnce
  <2>2. id[3] < counter'[author[id]]
    BY <2>1, <1>5
  <2>3. ASSUME NEW u \in Threads, Writing(u)', job'[u].provider = author[id]
        PROVE  job'[u].id[3] # id[3]
    <3>1. CASE u = t
      BY <3>1, <2>1, <2>3, <1>1, <1>4
    <3>2. CASE u # t
      BY <3>2, <2>3, <1>3 DEF ProviderInv, NumbersAreDrawnOnce, Writing
    <3>3. QED
      BY <3>1, <3>2
  <2>4. QED
    BY <2>1, <2>2, <2>3
<1>11. /\ DOMAIN author' = DOMAIN store'
       /\ \A c \in collisions' : c.id \in DOMAIN author'
  BY DEF DrawId, ProviderInv, NumbersAreDrawnOnce
<1>12. NumbersAreDrawnOnce'
  BY <1>3, <1>5, <1>6, <1>7, <1>9, <1>10, <1>11 DEF NumbersAreDrawnOnce
<1>13. QED
  BY <1>12 DEF DrawId, ProviderInv, ProvidersDoNotCollideWithThemselves

\* An artifact that appears under a number nobody holds, or that is not a
\* provider's, while all the numbers held stay.
LEMMA ArtifactAppears ==
  ASSUME ProviderInv, NEW id, NEW scope, NEW body, NEW by,
         CreateArtifact(id, scope, body, by), ~Known(id),
         UNCHANGED <<counter, collisions>>,
         job' = [u \in Threads |-> job'[u]],
         \A u \in Threads : job'[u] = job[u] \/ job'[u] = Idle,
         by \in Providers =>
           /\ id[3] \in Nat /\ id[3] < counter[by]
           /\ \A u \in Threads : Writing(u)' /\ job'[u].provider = by => job'[u].id[3] # id[3]
  PROVE  ProviderInv'
<1>1. /\ DOMAIN author' = DOMAIN author \cup {id} /\ DOMAIN store' = DOMAIN store \cup {id}
      /\ author'[id] = by /\ \A i \in DOMAIN author : author'[i] = author[i]
  <2>1. id \notin DOMAIN author
    BY DEF Known, ProviderInv, NumbersAreDrawnOnce
  <2>2. author' = [i \in DOMAIN author \cup {id} |-> IF i = id THEN by ELSE author[i]]
    BY DEF CreateArtifact, With
  <2>3. DOMAIN store' = DOMAIN store \cup {id}
    BY DEF CreateArtifact, With
  <2>4. QED
    BY <2>1, <2>2, <2>3
<1>2. \A u \in Threads : job'[u].stage # "idle" => job'[u] = job[u]
  BY DEF Idle
<1>3. \A u \in Threads : Writing(u)' => Writing(u) /\ job'[u] = job[u]
  BY <1>2 DEF Writing
<1>4. \A u \in Threads : job'[u].stage # "idle" => job'[u].provider \in Providers
  BY <1>2 DEF ProviderInv, NumbersAreDrawnOnce
<1>5. \A u \in Threads : Writing(u)' =>
        job'[u].id[3] \in Nat /\ job'[u].id[3] < counter'[job'[u].provider]
  BY <1>3 DEF ProviderInv, NumbersAreDrawnOnce
<1>6. \A u, v \in Threads :
        u # v /\ Writing(u)' /\ Writing(v)' /\ job'[u].provider = job'[v].provider =>
          job'[u].id[3] # job'[v].id[3]
  BY <1>3 DEF ProviderInv, NumbersAreDrawnOnce
<1>7. \A i \in DOMAIN author' : author'[i] \in Providers =>
        /\ i[3] \in Nat /\ i[3] < counter'[author'[i]]
        /\ \A u \in Threads : Writing(u)' /\ job'[u].provider = author'[i] => job'[u].id[3] # i[3]
  <2> SUFFICES ASSUME NEW i \in DOMAIN author', author'[i] \in Providers
               PROVE  /\ i[3] \in Nat /\ i[3] < counter'[author'[i]]
                      /\ \A u \in Threads : Writing(u)' /\ job'[u].provider = author'[i] => job'[u].id[3] # i[3]
    OBVIOUS
  <2>1. CASE i = id
    BY <2>1, <1>1
  <2>2. CASE i # id
    BY <2>2, <1>1, <1>3 DEF ProviderInv, NumbersAreDrawnOnce
  <2>3. QED
    BY <2>1, <2>2
<1>8. NumbersAreDrawnOnce'
  BY <1>1, <1>4, <1>5, <1>6, <1>7 DEF ProviderInv, NumbersAreDrawnOnce
<1>9. ProvidersDoNotCollideWithThemselves'
  <2>1. \A c \in collisions : author[c.id] = author'[c.id]
    BY <1>1 DEF ProviderInv, NumbersAreDrawnOnce
  <2>2. QED
    BY <2>1 DEF ProviderInv, ProvidersDoNotCollideWithThemselves
<1>10. QED
  BY <1>8, <1>9 DEF ProviderInv

\* A thread writes under the number it holds, or loses its context to an id
\* that another provider or a caller took.
LEMMA WritingGivesUpTheNumber ==
  ASSUME ProviderInv, NEW t \in Threads, WriteArtifact(t)
  PROVE  ProviderInv'
<1> DEFINE j == job[t]
<1>1. /\ j.provider \in Providers /\ j.id[3] \in Nat /\ j.id[3] < counter[j.provider]
      /\ Writing(t) /\ job' = [job EXCEPT ![t] = Idle] /\ counter' = counter
  <2>1. Writing(t) /\ job' = [job EXCEPT ![t] = Idle] /\ counter' = counter
    BY DEF WriteArtifact, Writing
  <2>2. QED
    BY <2>1 DEF ProviderInv, NumbersAreDrawnOnce, Writing
<1>2. /\ job' = [u \in Threads |-> job'[u]]
      /\ job'[t] = Idle
      /\ \A u \in Threads : u # t => job'[u] = job[u]
  BY <1>1, JobMoved DEF ProviderInv, NumbersAreDrawnOnce
<1>3. CASE MayCreate(j.id)
  <2>1. /\ CreateArtifact(j.id, ScopeOf[j.provider], <<j.provider, j.id[2]>>, j.provider)
        /\ collisions' = collisions
    BY <1>3 DEF WriteArtifact
  <2>2. \A u \in Threads : Writing(u)' /\ job'[u].provider = j.provider => job'[u].id[3] # j.id[3]
    <3>1. ASSUME NEW u \in Threads, Writing(u)', job'[u].provider = j.provider
          PROVE  job'[u].id[3] # j.id[3]
      <4>1. u # t /\ job'[u] = job[u]
        BY <3>1, <1>2 DEF Writing, Idle
      <4>2. QED
        BY <3>1, <4>1, <1>1 DEF ProviderInv, NumbersAreDrawnOnce, Writing
    <3>2. QED
      BY <3>1
  <2>3. ~Known(j.id)
    BY <1>3 DEF MayCreate
  <2>4. \A u \in Threads : job'[u] = job[u] \/ job'[u] = Idle
    BY <1>2
  <2>5. QED
    BY <1>1, <1>2, <2>1, <2>2, <2>3, <2>4, ArtifactAppears
<1>4. CASE ~MayCreate(j.id)
  <2>1. /\ collisions' = collisions \cup {[id |-> j.id, provider |-> j.provider]}
        /\ UNCHANGED <<store, author>>
    BY <1>4 DEF WriteArtifact
  <2>2. j.id \in DOMAIN author
    BY <1>4 DEF MayCreate, Known, ProviderInv, NumbersAreDrawnOnce
  <2>3. author[j.id] # j.provider
    BY <1>1, <2>2 DEF ProviderInv, NumbersAreDrawnOnce
  <2>4. \A u \in Threads : Writing(u)' => Writing(u) /\ job'[u] = job[u]
    BY <1>2 DEF Writing, Idle
  <2>5. \A u \in Threads : job'[u].stage # "idle" => job'[u].provider \in Providers
    BY <1>2 DEF Idle, ProviderInv, NumbersAreDrawnOnce
  <2>6. NumbersAreDrawnOnce'
    BY <1>1, <1>2, <2>1, <2>2, <2>4, <2>5 DEF ProviderInv, NumbersAreDrawnOnce
  <2>7. ProvidersDoNotCollideWithThemselves'
    BY <2>1, <2>3 DEF ProviderInv, ProvidersDoNotCollideWithThemselves
  <2>8. QED
    BY <2>6, <2>7 DEF ProviderInv
<1>5. QED
  BY <1>3, <1>4

\* For any number of providers and threads on one store, a context that was
\* compressed or summarised is never lost to an artifact of its own provider
\* (LlmContextProvider::next_id).
THEOREM ProvidersKeepTheirContexts ==
  WorkspaceSpec => []ProvidersDoNotCollideWithThemselves
<1>1. WorkspaceInit => ProviderInv
  BY DEF WorkspaceInit, ProviderInv, NumbersAreDrawnOnce, ProvidersDoNotCollideWithThemselves, Writing, Idle
<1>2. ProviderInv /\ [WorkspaceNext]_workspaceVars => ProviderInv'
  <2> SUFFICES ASSUME ProviderInv, [WorkspaceNext]_workspaceVars PROVE ProviderInv'
    OBVIOUS
  <2>1. ASSUME NEW id, NEW scope, NEW body, Create(id, scope, body) PROVE ProviderInv'
    <3>1. UNCHANGED <<counter, job, collisions>>
      BY <2>1 DEF Create
    <3>2. CASE MayCreate(id) /\ CreateArtifact(id, scope, body, "caller")
      <4>1. ~Known(id) /\ "caller" \notin Providers
        BY <3>2, WorkspaceAssumption DEF MayCreate
      <4>2. job' = [u \in Threads |-> job'[u]]
        BY <3>1 DEF ProviderInv, NumbersAreDrawnOnce
      <4>3. QED
        BY <3>1, <3>2, <4>1, <4>2, ArtifactAppears
    <3>3. CASE UNCHANGED <<store, author>>
      BY <3>1, <3>3, StoreCallsKeepNumbers
    <3>4. QED
      BY <2>1, <3>2, <3>3 DEF Create
  <2>2. ASSUME NEW id, NEW body, Update(id, body) PROVE ProviderInv'
    <3>1. UNCHANGED <<counter, job, author, collisions>> /\ DOMAIN store' = DOMAIN store
      BY <2>2 DEF Update, With, Known
    <3>2. QED
      BY <3>1, StoreCallsKeepNumbers
  <2>3. ASSUME NEW id, Read(id) PROVE ProviderInv'
    BY <2>3, StoreCallsKeepNumbers DEF Read
  <2>4. ASSUME NEW scope, List(scope) PROVE ProviderInv'
    BY <2>4, StoreCallsKeepNumbers DEF List
  <2>5. ASSUME NEW from, NEW to, Link(from, to) PROVE ProviderInv'
    <3>1. UNCHANGED <<counter, job, author, collisions>> /\ DOMAIN store' = DOMAIN store
      BY <2>5 DEF Link, Linkable, Known, With
    <3>2. QED
      BY <3>1, StoreCallsKeepNumbers
  <2>6. ASSUME NEW p \in Providers, NEW refs, NEW max, BuildContext(p, refs, max) PROVE ProviderInv'
    BY <2>6, CounterGrows DEF BuildContext
  <2>7. ASSUME NEW t \in Threads, NEW p \in Providers, NEW package, NEW kind, Begin(t, p, package, kind)
        PROVE  ProviderInv'
    <3> DEFINE j == [stage |-> "asking", provider |-> p, package |-> package, kind |-> kind]
    <3>1. job' = [job EXCEPT ![t] = j] /\ UNCHANGED <<counter, author, collisions, store>>
      BY <2>7 DEF Begin
    <3>2. j.stage # "writing" /\ j.provider \in Providers
      OBVIOUS
    <3>3. QED
      BY <3>1, <3>2, ThreadWithoutNumber
  <2>8. ASSUME NEW t \in Threads, ModelFails(t) PROVE ProviderInv'
    <3>1. job' = [job EXCEPT ![t] = Idle] /\ UNCHANGED <<counter, author, collisions, store>>
      BY <2>8 DEF ModelFails
    <3>2. Idle.stage = "idle"
      BY DEF Idle
    <3>3. QED
      BY <3>1, <3>2, ThreadWithoutNumber
  <2>9. ASSUME NEW t \in Threads, DrawId(t) PROVE ProviderInv'
    BY <2>9, DrawnNumberIsNew
  <2>10. ASSUME NEW t \in Threads, WriteArtifact(t) PROVE ProviderInv'
    BY <2>10, WritingGivesUpTheNumber
  <2>11. CASE UNCHANGED workspaceVars
    BY <2>11, StoreCallsKeepNumbers DEF workspaceVars
  <2>12. CASE RefuseRequest
    BY <2>12, StoreCallsKeepNumbers DEF RefuseRequest
  <2>13. QED
    BY <2>1, <2>2, <2>3, <2>4, <2>5, <2>6, <2>7, <2>8, <2>9, <2>10, <2>11, <2>12 DEF WorkspaceNext
<1>3. ProviderInv => ProvidersDoNotCollideWithThemselves
  BY DEF ProviderInv
<1>4. QED
  BY <1>1, <1>2, <1>3, PTL DEF WorkspaceSpec

-----------------------------------------------------------------------------
\* A history of versions: numbered from 1, never empty.
Numbered(versions) ==
  /\ \E S : versions \in Seq(S)
  /\ Len(versions) > 0
  /\ \A k \in DOMAIN versions : versions[k] = [number |-> k, body |-> versions[k].body]

\* An artifact as the store keeps it: its body is that of its latest version.
Consistent(artifact) ==
  /\ artifact = [scope |-> artifact.scope, body |-> artifact.body,
                 versions |-> artifact.versions, links |-> artifact.links]
  /\ Numbered(artifact.versions)
  /\ artifact.body = artifact.versions[Len(artifact.versions)].body

ToldInv ==
  /\ store = [id \in DOMAIN store |-> store[id]]
  /\ \A id \in DOMAIN store : Consistent(store[id])
  /\ WhatWasToldStays

\* One more version at the end of a history keeps the others.
LEMMA HistoryGrows ==
  ASSUME NEW versions, Numbered(versions), NEW body,
         NEW next, next = [number |-> versions[Len(versions)].number + 1, body |-> body]
  PROVE  /\ Numbered(Append(versions, next))
         /\ Len(Append(versions, next)) = Len(versions) + 1
         /\ \A k \in DOMAIN versions :
              k \in DOMAIN Append(versions, next) /\ Append(versions, next)[k] = versions[k]
         /\ next.number = Len(versions) + 1
         /\ Len(versions) + 1 \in DOMAIN Append(versions, next)
         /\ Append(versions, next)[Len(versions) + 1] = next
<1>1. PICK S : versions \in Seq(S)
  BY DEF Numbered
<1>2. /\ Len(versions) \in Nat /\ Len(versions) > 0 /\ DOMAIN versions = 1..Len(versions)
      /\ Len(versions) \in DOMAIN versions
  BY <1>1, LenProperties DEF Numbered
<1>3. next.number = Len(versions) + 1 /\ next.body = body
  BY <1>2 DEF Numbered
<1>4. versions \in Seq(S \cup {next})
  BY <1>1, SeqDef
<1>5. /\ Append(versions, next) \in Seq(S \cup {next})
      /\ Len(Append(versions, next)) = Len(versions) + 1
      /\ \A k \in 1..Len(versions) : Append(versions, next)[k] = versions[k]
      /\ Append(versions, next)[Len(versions) + 1] = next
  BY <1>4, AppendProperties
<1>6. DOMAIN Append(versions, next) = 1..Len(versions) + 1
  BY <1>5, LenProperties
<1>7. next = [number |-> Len(versions) + 1, body |-> next.body]
  BY <1>3
<1>8. \A k \in DOMAIN Append(versions, next) :
        Append(versions, next)[k] = [number |-> k, body |-> Append(versions, next)[k].body]
  BY <1>2, <1>5, <1>6, <1>7 DEF Numbered
<1>9. Numbered(Append(versions, next))
  BY <1>2, <1>5, <1>8 DEF Numbered
<1>10. QED
  BY <1>2, <1>3, <1>5, <1>6, <1>9

\* What a caller is told in a step that leaves the store is true of it.
LEMMA ToldTheTruth ==
  ASSUME ToldInv, UNCHANGED store,
         \A told \in seen' : told \in seen \/
           \E id \in DOMAIN store :
             told = [id |-> id, version |-> Latest(id).number, body |-> Latest(id).body]
  PROVE  ToldInv'
<1>1. \A id \in DOMAIN store :
        /\ Len(store[id].versions) \in DOMAIN store[id].versions
        /\ Latest(id).number = Len(store[id].versions)
        /\ store[id].versions[Latest(id).number] = [number |-> Latest(id).number, body |-> Latest(id).body]
  <2> SUFFICES ASSUME NEW id \in DOMAIN store
               PROVE  /\ Len(store[id].versions) \in DOMAIN store[id].versions
                      /\ Latest(id).number = Len(store[id].versions)
                      /\ store[id].versions[Latest(id).number] =
                           [number |-> Latest(id).number, body |-> Latest(id).body]
    OBVIOUS
  <2>1. Numbered(store[id].versions)
    BY DEF ToldInv, Consistent
  <2>2. PICK S : store[id].versions \in Seq(S)
    BY <2>1 DEF Numbered
  <2>3. Len(store[id].versions) \in DOMAIN store[id].versions
    BY <2>1, <2>2, LenProperties DEF Numbered
  <2>4. store[id].versions[Len(store[id].versions)] =
          [number |-> Len(store[id].versions), body |-> store[id].versions[Len(store[id].versions)].body]
    BY <2>1, <2>3 DEF Numbered
  <2>5. QED
    BY <2>3, <2>4 DEF Latest
<1>2. ASSUME NEW told \in seen'
      PROVE  /\ Known(told.id) /\ told.version \in DOMAIN store[told.id].versions
             /\ store[told.id].versions[told.version] = [number |-> told.version, body |-> told.body]
  <2>1. CASE told \in seen
    BY <2>1 DEF ToldInv, WhatWasToldStays
  <2>2. CASE told \notin seen
    <3>1. PICK id \in DOMAIN store :
            told = [id |-> id, version |-> Latest(id).number, body |-> Latest(id).body]
      BY <1>2, <2>2
    <3>2. told.id = id /\ told.version = Latest(id).number /\ told.body = Latest(id).body
      BY <3>1
    <3>3. QED
      BY <3>2, <1>1 DEF Known
  <2>3. QED
    BY <2>1, <2>2
<1>3. WhatWasToldStays'
  BY <1>2 DEF ToldInv, WhatWasToldStays, Known
<1>4. QED
  BY <1>3 DEF ToldInv

\* A new artifact has version 1 with the body its creator gave; the others
\* are as they were.
LEMMA CreatedArtifact ==
  ASSUME ToldInv, NEW id, NEW scope, NEW body, NEW by,
         CreateArtifact(id, scope, body, by), ~Known(id)
  PROVE  ToldInv'
<1> DEFINE first == [number |-> 1, body |-> body]
           made == [scope |-> scope, body |-> body, versions |-> <<first>>, links |-> {}]
<1>1. store' = [i \in DOMAIN store \cup {id} |-> IF i = id THEN made ELSE store[i]]
  BY DEF CreateArtifact, With
<1>2. /\ store' = [i \in DOMAIN store' |-> store'[i]]
      /\ DOMAIN store' = DOMAIN store \cup {id}
      /\ store'[id] = made
      /\ \A i \in DOMAIN store : i # id /\ store'[i] = store[i]
  BY <1>1 DEF Known
<1>3. /\ <<first>> \in Seq({first}) /\ Len(<<first>>) = 1 /\ DOMAIN <<first>> = {1}
      /\ <<first>>[1] = first
  OBVIOUS
<1>4. Numbered(<<first>>)
  <2>1. \A k \in DOMAIN <<first>> : <<first>>[k] = [number |-> k, body |-> <<first>>[k].body]
    BY <1>3
  <2>2. \E S : <<first>> \in Seq(S)
    <3>1. WITNESS {first}
    <3>2. QED
      BY <1>3
  <2>3. Len(<<first>>) > 0
    BY <1>3
  <2>4. QED
    BY <2>1, <2>2, <2>3 DEF Numbered
<1>5. Consistent(made)
  BY <1>3, <1>4 DEF Consistent
<1>6. \A i \in DOMAIN store' : Consistent(store'[i])
  BY <1>2, <1>5 DEF ToldInv
<1>7. seen' = seen \cup {[id |-> id, version |-> 1, body |-> body]}
  BY DEF CreateArtifact, Told
<1>8. ASSUME NEW told \in seen'
      PROVE  /\ told.id \in DOMAIN store' /\ told.version \in DOMAIN store'[told.id].versions
             /\ store'[told.id].versions[told.version] = [number |-> told.version, body |-> told.body]
  <2>1. CASE told \in seen
    BY <2>1, <1>2 DEF ToldInv, WhatWasToldStays, Known
  <2>2. CASE told = [id |-> id, version |-> 1, body |-> body]
    <3>1. told.id = id /\ told.version = 1 /\ told.body = body
      BY <2>2
    <3>2. store'[id].versions = <<first>>
      BY <1>2
    <3>3. QED
      BY <3>1, <3>2, <1>2, <1>3
  <2>3. QED
    BY <1>7, <1>8, <2>1, <2>2
<1>9. \A i \in DOMAIN store' : store'[i].links \subseteq DOMAIN store'
  BY <1>2 DEF ToldInv, WhatWasToldStays
<1>10. WhatWasToldStays'
  BY <1>8, <1>9 DEF WhatWasToldStays, Known
<1>11. QED
  BY <1>2, <1>6, <1>10 DEF ToldInv

\* An update adds a version and keeps the ones before it.
LEMMA UpdatedArtifact ==
  ASSUME ToldInv, NEW id, NEW body, Update(id, body)
  PROVE  ToldInv'
<1>1. CASE UNCHANGED <<store, seen>>
  BY <1>1, ToldTheTruth
<1>2. CASE Known(id) /\ ~UNCHANGED <<store, seen>>
  <2> DEFINE old == store[id]
             next == [number |-> Latest(id).number + 1, body |-> body]
             new == [scope |-> old.scope, body |-> body, versions |-> Append(old.versions, next),
                     links |-> old.links]
  <2>1. /\ store' = With(store, id, new)
        /\ seen' = seen \cup {[id |-> id, version |-> next.number, body |-> next.body]}
    BY <1>2 DEF Update, Told, Push
  <2>2. /\ id \in DOMAIN store /\ Consistent(old) /\ Numbered(old.versions)
        /\ old = [scope |-> old.scope, body |-> old.body, versions |-> old.versions, links |-> old.links]
    BY <1>2 DEF ToldInv, Consistent, Known
  <2>3. store' = [i \in DOMAIN store |-> IF i = id THEN new ELSE store[i]]
    BY <2>1, <2>2 DEF With
  <2>4. /\ store' = [i \in DOMAIN store' |-> store'[i]]
        /\ DOMAIN store' = DOMAIN store /\ store'[id] = new
        /\ \A i \in DOMAIN store : i # id => store'[i] = store[i]
    BY <2>2, <2>3 DEF ToldInv
  <2>5. next = [number |-> old.versions[Len(old.versions)].number + 1, body |-> body]
    BY DEF Latest
  <2>6. /\ Numbered(new.versions)
        /\ Len(new.versions) = Len(old.versions) + 1
        /\ \A k \in DOMAIN old.versions : k \in DOMAIN new.versions /\ new.versions[k] = old.versions[k]
        /\ next.number = Len(old.versions) + 1
        /\ Len(old.versions) + 1 \in DOMAIN new.versions
        /\ new.versions[Len(old.versions) + 1] = next
    <3>1. new.versions = Append(old.versions, next)
      OBVIOUS
    <3> HIDE DEF new, next
    <3>2. QED
      BY <3>1, <2>2, <2>5, HistoryGrows
  <2>7. Consistent(new)
    BY <2>6 DEF Consistent
  <2>8. \A i \in DOMAIN store' : Consistent(store'[i])
    BY <2>4, <2>7 DEF ToldInv
  <2>9. ASSUME NEW told \in seen'
        PROVE  /\ told.id \in DOMAIN store' /\ told.version \in DOMAIN store'[told.id].versions
               /\ store'[told.id].versions[told.version] = [number |-> told.version, body |-> told.body]
    <3>1. CASE told \in seen
      <4>1. /\ told.id \in DOMAIN store /\ told.version \in DOMAIN store[told.id].versions
            /\ store[told.id].versions[told.version] = [number |-> told.version, body |-> told.body]
        BY <3>1 DEF ToldInv, WhatWasToldStays, Known
      <4>2. CASE told.id = id
        BY <4>1, <4>2, <2>4, <2>6
      <4>3. CASE told.id # id
        BY <4>1, <4>3, <2>4
      <4>4. QED
        BY <4>2, <4>3
    <3>2. CASE told = [id |-> id, version |-> next.number, body |-> next.body]
      <4>1. told.id = id /\ told.version = next.number /\ told.body = next.body
        BY <3>2
      <4>2. next = [number |-> next.number, body |-> next.body]
        OBVIOUS
      <4> HIDE DEF new, next
      <4>3. QED
        BY <4>1, <4>2, <2>2, <2>4, <2>6
    <3>3. QED
      BY <2>1, <2>9, <3>1, <3>2
  <2>10. \A i \in DOMAIN store' : store'[i].links \subseteq DOMAIN store'
    <3>1. new.links = old.links
      OBVIOUS
    <3>2. QED
      BY <3>1, <2>2, <2>4 DEF ToldInv, WhatWasToldStays
  <2>11. WhatWasToldStays'
    BY <2>9, <2>10 DEF WhatWasToldStays, Known
  <2>12. QED
    BY <2>4, <2>8, <2>11 DEF ToldInv
<1>3. QED
  BY <1>1, <1>2 DEF Update

\* A link leads to an artifact the store knew when it was made.
LEMMA LinkedArtifact ==
  ASSUME ToldInv, NEW from, NEW to, Link(from, to)
  PROVE  ToldInv'
<1>1. seen' = seen
  BY DEF Link
<1>2. CASE UNCHANGED store
  BY <1>1, <1>2, ToldTheTruth
<1>3. CASE ~UNCHANGED store
  <2> DEFINE old == store[from]
             new == [scope |-> old.scope, body |-> old.body, versions |-> old.versions,
                     links |-> old.links \cup {to}]
  <2>1. /\ from \in DOMAIN store /\ to \in DOMAIN store
        /\ store' = With(store, from, new)
    BY <1>3 DEF Link, Linkable, Known
  <2>2. /\ store' = [i \in DOMAIN store' |-> store'[i]]
        /\ DOMAIN store' = DOMAIN store /\ store'[from] = new
        /\ \A i \in DOMAIN store : i # from => store'[i] = store[i]
    BY <2>1 DEF With
  <2>3. Consistent(old) /\ old.links \subseteq DOMAIN store
    BY <2>1 DEF ToldInv, WhatWasToldStays
  <2>4. Consistent(new)
    BY <2>3 DEF Consistent
  <2>5. \A i \in DOMAIN store' : Consistent(store'[i])
    BY <2>2, <2>4 DEF ToldInv
  <2>6. \A i \in DOMAIN store' : store'[i].versions = store[i].versions
    BY <2>2
  <2>7. \A i \in DOMAIN store' : store'[i].links \subseteq DOMAIN store'
    <3>1. new.links = old.links \cup {to} /\ new.links \subseteq DOMAIN store
      BY <2>1, <2>3
    <3>2. \A i \in DOMAIN store : store[i].links \subseteq DOMAIN store
      BY DEF ToldInv, WhatWasToldStays
    <3> HIDE DEF new
    <3>3. QED
      BY <2>2, <3>1, <3>2
  <2>8. WhatWasToldStays'
    BY <1>1, <2>2, <2>6, <2>7 DEF ToldInv, WhatWasToldStays, Known
  <2>9. QED
    BY <2>2, <2>5, <2>8 DEF ToldInv
<1>4. QED
  BY <1>2, <1>3

\* For any number of callers, threads and providers on one store: every
\* version a caller was ever told of stays in the store with its body, and
\* every link leads to an artifact (InMemoryWorkspaceProvider).
THEOREM VersionsAreForever ==
  WorkspaceSpec => []WhatWasToldStays
<1>1. WorkspaceInit => ToldInv
  BY DEF WorkspaceInit, ToldInv, WhatWasToldStays
<1>2. ToldInv /\ [WorkspaceNext]_workspaceVars => ToldInv'
  <2> SUFFICES ASSUME ToldInv, [WorkspaceNext]_workspaceVars PROVE ToldInv'
    OBVIOUS
  <2>1. ASSUME NEW id, NEW scope, NEW body, Create(id, scope, body) PROVE ToldInv'
    BY <2>1, CreatedArtifact, ToldTheTruth DEF Create, MayCreate
  <2>2. ASSUME NEW id, NEW body, Update(id, body) PROVE ToldInv'
    BY <2>2, UpdatedArtifact
  <2>3. ASSUME NEW id, Read(id) PROVE ToldInv'
    <3>1. CASE UNCHANGED seen
      BY <2>3, <3>1, ToldTheTruth DEF Read
    <3>2. CASE Known(id) /\ Told(id, [number |-> Latest(id).number, body |-> store[id].body])
      <4>1. store[id].body = Latest(id).body /\ id \in DOMAIN store
        BY <3>2 DEF ToldInv, Consistent, Latest, Known
      <4>2. seen' = seen \cup {[id |-> id, version |-> Latest(id).number, body |-> Latest(id).body]}
        BY <3>2, <4>1 DEF Told
      <4>3. UNCHANGED store
        BY <2>3 DEF Read
      <4>4. QED
        BY <4>1, <4>2, <4>3, ToldTheTruth
    <3>3. QED
      BY <2>3, <3>1, <3>2 DEF Read
  <2>4. ASSUME NEW scope, List(scope) PROVE ToldInv'
    BY <2>4, ToldTheTruth DEF List
  <2>5. ASSUME NEW from, NEW to, Link(from, to) PROVE ToldInv'
    BY <2>5, LinkedArtifact
  <2>6. ASSUME NEW p, NEW refs, NEW max, BuildContext(p, refs, max) PROVE ToldInv'
    BY <2>6, ToldTheTruth DEF BuildContext
  <2>7. ASSUME NEW t, NEW p, NEW package, NEW kind, Begin(t, p, package, kind) PROVE ToldInv'
    BY <2>7, ToldTheTruth DEF Begin
  <2>8. ASSUME NEW t, ModelFails(t) PROVE ToldInv'
    BY <2>8, ToldTheTruth DEF ModelFails
  <2>9. ASSUME NEW t, DrawId(t) PROVE ToldInv'
    BY <2>9, ToldTheTruth DEF DrawId
  <2>10. ASSUME NEW t, WriteArtifact(t) PROVE ToldInv'
    BY <2>10, CreatedArtifact, ToldTheTruth DEF WriteArtifact, MayCreate
  <2>11. CASE UNCHANGED workspaceVars
    BY <2>11, ToldTheTruth DEF workspaceVars
  <2>12. CASE RefuseRequest
    BY <2>12, ToldTheTruth DEF RefuseRequest
  <2>13. QED
    BY <2>1, <2>2, <2>3, <2>4, <2>5, <2>6, <2>7, <2>8, <2>9, <2>10, <2>11, <2>12 DEF WorkspaceNext
<1>3. ToldInv => WhatWasToldStays
  BY DEF ToldInv
<1>4. QED
  BY <1>1, <1>2, <1>3, PTL DEF WorkspaceSpec
=============================================================================
