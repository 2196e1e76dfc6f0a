---------------------------- MODULE ToolExecutor ----------------------------
(* Carrying out plan steps with host tools (greentic-dw-operala-invoker,
   executor.rs).  One LlmToolStepExecutor serves all the steps of one invoke:
   each step is a conversation in which the model is offered the tools until
   its grant or its rounds are used up, every requested call is resolved from
   the cache, by the host or not at all, and the calls made are reported to
   the tool budget of the run (step_executor.rs).                           *)
EXTENDS Naturals, Sequences

CONSTANTS
  Calls,                    \* (tool, canonical arguments) keys
  MaxIterations,            \* max_iterations of the run
  MaxSteps,                 \* bound: steps carried out in the invoke
  MaxAsked                  \* bound: tool calls in one answer of the model

PER_STEP_TOOL_CAP == 6
TOOL_CALLS_PER_ITERATION == 3
CACHED_ROUND_ALLOWANCE == 3

ASSUME ToolExecutorAssumption ==
  MaxIterations \in Nat /\ MaxSteps \in Nat /\ MaxAsked \in Nat

VARIABLES
  phase,                    \* idle, chat, resolve, or error
  steps,                    \* steps begun
  charged,                  \* ToolBudget.used of the run
  granted,                  \* max_tool_calls of the current step
  used,                     \* calls the current step has made
  rounds,                   \* chats of the current step
  asked,                    \* calls of the last answer still to be resolved
  cache,                    \* outcome kept for every call, or "none"
  hostCalls,                \* calls of DeepWorkerTools::call, over the invoke
  effects                   \* times every call has reached its tool

vars == <<phase, steps, charged, granted, used, rounds, asked, cache, hostCalls, effects>>

stepVars == <<steps, charged, granted>>

\* What the host answers: the tool's result, the tool's own failure (an Ok
\* with an error in it), or that the call could not be made (tools.rs).
HostAnswers == {"done", "failed", "unreachable"}

Init ==
  /\ phase = "idle"
  /\ steps = 0 /\ charged = 0 /\ granted = 0 /\ used = 0 /\ rounds = 0
  /\ asked = <<>>
  /\ cache = [call \in Calls |-> "none"]
  /\ hostCalls = 0
  /\ effects = [call \in Calls |-> 0]

-----------------------------------------------------------------------------

Smaller(m, n) == IF m < n THEN m ELSE n

Total == MaxIterations * TOOL_CALLS_PER_ITERATION

Remaining == IF charged < Total THEN Total - charged ELSE 0

Grant == Smaller(PER_STEP_TOOL_CAP, Remaining)

BeginStep ==
  /\ phase = "idle"
  /\ steps < MaxSteps
  /\ phase' = "chat"
  /\ steps' = steps + 1
  /\ granted' = Grant
  /\ used' = 0
  /\ rounds' = 0
  /\ UNCHANGED <<charged, asked, cache, hostCalls, effects>>

RoundLimit == granted + CACHED_ROUND_ALLOWANCE

\* Mutant: only the calls made are limited, not the rounds.
OfferToolsWhileGranted == used < granted

OfferTools == used < granted /\ rounds < RoundLimit

\* The code's counter is not limited; past its use it stays at this bound.
Counted(n) == Smaller(n + 1, RoundLimit + 2)

\* One chat; tool calls are only listened to while tools are offered.
AskForTools ==
  /\ phase = "chat"
  /\ OfferTools
  /\ \E answer \in UNION {[1 .. n -> Calls] : n \in 1 .. MaxAsked} : asked' = answer
  /\ rounds' = Counted(rounds)
  /\ phase' = "resolve"
  /\ UNCHANGED <<stepVars, used, cache, hostCalls, effects>>

\* Mutant: a step that ends for want of rounds is not charged.
ChargeAnswered == IF OfferTools THEN charged + Smaller(used, granted) ELSE charged

Charge == charged + Smaller(used, granted)

FinishStep ==
  /\ phase = "chat"
  /\ rounds' = Counted(rounds)
  /\ charged' = Charge
  /\ phase' = "idle"
  /\ UNCHANGED <<steps, granted, used, asked, cache, hostCalls, effects>>

\* The model's backend fails: execute_step fails and with it the invoke.
ChatFails ==
  /\ phase = "chat"
  /\ phase' = "error"
  /\ UNCHANGED <<stepVars, used, rounds, asked, cache, hostCalls, effects>>

-----------------------------------------------------------------------------
(* resolve_call: from the cache, refused for want of budget, or by the host. *)

Current == asked[1]

NextCall ==
  /\ asked' = Tail(asked)
  /\ phase' = IF Len(asked) = 1 THEN "chat" ELSE "resolve"
  /\ UNCHANGED <<stepVars, rounds>>

AnswerFromCache ==
  /\ phase = "resolve"
  /\ cache[Current] # "none"
  /\ NextCall
  /\ UNCHANGED <<used, cache, hostCalls, effects>>

MayCall == used < granted

RefuseOverBudget ==
  /\ phase = "resolve"
  /\ cache[Current] = "none"
  /\ ~MayCall
  /\ NextCall
  /\ UNCHANGED <<used, cache, hostCalls, effects>>

\* Mutant: only what the tool did without an error of its own is kept.
KeptDone(answer) == IF answer = "done" THEN "done" ELSE "none"

\* What the cache keeps of an answer of the host: whatever is an Ok.
Kept(answer) == IF answer = "unreachable" THEN "none" ELSE answer

CallHost ==
  /\ phase = "resolve"
  /\ cache[Current] = "none"
  /\ MayCall
  /\ used' = used + 1
  /\ hostCalls' = hostCalls + 1
  /\ \E answer \in HostAnswers :
       /\ cache' = [cache EXCEPT ![Current] = Kept(answer)]
       /\ effects' = [effects EXCEPT ![Current] = IF answer = "unreachable" THEN @ ELSE @ + 1]
  /\ NextCall

InvokeEnds ==
  /\ phase = "error" \/ (phase = "idle" /\ steps = MaxSteps)
  /\ UNCHANGED vars

Next ==
  \/ BeginStep
  \/ AskForTools \/ FinishStep \/ ChatFails
  \/ AnswerFromCache \/ RefuseOverBudget \/ CallHost
  \/ InvokeEnds

Spec == Init /\ [][Next]_vars

-----------------------------------------------------------------------------
(* Properties.                                                             *)

\* Types, and no step uses more than it was granted (resolve_call).
TypeOK ==
  /\ phase \in {"idle", "chat", "resolve", "error"}
  /\ steps \in 0 .. MaxSteps
  /\ charged \in 0 .. Total
  /\ granted \in 0 .. PER_STEP_TOOL_CAP
  /\ used \in 0 .. granted
  /\ rounds \in Nat
  /\ asked \in Seq(Calls)
  /\ phase = "resolve" => asked # <<>>
  /\ cache \in [Calls -> HostAnswers \cup {"none"}]
  /\ hostCalls \in 0 .. Total
  /\ effects \in [Calls -> Nat]

\* A call reaches its tool at most once in an invoke: asked for again, in the
\* same answer, another round or a revisited step, it is served from the cache
\* (LlmToolStepExecutor::cache).
ToolsAreReachedOnce == \A call \in Calls : effects[call] <= 1

\* The budget of the run counts the calls the host has seen, no more and no
\* less, so tool_calls_used of the reply tells what was done (ToolBudget::charge
\* of tool_calls_used).
HostCallsAreCharged ==
  /\ phase = "idle" => hostCalls = charged
  /\ phase \in {"chat", "resolve"} => hostCalls = charged + used

\* Calls that cost nothing do not keep a conversation going: one chat per call
\* granted, CACHED_ROUND_ALLOWANCE more, and the one that closes the step
\* (round_limit).
ConversationIsBounded == rounds <= granted + CACHED_ROUND_ALLOWANCE + 1
=============================================================================
