----------------------- MODULE CoordinatorFlowProofs -----------------------
(* Results and final responses of CoordinatorFlow for any number of flows,   *)
(* any routing configurations and any requests.                             *)
EXTENDS CoordinatorFlow, SequenceTheorems, FiniteSetTheorems, TLAPS

\* The envelope of the i-th call of a flow, and the subtask made of it.
EnvelopeOf(f, i) ==
  Envelope(registry, RunOf[f], request[f].coordinator, request[f].tools[i], i, request[f].filled)
SubtaskOf(f, i) == [flow |-> f, envelope |-> EnvelopeOf(f, i)]

\* A sequence of whatever it is made of.
Elements(s) == {s[i] : i \in DOMAIN s}
IsSeq(s) == s \in Seq(Elements(s))

\* Every variable of the flows has a value for each of them.
Shape ==
  /\ DOMAIN request = Flows /\ DOMAIN handoffs = Flows
  /\ DOMAIN results = Flows /\ DOMAIN sources = Flows
  /\ \A f \in Flows : IsSeq(handoffs[f]) /\ IsSeq(results[f])

\* The delegator has what the flows handed off, and nothing else.
SubtasksAreCalls ==
  \A subtask \in subtasks : \E f \in Flows, i \in Nat :
    phase[f] # "idle" /\ subtask = SubtaskOf(f, i)

HandoffsAreCalls ==
  \A f \in Flows : \A i \in DOMAIN handoffs[f] :
    handoffs[f][i] = EnvelopeOf(f, i) /\ SubtaskOf(f, i) \in subtasks

\* What a completed flow owes its caller.
Backed(f) ==
  /\ Len(sources[f]) = Asked(f)
  /\ \A i \in DOMAIN sources[f] :
       /\ sources[f][i] = <<RunOf[f], request[f].tools[i]>>
       /\ \E subtask \in subtasks :
            subtask.flow = f /\ subtask.envelope.subtask = sources[f][i]
       /\ \A j \in DOMAIN sources[f] : sources[f][i] = sources[f][j] => i = j
  /\ request[f].finalizer \in {routing.finalizer, routing.coordinator} \ {NoAgent}

FlowInv ==
  /\ TypeOK /\ Shape
  /\ SubtasksAreCalls /\ HandoffsAreCalls
  /\ ResultsAnswerTheirCalls /\ FinalResponsesAreBacked

-----------------------------------------------------------------------------
\* What Append leaves in place and adds.
LEMMA AppendKeeps ==
  ASSUME NEW s, IsSeq(s), NEW e
  PROVE  /\ IsSeq(Append(s, e))
         /\ Len(s) \in Nat /\ DOMAIN s = 1 .. Len(s)
         /\ Len(Append(s, e)) = Len(s) + 1
         /\ DOMAIN Append(s, e) = 1 .. Len(s) + 1
         /\ \A i \in 1 .. Len(s) : Append(s, e)[i] = s[i]
         /\ Append(s, e)[Len(s) + 1] = e
<1> DEFINE T == Elements(s) \cup {e}
<1>1. s \in Seq(T)
  <2>1. Elements(s) \subseteq T
    OBVIOUS
  <2>2. QED
    BY <2>1, SeqMonotonic DEF IsSeq
<1>2. e \in T
  OBVIOUS
<1> HIDE DEF T
<1>3. /\ Append(s, e) \in Seq(T)
      /\ Len(s) \in Nat /\ DOMAIN s = 1 .. Len(s)
      /\ Len(Append(s, e)) = Len(s) + 1
      /\ DOMAIN Append(s, e) = 1 .. Len(s) + 1
      /\ \A i \in 1 .. Len(s) : Append(s, e)[i] = s[i]
      /\ Append(s, e)[Len(s) + 1] = e
  BY <1>1, <1>2, AppendProperties
<1>4. IsSeq(Append(s, e))
  <2> DEFINE t == Append(s, e)
  <2>1. t \in Seq(T)
    BY <1>3
  <2> HIDE DEF t
  <2>2. PICK n \in Nat : t \in [1 .. n -> T]
    BY <2>1, SeqDef
  <2>3. t \in [1 .. n -> Elements(t)]
    BY <2>2 DEF Elements
  <2>4. t \in Seq(Elements(t))
    BY <2>3, SeqDef
  <2>5. QED
    BY <2>4 DEF t, IsSeq
<1>5. QED
  BY <1>3, <1>4

\* Two calls of equal correlation id are one call (start_worker_tool_handoff).
LEMMA CorrelationTellsTheCall ==
  ASSUME NEW f \in Flows, NEW g \in Flows, NEW i \in Nat, NEW j \in Nat,
         EnvelopeOf(f, i).correlation = EnvelopeOf(g, j).correlation
  PROVE  f = g /\ i = j
<1>1. /\ EnvelopeOf(f, i).correlation = <<RunOf[f], request[f].tools[i], i>>
      /\ EnvelopeOf(g, j).correlation = <<RunOf[g], request[g].tools[j], j>>
  BY DEF EnvelopeOf, Envelope
<1>2. <<RunOf[f], request[f].tools[i], i>> = <<RunOf[g], request[g].tools[j], j>>
  BY <1>1
<1>3. RunOf[f] = RunOf[g] /\ i = j
  BY ONLY <1>2
<1>4. QED
  BY <1>3, CoordinatorFlowAssumption

\* A result knows the subtask it was made for by its correlation id, whatever
\* else the provider has changed in it.
LEMMA AnswersCarryTheirSubtask ==
  ASSUME NEW result \in Answers
  PROVE  /\ result.answers \in subtasks
         /\ result.correlation = result.answers.envelope.correlation
<1>1. PICK subtask \in subtasks :
        \/ result = Result(subtask)
        \/ result = [Result(subtask) EXCEPT !.filled = FALSE]
        \/ result = [Result(subtask) EXCEPT !.tool = NoAgent]
        \/ result = [Result(subtask) EXCEPT !.schema = NoAgent]
  BY DEF Answers
<1>2. /\ result.answers = Result(subtask).answers
      /\ result.correlation = Result(subtask).correlation
  BY <1>1 DEF Result
<1>3. QED
  BY <1>2 DEF Result

-----------------------------------------------------------------------------
\* The invariant holds before any flow has begun.
LEMMA FlowInvInit == Init => FlowInv
<1> SUFFICES ASSUME Init PROVE FlowInv
  OBVIOUS
<1>1. Len(<<>>) = 0 /\ DOMAIN <<>> = {} /\ IsSeq(<<>>)
  BY EmptySeq DEF IsSeq
<1>2. TypeOK
  BY <1>1 DEF Init, TypeOK, Phases, Asked
<1>3. Shape
  BY <1>1 DEF Init, Shape
<1>4. SubtasksAreCalls /\ HandoffsAreCalls
  BY <1>1 DEF Init, SubtasksAreCalls, HandoffsAreCalls
<1>5. ResultsAnswerTheirCalls /\ FinalResponsesAreBacked
  BY <1>1 DEF Init, ResultsAnswerTheirCalls, FinalResponsesAreBacked
<1>6. QED
  BY <1>2, <1>3, <1>4, <1>5 DEF FlowInv

\* A flow's calls stay what they are as long as its request does.
LEMMA CallsStay ==
  ASSUME routing' = routing, NEW f, request'[f] = request[f], NEW i
  PROVE  EnvelopeOf(f, i)' = EnvelopeOf(f, i) /\ SubtaskOf(f, i)' = SubtaskOf(f, i)
BY DEF EnvelopeOf, SubtaskOf, registry, Registry, AllowedRoutes, Envelope

\* The handoff at hand is the next call.
LEMMA NextHandoffIsACall ==
  ASSUME NEW f PROVE NextHandoff(f) = EnvelopeOf(f, Call(f))
BY DEF NextHandoff, EnvelopeOf

\* A flow that fails, perhaps with its next call already given to the
\* delegator, disturbs nothing (every error of run_agentic_coordinator_flow).
LEMMA FailingKeepsInv ==
  ASSUME FlowInv, NEW f \in Flows, Fail(f),
         \/ subtasks' = subtasks
         \/ subtasks' = subtasks \cup {SubtaskOf(f, Call(f))}
  PROVE  FlowInv'
<1> USE DEF FlowInv
<1>1. /\ UNCHANGED <<routing, request, handoffs, results, sources>>
      /\ DOMAIN phase = Flows /\ phase' = [phase EXCEPT ![f] = "failed"]
  BY DEF Fail, Goto, TypeOK
<1>2. \A g \in Flows : Len(handoffs[g]) \in Nat
  BY AppendKeeps DEF Shape
<1>3. TypeOK'
  BY <1>1 DEF TypeOK, Phases, Asked
<1>4. Shape'
  BY <1>1 DEF Shape
<1>5. \A g, i : SubtaskOf(g, i)' = SubtaskOf(g, i) /\ EnvelopeOf(g, i)' = EnvelopeOf(g, i)
  BY <1>1, CallsStay
<1>6. SubtasksAreCalls'
  <2> SUFFICES ASSUME NEW subtask \in subtasks'
               PROVE  \E g \in Flows, i \in Nat : phase'[g] # "idle" /\ subtask = SubtaskOf(g, i)
    BY <1>5 DEF SubtasksAreCalls
  <2>1. CASE subtask \in subtasks
    BY <2>1, <1>1 DEF SubtasksAreCalls
  <2>2. CASE subtask = SubtaskOf(f, Call(f))
    BY <2>2, <1>1, <1>2 DEF Call
  <2>3. QED
    BY <2>1, <2>2
<1>7. HandoffsAreCalls'
  BY <1>1, <1>5 DEF HandoffsAreCalls
<1>8. ResultsAnswerTheirCalls'
  BY <1>1 DEF ResultsAnswerTheirCalls
<1>9. FinalResponsesAreBacked'
  BY <1>1 DEF FinalResponsesAreBacked, Asked
<1>10. QED
  BY <1>3, <1>4, <1>6, <1>7, <1>8, <1>9

\* A flow that begins has no calls yet, and the others keep theirs.
LEMMA BeginKeepsInv ==
  ASSUME FlowInv, NEW f \in Flows, Begin(f)
  PROVE  FlowInv'
<1> USE DEF FlowInv
<1>1. PICK asked \in Requests :
        /\ phase[f] = "idle" /\ request' = [request EXCEPT ![f] = asked]
        /\ phase' = [phase EXCEPT ![f] = "calling"]
        /\ UNCHANGED <<routing, handoffs, results, subtasks, sources>>
  BY DEF Begin, Goto
<1>2. /\ DOMAIN phase = Flows /\ DOMAIN request = Flows
      /\ \A g \in Flows : /\ Len(handoffs[g]) \in Nat /\ DOMAIN handoffs[g] = 1 .. Len(handoffs[g])
                          /\ Len(results[g]) \in Nat
  BY AppendKeeps DEF Shape, TypeOK
<1>3. Len(handoffs[f]) = 0 /\ Len(results[f]) = 0
  BY <1>1, <1>2 DEF TypeOK, Asked
<1>4. TypeOK'
  <2>1. phase' \in [Flows -> Phases]
    BY <1>1 DEF TypeOK, Phases
  <2>2. asked # <<>> /\ Len(asked.tools) \in Nat
    BY CoordinatorFlowAssumption
  <2>3. QED
    BY <2>1, <2>2, <1>1, <1>2, <1>3 DEF TypeOK, Asked
<1>5. Shape'
  BY <1>1 DEF Shape
<1>6. \A g \in Flows \ {f} : \A i :
        SubtaskOf(g, i)' = SubtaskOf(g, i) /\ EnvelopeOf(g, i)' = EnvelopeOf(g, i)
  BY <1>1, <1>2, CallsStay
<1>7. SubtasksAreCalls'
  BY <1>1, <1>2, <1>6 DEF SubtasksAreCalls
<1>8. HandoffsAreCalls'
  BY <1>1, <1>2, <1>3, <1>6 DEF HandoffsAreCalls
<1>9. ResultsAnswerTheirCalls'
  BY <1>1 DEF ResultsAnswerTheirCalls
<1>10. FinalResponsesAreBacked'
  BY <1>1, <1>2 DEF FinalResponsesAreBacked, Asked
<1>11. QED
  BY <1>4, <1>5, <1>7, <1>8, <1>9, <1>10

\* A handoff is a call of its flow that the delegator has.
LEMMA StartingKeepsInv ==
  ASSUME FlowInv, NEW f \in Flows, StartHandoff(f)
  PROVE  FlowInv'
<1> USE DEF FlowInv
<1> DEFINE envelope == EnvelopeOf(f, Call(f))
<1>1. /\ handoffs' = [handoffs EXCEPT ![f] = Append(handoffs[f], envelope)]
      /\ subtasks' = subtasks \cup {SubtaskOf(f, Call(f))}
      /\ phase[f] = "calling" /\ phase' = [phase EXCEPT ![f] = "waiting"]
      /\ Call(f) <= Len(request[f].tools)
      /\ UNCHANGED <<routing, request, results, sources>>
  BY NextHandoffIsACall DEF StartHandoff, CallsLeft, Goto, SubtaskOf
<1> HIDE DEF envelope
<1>2. /\ DOMAIN phase = Flows /\ DOMAIN handoffs = Flows
      /\ \A g \in Flows : /\ Len(handoffs[g]) \in Nat /\ DOMAIN handoffs[g] = 1 .. Len(handoffs[g])
                          /\ Len(results[g]) \in Nat /\ DOMAIN results[g] = 1 .. Len(results[g])
  BY AppendKeeps DEF Shape, TypeOK
<1>3. Call(f) = Len(handoffs[f]) + 1 /\ Call(f) \in Nat
  BY <1>2 DEF Call
<1>4. /\ IsSeq(handoffs'[f]) /\ Len(handoffs'[f]) = Call(f) /\ DOMAIN handoffs'[f] = 1 .. Call(f)
      /\ \A i \in DOMAIN handoffs[f] : handoffs'[f][i] = handoffs[f][i]
      /\ handoffs'[f][Call(f)] = envelope
  BY <1>1, <1>2, <1>3, AppendKeeps DEF Shape
<1>5. \A g \in Flows \ {f} : handoffs'[g] = handoffs[g]
  BY <1>1, <1>2
<1>6. TypeOK'
  <2>1. request[f] # <<>> /\ Len(results[f]) = Len(handoffs[f])
    BY <1>1, CoordinatorFlowAssumption DEF TypeOK
  <2>2. phase' \in [Flows -> Phases]
    BY <1>1 DEF TypeOK, Phases
  <2>3. QED
    BY <2>1, <2>2, <1>1, <1>2, <1>3, <1>4, <1>5 DEF TypeOK, Asked
<1>7. Shape'
  BY <1>1, <1>4, <1>5 DEF Shape
<1>8. \A g, i : SubtaskOf(g, i)' = SubtaskOf(g, i) /\ EnvelopeOf(g, i)' = EnvelopeOf(g, i)
  BY <1>1, CallsStay
<1>9. SubtasksAreCalls'
  <2> SUFFICES ASSUME NEW subtask \in subtasks'
               PROVE  \E g \in Flows, i \in Nat : phase'[g] # "idle" /\ subtask = SubtaskOf(g, i)
    BY <1>8 DEF SubtasksAreCalls
  <2>1. CASE subtask \in subtasks
    BY <2>1, <1>1, <1>2 DEF SubtasksAreCalls
  <2>2. CASE subtask = SubtaskOf(f, Call(f))
    BY <2>2, <1>1, <1>2, <1>3
  <2>3. QED
    BY <2>1, <2>2, <1>1
<1>10. HandoffsAreCalls'
  <2> SUFFICES ASSUME NEW g \in Flows, NEW i \in DOMAIN handoffs'[g]
               PROVE  handoffs'[g][i] = EnvelopeOf(g, i) /\ SubtaskOf(g, i) \in subtasks'
    BY <1>8 DEF HandoffsAreCalls
  <2>1. CASE g # f \/ i \in DOMAIN handoffs[f]
    BY <2>1, <1>1, <1>4, <1>5 DEF HandoffsAreCalls
  <2>2. CASE g = f /\ i = Call(f)
    BY <2>2, <1>1, <1>4 DEF envelope
  <2>3. QED
    BY <2>1, <2>2, <1>2, <1>3, <1>4
<1>11. ResultsAnswerTheirCalls'
  <2> SUFFICES ASSUME NEW g \in Flows, NEW i \in DOMAIN results[g]
               PROVE  handoffs'[g][i] = handoffs[g][i]
    BY <1>1 DEF ResultsAnswerTheirCalls
  <2>1. i \in DOMAIN handoffs[g]
    BY <1>2 DEF TypeOK
  <2>2. QED
    BY <2>1, <1>4, <1>5
<1>12. FinalResponsesAreBacked'
  BY <1>1, <1>2 DEF FinalResponsesAreBacked, Asked
<1>13. QED
  BY <1>6, <1>7, <1>9, <1>10, <1>11, <1>12

\* What the checks let through was made for the last handoff of this flow
\* (validate_worker_tool_result).
LEMMA AcceptedResultIsTheAnswer ==
  ASSUME FlowInv, NEW f \in Flows, Waiting(f),
         NEW result \in Answers, ValidateResult(Pending(f), result)
  PROVE  result.answers = [flow |-> f, envelope |-> Pending(f)]
<1> USE DEF FlowInv
<1> DEFINE n == Len(handoffs[f])
<1>1. n \in Nat \ {0} /\ n \in DOMAIN handoffs[f]
  BY AppendKeeps DEF Shape, TypeOK, Waiting
<1>2. Pending(f) = EnvelopeOf(f, n)
  BY <1>1 DEF Pending, HandoffsAreCalls
<1>3. PICK g \in Flows, i \in Nat : result.answers = SubtaskOf(g, i)
  BY AnswersCarryTheirSubtask DEF SubtasksAreCalls
<1>4. EnvelopeOf(f, n).correlation = EnvelopeOf(g, i).correlation
  BY <1>2, <1>3, AnswersCarryTheirSubtask DEF ValidateResult, SubtaskOf
<1>5. f = g /\ n = i
  BY <1>1, <1>4, CorrelationTellsTheCall
<1>6. QED
  BY <1>2, <1>3, <1>5 DEF SubtaskOf

\* A result that passes is taken for the call it was made for.
LEMMA ReceivingKeepsInv ==
  ASSUME FlowInv, NEW f \in Flows, ReceiveResult(f)
  PROVE  FlowInv'
<1> USE DEF FlowInv
<1>1. PICK result \in Answers :
        ValidateResult(Pending(f), result) /\ results' = [results EXCEPT ![f] = Append(results[f], result)]
  BY DEF ReceiveResult
<1>2. /\ phase[f] = "waiting" /\ phase' = [phase EXCEPT ![f] = "calling"]
      /\ UNCHANGED <<routing, request, handoffs, subtasks, sources>>
  BY DEF ReceiveResult, Waiting, Goto
<1>3. /\ DOMAIN phase = Flows /\ DOMAIN results = Flows
      /\ \A g \in Flows : /\ Len(handoffs[g]) \in Nat
                          /\ Len(results[g]) \in Nat /\ DOMAIN results[g] = 1 .. Len(results[g])
      /\ Len(results[f]) + 1 = Len(handoffs[f])
  BY <1>2, AppendKeeps DEF Shape, TypeOK
<1>4. /\ IsSeq(results'[f]) /\ Len(results'[f]) = Len(handoffs[f])
      /\ DOMAIN results'[f] = 1 .. Len(handoffs[f])
      /\ \A i \in DOMAIN results[f] : results'[f][i] = results[f][i]
      /\ results'[f][Len(handoffs[f])] = result
  BY <1>1, <1>3, AppendKeeps DEF Shape
<1>5. \A g \in Flows \ {f} : results'[g] = results[g]
  BY <1>1, <1>3
<1>6. TypeOK'
  <2>1. phase' \in [Flows -> Phases]
    BY <1>2 DEF TypeOK, Phases
  <2>2. QED
    BY <2>1, <1>2, <1>3, <1>4, <1>5 DEF TypeOK, Asked
<1>7. Shape'
  BY <1>1, <1>2, <1>4, <1>5 DEF Shape
<1>8. \A g, i : SubtaskOf(g, i)' = SubtaskOf(g, i) /\ EnvelopeOf(g, i)' = EnvelopeOf(g, i)
  BY <1>2, CallsStay
<1>9. SubtasksAreCalls' /\ HandoffsAreCalls'
  BY <1>2, <1>3, <1>8 DEF SubtasksAreCalls, HandoffsAreCalls
<1>10. ResultsAnswerTheirCalls'
  <2> SUFFICES ASSUME NEW g \in Flows, NEW i \in DOMAIN results'[g]
               PROVE  results'[g][i].answers = [flow |-> g, envelope |-> handoffs[g][i]]
    BY <1>2 DEF ResultsAnswerTheirCalls
  <2>1. CASE g # f \/ i \in DOMAIN results[f]
    BY <2>1, <1>4, <1>5 DEF ResultsAnswerTheirCalls
  <2>2. CASE g = f /\ i = Len(handoffs[f])
    BY <2>2, <1>1, <1>2, <1>4, AcceptedResultIsTheAnswer DEF Waiting, Pending
  <2>3. QED
    BY <2>1, <2>2, <1>3, <1>4
<1>11. FinalResponsesAreBacked'
  BY <1>2, <1>3 DEF FinalResponsesAreBacked, Asked
<1>12. QED
  BY <1>6, <1>7, <1>9, <1>10, <1>11

\* The sources of a final response are the flow's own subtasks, each once
\* (compose_final_response).
LEMMA ComposingKeepsInv ==
  ASSUME FlowInv, NEW f \in Flows, Compose(f)
  PROVE  FlowInv'
<1> USE DEF FlowInv
<1> DEFINE n == Len(results[f])
<1>1. /\ phase[f] = "calling" /\ phase' = [phase EXCEPT ![f] = "completed"]
      /\ Len(handoffs[f]) = Len(request[f].tools)
      /\ sources' = [sources EXCEPT ![f] = [i \in DOMAIN results[f] |-> results[f][i].subtask]]
      /\ Composable(f)
      /\ UNCHANGED <<routing, request, handoffs, results, subtasks>>
  BY DEF Compose, AllAnswered, Goto
<1>2. /\ DOMAIN phase = Flows /\ DOMAIN sources = Flows
      /\ DOMAIN handoffs[f] = 1 .. n /\ DOMAIN results[f] = 1 .. n
      /\ n \in Nat /\ Len(handoffs[f]) = n /\ request[f] # <<>>
  BY <1>1, AppendKeeps, CoordinatorFlowAssumption DEF Shape, TypeOK
<1>3. sources'[f] = [i \in 1 .. n |-> results[f][i].subtask] /\ Len(sources'[f]) = n
  <2>1. sources'[f] = [i \in 1 .. n |-> results[f][i].subtask]
    BY <1>1, <1>2
  <2> HIDE DEF n
  <2>2. Len([i \in 1 .. n |-> results[f][i].subtask]) = n
    BY <1>2
  <2>3. QED
    BY <2>1, <2>2
<1> HIDE DEF n
<1>4. TypeOK' /\ Shape'
  <2>1. phase' \in [Flows -> Phases]
    BY <1>1 DEF TypeOK, Phases
  <2>2. QED
    BY <2>1, <1>1, <1>2 DEF TypeOK, Shape, Asked, n
<1>5. \A g, i : SubtaskOf(g, i)' = SubtaskOf(g, i) /\ EnvelopeOf(g, i)' = EnvelopeOf(g, i)
  BY <1>1, CallsStay
<1>6. SubtasksAreCalls' /\ HandoffsAreCalls'
  BY <1>1, <1>2, <1>5 DEF SubtasksAreCalls, HandoffsAreCalls
<1>7. ResultsAnswerTheirCalls'
  BY <1>1 DEF ResultsAnswerTheirCalls
<1>8. \A i \in 1 .. n :
        /\ results[f][i].subtask = <<RunOf[f], request[f].tools[i]>>
        /\ SubtaskOf(f, i) \in subtasks
        /\ SubtaskOf(f, i).envelope.subtask = <<RunOf[f], request[f].tools[i]>>
        /\ SubtaskOf(f, i).flow = f
  <2> SUFFICES ASSUME NEW i \in 1 .. n
               PROVE  /\ results[f][i].subtask = <<RunOf[f], request[f].tools[i]>>
                      /\ SubtaskOf(f, i) \in subtasks
                      /\ SubtaskOf(f, i).envelope.subtask = <<RunOf[f], request[f].tools[i]>>
                      /\ SubtaskOf(f, i).flow = f
    OBVIOUS
  <2>1. results[f][i].subtask = handoffs[f][i].subtask
    BY <1>1, <1>2 DEF Composable, ValidateResult
  <2>2. handoffs[f][i] = EnvelopeOf(f, i) /\ SubtaskOf(f, i) \in subtasks
    BY <1>2 DEF HandoffsAreCalls
  <2>3. EnvelopeOf(f, i).subtask = <<RunOf[f], request[f].tools[i]>>
    BY DEF EnvelopeOf, Envelope
  <2>4. QED
    BY <2>1, <2>2, <2>3 DEF SubtaskOf
<1>9. \A i, j \in 1 .. n : results[f][i].subtask = results[f][j].subtask => i = j
  BY <1>1, <1>2 DEF Composable, DistinctSources
<1>10. request[f].finalizer \in {routing.finalizer, routing.coordinator} \ {NoAgent}
  BY <1>1 DEF Composable, ExpectedFinalizer, registry, Registry
<1>11. UNCHANGED <<routing, request, subtasks>> /\ \A g : Asked(g)' = Asked(g)
  BY <1>1 DEF Asked
<1>12. ASSUME NEW g \in Flows, phase'[g] = "completed" PROVE Backed(g)'
  <2>1. CASE g # f
    <3>1. phase[g] = "completed" /\ sources'[g] = sources[g]
      BY <2>1, <1>1, <1>2, <1>12
    <3>2. Backed(g)
      BY <3>1 DEF FinalResponsesAreBacked, Backed
    <3>3. QED
      BY <3>1, <3>2, <1>11 DEF Backed
  <2>2. CASE g = f
    <3>1. DOMAIN sources'[f] = 1 .. n /\ \A i \in 1 .. n : sources'[f][i] = results[f][i].subtask
      BY <1>3
    <3>2. Len(sources'[f]) = Asked(f)
      BY <1>1, <1>2, <1>3 DEF Asked
    <3>3. \A i \in 1 .. n : \E subtask \in subtasks :
            subtask.flow = f /\ subtask.envelope.subtask = sources'[f][i]
      BY <3>1, <1>8
    <3>4. \A i \in 1 .. n : sources'[f][i] = <<RunOf[f], request[f].tools[i]>>
      BY <3>1, <1>8
    <3>5. \A i, j \in 1 .. n : sources'[f][i] = sources'[f][j] => i = j
      BY <3>1, <1>9
    <3>6. QED
      BY <2>2, <3>1, <3>2, <3>3, <3>4, <3>5, <1>10, <1>11 DEF Backed
  <2>3. QED
    BY <2>1, <2>2
<1>13. FinalResponsesAreBacked'
  BY <1>12 DEF FinalResponsesAreBacked, Backed
<1>14. QED
  BY <1>4, <1>6, <1>7, <1>13

\* Every step of every flow keeps the invariant.
LEMMA FlowInvStep == FlowInv /\ [Next]_vars => FlowInv'
<1> SUFFICES ASSUME FlowInv, [Next]_vars PROVE FlowInv'
  OBVIOUS
<1>1. CASE UNCHANGED vars
  <2> USE <1>1 DEF FlowInv, vars
  <2>1. \A g, i : SubtaskOf(g, i)' = SubtaskOf(g, i) /\ EnvelopeOf(g, i)' = EnvelopeOf(g, i)
    BY CallsStay
  <2>2. SubtasksAreCalls' /\ HandoffsAreCalls'
    BY <2>1 DEF SubtasksAreCalls, HandoffsAreCalls
  <2>3. \A g : Asked(g)' = Asked(g)
    BY DEF Asked
  <2>4. TypeOK' /\ Shape'
    BY <2>3 DEF TypeOK, Shape
  <2>5. ResultsAnswerTheirCalls'
    BY DEF ResultsAnswerTheirCalls
  <2>6. FinalResponsesAreBacked'
    BY <2>3 DEF FinalResponsesAreBacked
  <2>7. QED
    BY <2>2, <2>4, <2>5, <2>6
<1>2. ASSUME NEW f \in Flows, FlowStep(f) PROVE FlowInv'
  <2>1. CASE Begin(f)
    BY <2>1, BeginKeepsInv
  <2>2. CASE Reject(f)
    BY <2>2, FailingKeepsInv DEF Reject
  <2>3. CASE StartHandoff(f)
    BY <2>3, StartingKeepsInv
  <2>4. CASE RefuseHandoff(f)
    BY <2>4, FailingKeepsInv DEF RefuseHandoff
  <2>5. CASE DelegatorFails(f)
    BY <2>5, FailingKeepsInv, NextHandoffIsACall DEF DelegatorFails, SubtaskOf
  <2>6. CASE ReceiveResult(f)
    BY <2>6, ReceivingKeepsInv
  <2>7. CASE RefuseResult(f)
    BY <2>7, FailingKeepsInv DEF RefuseResult
  <2>8. CASE WorkerFails(f)
    BY <2>8, FailingKeepsInv DEF WorkerFails
  <2>9. CASE Compose(f)
    BY <2>9, ComposingKeepsInv
  <2>10. CASE RefuseResponse(f)
    BY <2>10, FailingKeepsInv DEF RefuseResponse
  <2>11. QED
    BY <1>2, <2>1, <2>2, <2>3, <2>4, <2>5, <2>6, <2>7, <2>8, <2>9, <2>10 DEF FlowStep
<1>3. QED
  BY <1>1, <1>2 DEF Next, Terminating

-----------------------------------------------------------------------------
(* What observers hear, against what the delegator is given.               *)

Given(f) == {subtask \in subtasks : subtask.flow = f}
Heard(f) == {i \in DOMAIN events[f] : events[f][i] = "handoff_started"}

\* The i-th word of the story of a flow with n calls.
Word(n, i) ==
  IF i = 1 THEN "started"
  ELSE IF i = 2 * n + 2 THEN "final_response.created"
  ELSE IF i = 2 * n + 3 THEN "completed"
  ELSE IF i % 2 = 0 THEN "handoff_started" ELSE "result_received"

\* How far the story is told in each phase.
Told(f) ==
  /\ Asked(f) \in Nat
  /\ phase[f] = "idle" => Len(events[f]) = 0
  /\ phase[f] = "calling" => Len(events[f]) = 2 * Len(handoffs[f]) + 1
  /\ phase[f] = "waiting" => Len(events[f]) = 2 * Len(handoffs[f])
  /\ phase[f] = "completed" => Len(events[f]) = 2 * Asked(f) + 3
  /\ phase[f] = "failed" => Len(events[f]) <= 2 * Asked(f) + 1
  /\ \A i \in DOMAIN events[f] : events[f][i] = Word(Asked(f), i)

\* Every subtask of a flow was heard of, or was the last act of a flow that
\* failed; until then each was handed off.
Counted(f) ==
  /\ IsFiniteSet(Given(f)) /\ IsFiniteSet(Heard(f))
  /\ Cardinality(Given(f)) = Cardinality(Heard(f)) \/
       (phase[f] = "failed" /\ Cardinality(Given(f)) = Cardinality(Heard(f)) + 1)
  /\ phase[f] # "failed" =>
       \A subtask \in Given(f) : \E i \in DOMAIN handoffs[f] : subtask.envelope = handoffs[f][i]

Followed(f) == IsSeq(events[f]) /\ Told(f) /\ Counted(f)

ObserverInv == DOMAIN events = Flows /\ \A f \in Flows : Followed(f)

\* The invariant is the property and more: a beginning of the story is told,
\* and all of it only to the end.
LEMMA FollowedIsFollowing ==
  ASSUME FlowInv, ObserverInv PROVE ObserversFollowTheFlow
<1> SUFFICES ASSUME NEW f \in Flows
    PROVE /\ request[f] # <<>> => events[f] = SubSeq(Story(f), 1, Len(events[f]))
          /\ phase[f] = "completed" <=> Len(events[f]) = 2 * Asked(f) + 3
          /\ Cardinality(Given(f)) - Cardinality(Heard(f)) \in {0, 1}
          /\ Cardinality(Given(f)) # Cardinality(Heard(f)) => phase[f] = "failed"
  BY DEF ObserversFollowTheFlow, Given, Heard
<1> DEFINE n == Asked(f)  l == Len(events[f])
<1>1. /\ IsSeq(events[f]) /\ Told(f) /\ Counted(f)
      /\ phase[f] \in Phases
  BY DEF ObserverInv, Followed, FlowInv, TypeOK
<1>2. /\ l \in Nat /\ DOMAIN events[f] = 1 .. l
      /\ Len(handoffs[f]) \in Nat /\ n \in Nat /\ Len(handoffs[f]) <= n
      /\ phase[f] \in {"calling", "waiting"} => l <= 2 * n + 1
  <2>1. l \in Nat /\ DOMAIN events[f] = 1 .. l /\ Len(handoffs[f]) \in Nat
    BY <1>1, AppendKeeps DEF FlowInv, Shape
  <2>2. n \in Nat
    BY <1>1 DEF Told
  <2>3. Len(handoffs[f]) <= n
    BY DEF FlowInv, TypeOK
  <2>4. QED
    BY <1>1, <2>1, <2>2, <2>3 DEF Told
<1>3. phase[f] = "completed" <=> l = 2 * n + 3
  BY <1>1, <1>2 DEF Told, Phases
<1>4. l <= 2 * n + 3
  BY <1>1, <1>2 DEF Told, Phases
<1>5. events[f] = SubSeq(Story(f), 1, l)
  <2> DEFINE W == Elements(events[f])
  <2>1. \A i \in 1 .. l : Story(f)[i] = Word(n, i)
    BY <1>2, <1>4 DEF Story, Word
  <2>2. \A i \in 1 .. l : Story(f)[i] = events[f][i]
    BY <2>1, <1>1, <1>2 DEF Told
  <2>3. \A i \in 1 .. l : Story(f)[i] \in W
    BY <2>2, <1>2 DEF Elements
  <2>4. events[f] \in Seq(W)
    BY <1>1 DEF IsSeq
  <2> HIDE DEF W, l, n
  <2>5. /\ SubSeq(Story(f), 1, l) \in Seq(W)
        /\ Len(SubSeq(Story(f), 1, l)) = l
        /\ \A i \in 1 .. l : SubSeq(Story(f), 1, l)[i] = Story(f)[i]
    <3>1. /\ SubSeq(Story(f), 1, l) \in Seq(W)
          /\ Len(SubSeq(Story(f), 1, l)) = IF 1 <= l THEN l - 1 + 1 ELSE 0
          /\ \A i \in 1 .. l - 1 + 1 : SubSeq(Story(f), 1, l)[i] = Story(f)[1 + i - 1]
      BY <1>2, <2>3, SubSeqProperties
    <3>2. QED
      BY <3>1, <1>2
  <2>6. l = Len(events[f])
    BY DEF l
  <2>7. QED
    BY <2>2, <2>4, <2>5, <2>6, SeqEqual
<1>6. /\ Cardinality(Given(f)) \in Nat /\ Cardinality(Heard(f)) \in Nat
  BY <1>1, FS_CardinalityType DEF Counted
<1>7. QED
  BY <1>1, <1>3, <1>5, <1>6 DEF Counted

\* Nobody is heard of before the first flow begins.
LEMMA ObserverInvInit == Init => ObserverInv
<1> SUFFICES ASSUME Init, NEW f \in Flows PROVE Followed(f)
  BY DEF ObserverInv, Init
<1>1. events[f] = <<>> /\ request[f] = <<>> /\ phase[f] = "idle" /\ subtasks = {}
  BY DEF Init
<1>2. Len(<<>>) = 0 /\ DOMAIN <<>> = {} /\ IsSeq(<<>>)
  BY EmptySeq DEF IsSeq
<1>3. Told(f)
  BY <1>1, <1>2 DEF Told, Asked
<1>4. Given(f) = {} /\ Heard(f) = {}
  BY <1>1, <1>2 DEF Given, Heard
<1>5. Counted(f)
  BY <1>4, FS_EmptySet DEF Counted
<1>6. QED
  BY <1>1, <1>2, <1>3, <1>5 DEF Followed

\* A step of one flow leaves the story of every other one alone.
LEMMA OthersKeepTheirStory ==
  ASSUME FlowInv, ObserverInv, NEW f \in Flows, FlowStep(f), NEW g \in Flows, g # f
  PROVE  Followed(g)'
<1>1. /\ DOMAIN phase = Flows /\ DOMAIN events = Flows
      /\ DOMAIN handoffs = Flows /\ DOMAIN request = Flows
  BY DEF FlowInv, TypeOK, Shape, ObserverInv
<1>2. /\ phase'[g] = phase[g] /\ events'[g] = events[g]
      /\ handoffs'[g] = handoffs[g] /\ request'[g] = request[g]
  BY <1>1 DEF FlowStep, Begin, Reject, StartHandoff, RefuseHandoff, DelegatorFails, ReceiveResult,
              RefuseResult, WorkerFails, Compose, RefuseResponse, Fail, Goto, Notify
<1>3. \/ subtasks' = subtasks
      \/ subtasks' = subtasks \cup {[flow |-> f, envelope |-> NextHandoff(f)]}
  BY DEF FlowStep, Begin, Reject, StartHandoff, RefuseHandoff, DelegatorFails, ReceiveResult,
         RefuseResult, WorkerFails, Compose, RefuseResponse
<1>4. Given(g)' = Given(g)
  BY <1>3 DEF Given
<1>5. Heard(g)' = Heard(g) /\ Asked(g)' = Asked(g)
  BY <1>2 DEF Heard, Asked
<1>6. Followed(g)
  BY DEF ObserverInv
<1>7. QED
  BY <1>2, <1>4, <1>5, <1>6 DEF Followed, Told, Counted

\* A flow that fails is not heard of again, though the delegator may have got
\* one more subtask.
LEMMA FailingIsSilent ==
  ASSUME FlowInv, ObserverInv, NEW f \in Flows, Fail(f), phase[f] \in {"idle", "calling", "waiting"},
         \/ subtasks' = subtasks
         \/ subtasks' = subtasks \cup {SubtaskOf(f, Call(f))}
  PROVE  Followed(f)'
<1>1. /\ events' = events /\ request' = request /\ handoffs' = handoffs
      /\ phase'[f] = "failed"
  BY DEF Fail, Goto, FlowInv, TypeOK
<1>2. Followed(f) /\ Heard(f)' = Heard(f) /\ Asked(f)' = Asked(f)
  BY <1>1 DEF ObserverInv, Heard, Asked
<1>3. Len(handoffs[f]) \in Nat /\ Len(handoffs[f]) <= Asked(f)
  BY AppendKeeps DEF FlowInv, Shape, TypeOK
<1>4. Told(f)'
  BY <1>1, <1>2, <1>3 DEF Followed, Told
<1>5. \/ Given(f)' = Given(f)
      \/ Given(f)' = Given(f) \cup {SubtaskOf(f, Call(f))}
  BY DEF Given, SubtaskOf
<1>6. /\ IsFiniteSet(Given(f)') /\ Cardinality(Given(f)) \in Nat
      /\ Cardinality(Given(f)') \in {Cardinality(Given(f)), Cardinality(Given(f)) + 1}
  BY <1>2, <1>5, FS_AddElement, FS_CardinalityType DEF Followed, Counted
<1>7. Counted(f)'
  BY <1>1, <1>2, <1>6 DEF Followed, Counted
<1>8. QED
  BY <1>1, <1>2, <1>4, <1>7 DEF Followed

\* A story with one more word, and one that has come to its end.
Said(s, w) == s \o <<w>>
Ended(s) == s \o <<"final_response.created", "completed">>

\* What one more word makes of a story.
LEMMA OneMoreWord ==
  ASSUME NEW s, IsSeq(s), NEW w
  PROVE  /\ IsSeq(Said(s, w))
         /\ Len(s) \in Nat /\ DOMAIN s = 1 .. Len(s)
         /\ Len(Said(s, w)) = Len(s) + 1
         /\ DOMAIN Said(s, w) = 1 .. Len(s) + 1
         /\ \A i \in 1 .. Len(s) : Said(s, w)[i] = s[i]
         /\ Said(s, w)[Len(s) + 1] = w
<1> DEFINE T == Elements(s) \cup {w}
<1>1. s \in Seq(T) /\ w \in T
  <2>1. Elements(s) \subseteq T
    OBVIOUS
  <2>2. QED
    BY <2>1, SeqMonotonic DEF IsSeq
<1> HIDE DEF T
<1>2. Append(s, w) = s \o <<w>>
  BY <1>1, AppendIsConcat
<1>3. Said(s, w) = Append(s, w)
  BY <1>2 DEF Said
<1>4. QED
  BY <1>3, AppendKeeps

\* What the end adds to it: two words.
LEMMA TheEnd ==
  ASSUME NEW s, IsSeq(s)
  PROVE  /\ IsSeq(Ended(s))
         /\ Len(s) \in Nat /\ DOMAIN s = 1 .. Len(s)
         /\ Len(Ended(s)) = Len(s) + 2
         /\ DOMAIN Ended(s) = 1 .. Len(s) + 2
         /\ \A i \in 1 .. Len(s) : Ended(s)[i] = s[i]
         /\ Ended(s)[Len(s) + 1] = "final_response.created"
         /\ Ended(s)[Len(s) + 2] = "completed"
<1> DEFINE v == "final_response.created"  w == "completed"
           T == Elements(s) \cup {v, w}
           u == Said(s, v)
<1>1. s \in Seq(T) /\ <<v>> \in Seq(T) /\ <<w>> \in Seq(T)
  <2>1. Elements(s) \subseteq T
    OBVIOUS
  <2>2. QED
    BY <2>1, SeqMonotonic DEF IsSeq
<1> HIDE DEF T
<1>2. (s \o <<v>>) \o <<w>> = s \o (<<v>> \o <<w>>)
  BY <1>1, ConcatAssociative
<1>3. <<v>> \o <<w>> = <<v, w>>
  <2>1. <<v>> \in Seq({v, w}) /\ w \in {v, w}
    OBVIOUS
  <2>2. Append(<<v>>, w) = <<v>> \o <<w>>
    BY <2>1, AppendIsConcat
  <2>3. Append(<<v>>, w) = <<v, w>>
    <3>1. /\ Append(<<v>>, w) \in Seq({v, w}) /\ Len(Append(<<v>>, w)) = 2
          /\ Append(<<v>>, w)[1] = v /\ Append(<<v>>, w)[2] = w
      BY <2>1, AppendProperties
    <3>2. <<v, w>> \in Seq({v, w}) /\ Len(<<v, w>>) = 2 /\ <<v, w>>[1] = v /\ <<v, w>>[2] = w
      OBVIOUS
    <3>3. \A i \in 1 .. 2 : Append(<<v>>, w)[i] = <<v, w>>[i]
      BY <3>1, <3>2
    <3>4. QED
      BY <3>1, <3>2, <3>3, SeqEqual
  <2>4. QED
    BY <2>2, <2>3
<1>4. Ended(s) = Said(u, w)
  BY <1>2, <1>3 DEF Said, Ended
<1>5. /\ IsSeq(u) /\ Len(s) \in Nat /\ DOMAIN s = 1 .. Len(s)
      /\ Len(u) = Len(s) + 1 /\ u[Len(s) + 1] = v
      /\ \A i \in 1 .. Len(s) : u[i] = s[i]
  BY OneMoreWord
<1> HIDE DEF u, v, w
<1>6. /\ IsSeq(Said(u, w)) /\ Len(Said(u, w)) = Len(u) + 1
      /\ DOMAIN Said(u, w) = 1 .. Len(u) + 1
      /\ \A i \in 1 .. Len(u) : Said(u, w)[i] = u[i]
      /\ Said(u, w)[Len(u) + 1] = w
  BY <1>5, OneMoreWord
<1>7. v = "final_response.created" /\ w = "completed"
  BY DEF v, w
<1>8. QED
  BY <1>4, <1>5, <1>6, <1>7

\* Observers hear that a flow has begun before it hands off anything.
LEMMA BeginIsHeard ==
  ASSUME FlowInv, ObserverInv, NEW f \in Flows, Begin(f)
  PROVE  Followed(f)'
<1>1. PICK asked \in Requests :
        /\ phase[f] = "idle" /\ request' = [request EXCEPT ![f] = asked]
        /\ phase' = [phase EXCEPT ![f] = "calling"]
        /\ events' = [events EXCEPT ![f] = Said(events[f], "started")]
        /\ handoffs' = handoffs /\ subtasks' = subtasks
  BY DEF Begin, Goto, Notify, Said
<1>2. /\ phase'[f] = "calling" /\ request'[f] = asked
      /\ events'[f] = Said(events[f], "started")
  BY <1>1 DEF FlowInv, TypeOK, Shape, ObserverInv
<1>3. Len(handoffs[f]) = 0 /\ Len(events[f]) = 0 /\ Followed(f)
  BY <1>1, AppendKeeps DEF FlowInv, TypeOK, Shape, Asked, ObserverInv, Followed, Told
<1>4. /\ IsSeq(events'[f]) /\ Len(events'[f]) = 1 /\ DOMAIN events'[f] = 1 .. 1
      /\ DOMAIN events[f] = {} /\ events'[f][1] = "started"
  <2>1. IsSeq(events[f])
    BY <1>3 DEF Followed
  <2>2. /\ IsSeq(events'[f]) /\ Len(events'[f]) = Len(events[f]) + 1
        /\ DOMAIN events[f] = 1 .. Len(events[f])
        /\ DOMAIN events'[f] = 1 .. Len(events[f]) + 1
        /\ events'[f][Len(events[f]) + 1] = "started"
    BY <1>2, <2>1, OneMoreWord
  <2>3. QED
    BY <1>3, <2>2
<1>5. Asked(f)' \in Nat
  BY <1>2, CoordinatorFlowAssumption DEF Asked
<1>6. Told(f)'
  BY <1>1, <1>2, <1>3, <1>4, <1>5 DEF Told, Word
<1>7. Given(f)' = Given(f) /\ Heard(f)' = Heard(f)
  BY <1>1, <1>4 DEF Given, Heard
<1>8. Counted(f)'
  BY <1>1, <1>2, <1>3, <1>7 DEF Followed, Counted
<1>9. QED
  BY <1>4, <1>6, <1>8 DEF Followed

\* A handoff is heard of, and it is one the delegator had not been given: its
\* correlation id is new (start_worker_tool_handoff, emit_observer_event).
LEMMA HandoffIsHeard ==
  ASSUME FlowInv, ObserverInv, NEW f \in Flows, StartHandoff(f)
  PROVE  Followed(f)'
<1> DEFINE n == Len(handoffs[f])  l == Len(events[f])
<1>1. /\ handoffs' = [handoffs EXCEPT ![f] = Append(handoffs[f], EnvelopeOf(f, Call(f)))]
      /\ subtasks' = subtasks \cup {SubtaskOf(f, Call(f))}
      /\ phase[f] = "calling" /\ phase' = [phase EXCEPT ![f] = "waiting"]
      /\ Call(f) <= Len(request[f].tools)
      /\ events' = [events EXCEPT ![f] = Said(events[f], "handoff_started")]
      /\ request' = request
  BY NextHandoffIsACall DEF StartHandoff, CallsLeft, Goto, SubtaskOf, Notify, Said
<1>2. /\ phase'[f] = "waiting" /\ events'[f] = Said(events[f], "handoff_started")
      /\ handoffs'[f] = Append(handoffs[f], EnvelopeOf(f, Call(f)))
      /\ Followed(f) /\ IsSeq(handoffs[f])
  BY <1>1 DEF FlowInv, TypeOK, Shape, ObserverInv
<1>3. /\ n \in Nat /\ DOMAIN handoffs[f] = 1 .. n
      /\ Len(handoffs'[f]) = n + 1 /\ DOMAIN handoffs'[f] = 1 .. n + 1
      /\ \A i \in 1 .. n : handoffs'[f][i] = handoffs[f][i]
      /\ handoffs'[f][n + 1] = EnvelopeOf(f, n + 1)
  BY <1>2, AppendKeeps DEF Call
<1>4. /\ IsSeq(events'[f]) /\ l \in Nat /\ DOMAIN events[f] = 1 .. l
      /\ Len(events'[f]) = l + 1 /\ DOMAIN events'[f] = 1 .. l + 1
      /\ \A i \in 1 .. l : events'[f][i] = events[f][i]
      /\ events'[f][l + 1] = "handoff_started"
  <2>1. IsSeq(events[f])
    BY <1>2 DEF Followed
  <2>2. QED
    BY <1>2, <2>1, OneMoreWord
<1>5. Asked(f)' = Asked(f) /\ Asked(f) = Len(request[f].tools) /\ Asked(f) \in Nat
  BY <1>1, <1>2, CoordinatorFlowAssumption DEF Asked, Followed, Told, FlowInv, TypeOK
<1>6. n + 1 <= Asked(f) /\ l = 2 * n + 1
  BY <1>1, <1>2, <1>5 DEF Call, Followed, Told
<1> HIDE DEF n, l
<1>7. Told(f)'
  <2>1. Word(Asked(f), l + 1) = "handoff_started"
    BY <1>3, <1>5, <1>6 DEF Word
  <2>2. \A i \in 1 .. l + 1 : events'[f][i] = Word(Asked(f), i)
    BY <1>2, <1>4, <2>1 DEF Followed, Told
  <2>3. QED
    BY <1>2, <1>3, <1>4, <1>5, <1>6, <2>2 DEF Told
<1>8. Heard(f)' = Heard(f) \cup {l + 1} /\ l + 1 \notin Heard(f)
  BY <1>4 DEF Heard
<1>9. Given(f)' = Given(f) \cup {SubtaskOf(f, n + 1)}
  BY <1>1 DEF Given, SubtaskOf, Call, n
<1>10. SubtaskOf(f, n + 1) \notin Given(f)
  <2> SUFFICES ASSUME SubtaskOf(f, n + 1) \in Given(f) PROVE FALSE
    OBVIOUS
  <2>1. PICK i \in DOMAIN handoffs[f] : SubtaskOf(f, n + 1).envelope = handoffs[f][i]
    BY <1>1, <1>2 DEF Followed, Counted
  <2>2. EnvelopeOf(f, n + 1) = EnvelopeOf(f, i)
    BY <2>1 DEF SubtaskOf, FlowInv, HandoffsAreCalls
  <2>3. n + 1 = i
    BY <1>3, <2>2, CorrelationTellsTheCall
  <2>4. QED
    BY <1>3, <2>3
<1>11. Counted(f)'
  <2>1. /\ IsFiniteSet(Given(f)') /\ Cardinality(Given(f)') = Cardinality(Given(f)) + 1
        /\ IsFiniteSet(Heard(f)') /\ Cardinality(Heard(f)') = Cardinality(Heard(f)) + 1
    BY <1>2, <1>8, <1>9, <1>10, FS_AddElement DEF Followed, Counted
  <2>2. Cardinality(Given(f)) = Cardinality(Heard(f))
    BY <1>1, <1>2 DEF Followed, Counted
  <2>3. ASSUME NEW subtask \in Given(f)'
        PROVE  \E i \in DOMAIN handoffs'[f] : subtask.envelope = handoffs'[f][i]
    <3>1. CASE subtask \in Given(f)
      <4>1. PICK i \in DOMAIN handoffs[f] : subtask.envelope = handoffs[f][i]
        BY <1>1, <1>2, <3>1 DEF Followed, Counted
      <4>2. QED
        BY <1>3, <4>1
    <3>2. CASE subtask = SubtaskOf(f, n + 1)
      BY <1>3, <3>2 DEF SubtaskOf
    <3>3. QED
      BY <2>3, <1>9, <3>1, <3>2
  <2>4. QED
    BY <2>1, <2>2, <2>3 DEF Counted
<1>12. QED
  BY <1>4, <1>7, <1>11 DEF Followed

\* A result is heard of, and nothing is given out with it.
LEMMA ResultIsHeard ==
  ASSUME FlowInv, ObserverInv, NEW f \in Flows, ReceiveResult(f)
  PROVE  Followed(f)'
<1> DEFINE n == Len(handoffs[f])  l == Len(events[f])
<1>1. /\ phase[f] = "waiting" /\ phase'[f] = "calling"
      /\ events'[f] = Said(events[f], "result_received")
      /\ request' = request /\ handoffs' = handoffs /\ subtasks' = subtasks
      /\ Followed(f) /\ IsSeq(handoffs[f])
  BY DEF ReceiveResult, Waiting, Goto, Notify, Said, FlowInv, TypeOK, Shape, ObserverInv
<1>2. n \in Nat /\ n >= 1 /\ n <= Asked(f) /\ Asked(f) \in Nat /\ Asked(f)' = Asked(f)
  <2>1. n \in Nat /\ Len(results[f]) \in Nat
    BY <1>1, AppendKeeps DEF FlowInv, Shape
  <2>2. Len(results[f]) + 1 = n /\ n <= Asked(f)
    BY <1>1 DEF FlowInv, TypeOK
  <2>3. QED
    BY <1>1, <2>1, <2>2 DEF Followed, Told, Asked
<1>3. /\ IsSeq(events'[f]) /\ l \in Nat /\ DOMAIN events[f] = 1 .. l
      /\ Len(events'[f]) = l + 1 /\ DOMAIN events'[f] = 1 .. l + 1
      /\ \A i \in 1 .. l : events'[f][i] = events[f][i]
      /\ events'[f][l + 1] = "result_received"
  <2>1. IsSeq(events[f])
    BY <1>1 DEF Followed
  <2>2. QED
    BY <1>1, <2>1, OneMoreWord
<1>4. l = 2 * n
  BY <1>1 DEF Followed, Told
<1> HIDE DEF n, l
<1>5. Told(f)'
  <2>1. Word(Asked(f), l + 1) = "result_received"
    BY <1>2, <1>4 DEF Word
  <2>2. \A i \in 1 .. l + 1 : events'[f][i] = Word(Asked(f), i)
    BY <1>1, <1>3, <2>1 DEF Followed, Told
  <2>3. n = Len(handoffs[f])
    BY DEF n
  <2>4. QED
    BY <1>1, <1>2, <1>3, <1>4, <2>2, <2>3 DEF Told
<1>6. Given(f)' = Given(f) /\ Heard(f)' = Heard(f)
  BY <1>1, <1>3 DEF Given, Heard
<1>7. Counted(f)'
  BY <1>1, <1>6 DEF Followed, Counted
<1>8. QED
  BY <1>3, <1>5, <1>7 DEF Followed

\* The final response ends the story.
LEMMA ResponseIsHeard ==
  ASSUME FlowInv, ObserverInv, NEW f \in Flows, Compose(f)
  PROVE  Followed(f)'
<1> DEFINE n == Len(handoffs[f])  l == Len(events[f])
<1>1. /\ phase[f] = "calling" /\ phase'[f] = "completed"
      /\ events'[f] = Ended(events[f])
      /\ request' = request /\ handoffs' = handoffs /\ subtasks' = subtasks
      /\ Len(handoffs[f]) = Len(request[f].tools)
      /\ Followed(f) /\ IsSeq(handoffs[f])
  BY DEF Compose, AllAnswered, Goto, Notify, Ended, FlowInv, TypeOK, Shape, ObserverInv
<1>2. n \in Nat /\ n = Asked(f) /\ Asked(f)' = Asked(f)
  BY <1>1, CoordinatorFlowAssumption, AppendKeeps DEF Asked, FlowInv, TypeOK
<1>3. /\ IsSeq(events'[f]) /\ l \in Nat /\ DOMAIN events[f] = 1 .. l
      /\ Len(events'[f]) = l + 2 /\ DOMAIN events'[f] = 1 .. l + 2
      /\ \A i \in 1 .. l : events'[f][i] = events[f][i]
      /\ events'[f][l + 1] = "final_response.created" /\ events'[f][l + 2] = "completed"
  <2>1. IsSeq(events[f])
    BY <1>1 DEF Followed
  <2>2. QED
    BY <1>1, <2>1, TheEnd, ZenonT(40)
<1>4. l = 2 * n + 1
  BY <1>1 DEF Followed, Told
<1> HIDE DEF n, l
<1>5. Told(f)'
  <2>1. Word(Asked(f), l + 1) = "final_response.created" /\ Word(Asked(f), l + 2) = "completed"
    BY <1>2, <1>4 DEF Word
  <2>2. \A i \in 1 .. l + 2 : events'[f][i] = Word(Asked(f), i)
    BY <1>1, <1>3, <2>1, SMTT(30) DEF Followed, Told
  <2>3. QED
    BY <1>1, <1>2, <1>3, <1>4, <2>2, SMTT(30) DEF Told
<1>6. Given(f)' = Given(f) /\ Heard(f)' = Heard(f)
  <2>1. \A i \in 1 .. l + 2 : i \in 1 .. l \/ i = l + 1 \/ i = l + 2
    BY <1>3
  <2>2. \A i : i \in Heard(f)' <=> i \in 1 .. l + 2 /\ events'[f][i] = "handoff_started"
    BY <1>3 DEF Heard
  <2>3. \A i : i \in Heard(f) <=> i \in 1 .. l /\ events[f][i] = "handoff_started"
    BY <1>3 DEF Heard
  <2>4. \A i : i \in Heard(f)' <=> i \in Heard(f)
    BY <2>1, <2>2, <2>3, <1>3
  <2>5. QED
    BY <2>4, <1>1 DEF Given
<1>7. Counted(f)'
  BY <1>1, <1>6 DEF Followed, Counted
<1>8. QED
  BY <1>3, <1>5, <1>7 DEF Followed

\* Whatever a flow does next, its observers and the delegator stay in step.
LEMMA ObserverInvStep == FlowInv /\ ObserverInv /\ [Next]_vars => ObserverInv'
<1> SUFFICES ASSUME FlowInv, ObserverInv, [Next]_vars PROVE ObserverInv'
  OBVIOUS
<1>1. CASE UNCHANGED vars
  <2>1. ASSUME NEW f \in Flows PROVE Followed(f)'
    <3>1. Given(f)' = Given(f) /\ Heard(f)' = Heard(f) /\ Asked(f)' = Asked(f)
      BY <1>1 DEF vars, Given, Heard, Asked
    <3>2. UNCHANGED <<phase, events, handoffs>> /\ Followed(f)
      BY <1>1 DEF vars, ObserverInv
    <3>3. QED
      BY <3>1, <3>2 DEF Followed, Told, Counted
  <2>2. QED
    BY <1>1, <2>1 DEF vars, ObserverInv
<1>2. ASSUME NEW f \in Flows, FlowStep(f) PROVE ObserverInv'
  <2>1. DOMAIN events' = Flows
    BY <1>2 DEF FlowStep, Begin, Reject, StartHandoff, RefuseHandoff, DelegatorFails, ReceiveResult,
                RefuseResult, WorkerFails, Compose, RefuseResponse, Fail, Notify, ObserverInv
  <2>2. Followed(f)'
    <3>1. CASE Begin(f)
      BY <3>1, BeginIsHeard
    <3>2. CASE Reject(f)
      BY <3>2, FailingIsSilent DEF Reject
    <3>3. CASE StartHandoff(f)
      BY <3>3, HandoffIsHeard
    <3>4. CASE RefuseHandoff(f)
      BY <3>4, FailingIsSilent DEF RefuseHandoff, CallsLeft
    <3>5. CASE DelegatorFails(f)
      BY <3>5, FailingIsSilent, NextHandoffIsACall DEF DelegatorFails, SubtaskOf, CallsLeft
    <3>6. CASE ReceiveResult(f)
      BY <3>6, ResultIsHeard
    <3>7. CASE RefuseResult(f)
      BY <3>7, FailingIsSilent DEF RefuseResult, Waiting
    <3>8. CASE WorkerFails(f)
      BY <3>8, FailingIsSilent DEF WorkerFails, Waiting
    <3>9. CASE Compose(f)
      BY <3>9, ResponseIsHeard
    <3>10. CASE RefuseResponse(f)
      BY <3>10, FailingIsSilent DEF RefuseResponse, AllAnswered
    <3>11. QED
      BY <1>2, <3>1, <3>2, <3>3, <3>4, <3>5, <3>6, <3>7, <3>8, <3>9, <3>10 DEF FlowStep
  <2>3. \A g \in Flows : Followed(g)'
    BY <1>2, <2>2, OthersKeepTheirStory
  <2>4. QED
    BY <2>1, <2>3 DEF ObserverInv
<1>3. QED
  BY <1>1, <1>2 DEF Next, Terminating

-----------------------------------------------------------------------------
\* In every state of every flow the invariant holds.
LEMMA FlowInvariant == Spec => []FlowInv
BY FlowInvInit, FlowInvStep, PTL DEF Spec

\* Results never run ahead of handoffs nor handoffs of the calls asked for, and
\* a flow waits for the result of its last handoff.
THEOREM FlowTypeCorrect == Spec => []TypeOK
<1>1. FlowInv => TypeOK
  BY DEF FlowInv
<1>2. QED
  BY <1>1, FlowInvariant, PTL

\* A result is only taken for the very call it was made for, however many flows
\* share the runtime and whatever the result provider mixes up
\* (validate_worker_tool_result).
THEOREM ResultsReachTheirCalls == Spec => []ResultsAnswerTheirCalls
<1>1. FlowInv => ResultsAnswerTheirCalls
  BY DEF FlowInv
<1>2. QED
  BY <1>1, FlowInvariant, PTL

\* The final response of a completed flow rests on exactly its own subtasks,
\* each once and in the order of the calls (compose_final_response).
THEOREM ResponsesAreBacked == Spec => []FinalResponsesAreBacked
<1>1. FlowInv => FinalResponsesAreBacked
  BY DEF FlowInv
<1>2. QED
  BY <1>1, FlowInvariant, PTL

\* Observers hear of every handoff the delegator has, in order and up to the
\* final response; only the last act of a flow that failed may go unheard
\* (emit_observer_event in run_agentic_coordinator_flow).
THEOREM ObserversHearEverything == Spec => []ObserversFollowTheFlow
<1>1. Init => ObserverInv
  BY ObserverInvInit
<1>2. FlowInv /\ ObserverInv /\ [Next]_vars => ObserverInv'
  BY ObserverInvStep
<1>3. FlowInv /\ ObserverInv => ObserversFollowTheFlow
  BY FollowedIsFollowing
<1>4. QED
  BY <1>1, <1>2, <1>3, FlowInvariant, PTL DEF Spec
=============================================================================
