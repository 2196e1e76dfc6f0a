------------------------ MODULE OperalaBridgeProofs ------------------------
(***************************************************************************)
(* The safety of OperalaBridge for any number of servers, any requests and *)
(* any size of the pool: answers are true, given once, and only stops lose *)
(* requests.                                                               *)
(***************************************************************************)
EXTENDS OperalaBridge, SequenceTheorems, TLAPS

\* A message is as far as its response says it is.
ResponsesAreSettled ==
  \A i \in DOMAIN responses : At(responses[i].server, responses[i].message, "answered")

RanFor(s, message) == \E run \in ran : run.server = s /\ run.message = message

\* A run that is under way, or has answered ok, has begun.
RunsHaveBegun ==
  \A s \in Servers, message \in Messages :
    At(s, message, "running") \/ outcome[s][message] = "ok" => RanFor(s, message)

\* A server that does not serve has been stopped.
IdleServersWereStopped == \A s \in Servers : server[s] # "serving" => stops[s] > 0

BridgeInv ==
  /\ TypeOK
  /\ ResponsesAreSettled
  /\ RunsHaveBegun
  /\ IdleServersWereStopped
  /\ AnswersAreTrue
  /\ AnsweredOnce
  /\ OnlyStopsLoseRequests

-----------------------------------------------------------------------------
\* The states messages can be in before and after Dropped.
LEMMA DroppedStates ==
  ASSUME NEW states \in [Messages -> HandlerStates]
  PROVE  /\ Dropped(states) \in [Messages -> HandlerStates]
         /\ \A message \in Messages :
              /\ (Dropped(states)[message] = "answered") = (states[message] = "answered")
              /\ (Dropped(states)[message] = "unsent") = (states[message] = "unsent")
              /\ Dropped(states)[message] # "running"
<1>1. Dropped(states) \in [Messages -> HandlerStates]
  BY DEF Dropped, HandlerStates
<1>2. ASSUME NEW message \in Messages
      PROVE  /\ (Dropped(states)[message] = "answered") = (states[message] = "answered")
             /\ (Dropped(states)[message] = "unsent") = (states[message] = "unsent")
             /\ Dropped(states)[message] # "running"
  BY DEF Dropped, HandlerStates
<1> QED
  BY <1>1, <1>2

\* Only messages that were sent are with a handler.
LEMMA DeliveredWasSent ==
  ASSUME TypeOK, NEW s \in Servers, NEW message \in Messages, handler[s][message] # "unsent"
  PROVE  message \in DOMAIN sent
<1>1. sent \in Seq(Requests) /\ Len(sent) \in Nat /\ DOMAIN sent = 1..Len(sent)
  BY DEF TypeOK
<1>2. message \in Nat /\ message >= 1 /\ message <= Len(sent)
  BY <1>1, BridgeAssumption DEF TypeOK, At, Messages
<1> QED
  BY <1>1, <1>2

\* Servers and messages of a step that only moves one handler.
LEMMA MovedHandler ==
  ASSUME TypeOK, NEW s \in Servers, NEW message \in Messages, NEW state \in HandlerStates,
         handler[s][message] # "unsent", state # "unsent",
         Move(s, message, state)
  PROVE  /\ handler' \in [Servers -> [Messages -> HandlerStates]]
         /\ handler'[s][message] = state
         /\ \A t \in Servers, other \in Messages :
              (t # s \/ other # message) => handler'[t][other] = handler[t][other]
         /\ \A t \in Servers, other \in Messages :
              (handler'[t][other] = "unsent") = (other > Len(sent))
BY DEF TypeOK, Move, At

-----------------------------------------------------------------------------
\* The types hold at first.
LEMMA TypeInitially == Init => TypeOK
<1> SUFFICES ASSUME Init PROVE TypeOK
  OBVIOUS
<1>1. sent = <<>> /\ Len(sent) = 0 /\ sent \in Seq(Requests) /\ responses \in Seq(Responses)
  BY DEF Init
<1>2. Len(sent) <= MaxSends /\ MaxSends \in Nat /\ MaxStops \in Nat
  BY <1>1, BridgeAssumption
<1>3. \A s \in Servers, message \in Messages : At(s, message, "unsent") = (message > Len(sent))
  BY <1>1, <1>2 DEF Init, At, Messages
<1> QED
  BY <1>1, <1>2, <1>3 DEF Init, TypeOK, HandlerStates, Outcomes

\* A step of one handler that leaves the rest of the world alone.
LEMMA HandlerStepKeepsTypes ==
  ASSUME TypeOK, NEW s \in Servers, NEW message \in Messages, NEW state \in HandlerStates,
         handler[s][message] # "unsent", state # "unsent",
         Move(s, message, state), outcome' \in [Servers -> [Messages -> Outcomes]],
         UNCHANGED <<sent, server, stops, responses>>
  PROVE  TypeOK'
BY MovedHandler DEF TypeOK, At

\* Every step keeps the types.
LEMMA TypeStep == TypeOK /\ [Next]_vars => TypeOK'
<1> SUFFICES ASSUME TypeOK, [Next]_vars PROVE TypeOK'
  OBVIOUS
<1>a. MaxSends \in Nat /\ MaxStops \in Nat
  BY BridgeAssumption
<1>1. CASE Send
  <2>1. PICK request \in Requests : sent' = Append(sent, request)
    BY <1>1 DEF Send
  <2>2. sent \in Seq(Requests) /\ Len(sent) \in Nat /\ Len(sent) < MaxSends
    BY <1>1 DEF Send, TypeOK
  <2>3. sent' \in Seq(Requests) /\ Len(sent') = Len(sent) + 1 /\ DOMAIN sent \subseteq DOMAIN sent'
    BY <2>1, <2>2, AppendProperties
  <2>4. handler' \in [Servers -> [Messages -> HandlerStates]]
    BY <1>1 DEF Send, TypeOK, HandlerStates
  <2>5. ASSUME NEW s \in Servers, NEW message \in Messages
        PROVE  (handler'[s][message] = "unsent") = (message > Len(sent'))
    <3>1. CASE message = Len(sent) + 1
      BY <3>1, <1>1, <2>2, <2>3 DEF Send, TypeOK
    <3>2. CASE message # Len(sent) + 1
      <4>1. handler'[s][message] = handler[s][message]
        BY <3>2, <1>1, <2>2 DEF Send, TypeOK
      <4>2. (handler[s][message] = "unsent") = (message > Len(sent))
        BY DEF TypeOK, At
      <4>3. message \in Nat
        BY <1>a DEF Messages
      <4> QED
        BY <4>1, <4>2, <4>3, <3>2, <2>2, <2>3
    <3> QED
      BY <3>1, <3>2
  <2> QED
    BY <1>1, <1>a, <2>2, <2>3, <2>4, <2>5 DEF Send, TypeOK, At
<1>2. ASSUME NEW s \in Servers, TakeNext(s) PROVE TypeOK'
  <2>1. PICK message \in Messages : At(s, message, "queued") /\ Move(s, message, "spawned")
    BY <1>2 DEF TakeNext
  <2> QED
    BY <1>2, <2>1, HandlerStepKeepsTypes DEF TakeNext, HandlerStates, At, TypeOK
<1>3. ASSUME NEW s \in Servers, StopSignal(s) \/ Crash(s) PROVE TypeOK'
  <2>1. handler[s] \in [Messages -> HandlerStates]
    BY DEF TypeOK
  <2>2. stops' \in [Servers -> 0..MaxStops] /\ server' \in [Servers -> {"serving", "draining", "down"}]
    <3>1. stops[s] \in Nat /\ stops[s] < MaxStops /\ stops' = [stops EXCEPT ![s] = stops[s] + 1]
      BY <1>3, <1>a DEF StopSignal, Crash, TypeOK
    <3>2. stops[s] + 1 \in 0..MaxStops
      BY <3>1, <1>a
    <3>3. stops' \in [Servers -> 0..MaxStops]
      BY <3>1, <3>2 DEF TypeOK
    <3>4. server' \in [Servers -> {"serving", "draining", "down"}]
      BY <1>3 DEF StopSignal, Crash, TypeOK
    <3> QED
      BY <3>3, <3>4
  <2>3. PICK states \in [Messages -> HandlerStates] :
          /\ handler' = [handler EXCEPT ![s] = states]
          /\ \A message \in Messages : (states[message] = "unsent") = (handler[s][message] = "unsent")
    <3>1. CASE StopSignal(s)
      BY <3>1, <2>1, DroppedStates DEF StopSignal
    <3>2. CASE Crash(s)
      <4> DEFINE states == [message \in Messages |->
                              IF Dropped(handler[s])[message] = "orphaned"
                                THEN "lost" ELSE Dropped(handler[s])[message]]
      <4>1. handler' = [handler EXCEPT ![s] = states]
        BY <3>2 DEF Crash
      <4>2. states \in [Messages -> HandlerStates]
        BY <2>1, DroppedStates DEF HandlerStates
      <4>3. \A message \in Messages : (states[message] = "unsent") = (handler[s][message] = "unsent")
        BY <2>1, DroppedStates
      <4> QED
        BY <4>1, <4>2, <4>3
    <3> QED
      BY <1>3, <3>1, <3>2
  <2>4. handler' \in [Servers -> [Messages -> HandlerStates]]
    BY <2>3 DEF TypeOK
  <2>5. \A t \in Servers, message \in Messages :
          (handler'[t][message] = "unsent") = (handler[t][message] = "unsent")
    BY <2>3 DEF TypeOK
  <2>6. UNCHANGED <<sent, outcome, responses>>
    BY <1>3 DEF StopSignal, Crash
  <2> QED
    BY <2>2, <2>4, <2>5, <2>6 DEF TypeOK, At
<1>4. ASSUME NEW s \in Servers, Exit(s) \/ Start(s) PROVE TypeOK'
  <2>1. server' \in [Servers -> {"serving", "draining", "down"}]
    BY <1>4 DEF Exit, Start, TypeOK
  <2>2. UNCHANGED <<sent, stops, handler, outcome, responses>>
    BY <1>4 DEF Exit, Start
  <2> QED
    BY <2>1, <2>2 DEF TypeOK, At
<1>5. ASSUME NEW s \in Servers, NEW message \in Messages, DecodeFails(s, message) PROVE TypeOK'
  <2>1. Move(s, message, "dropped")
    BY <1>5 DEF DecodeFails, AfterBadRequest, Move
  <2> QED
    BY <1>5, <2>1, HandlerStepKeepsTypes DEF DecodeFails, HandlerStates, At, TypeOK
<1>6. ASSUME NEW s \in Servers, NEW message \in Messages,
             \/ Decode(s, message) \/ BeginRun(s, message) \/ PublishResponse(s, message)
             \/ PublishFails(s, message) \/ OrphanReturns(s, message)
      PROVE  TypeOK'
  <2>1. PICK state \in {"invoking", "running", "buffered", "unpublished", "lost"} :
          Move(s, message, state)
    BY <1>6 DEF Decode, BeginRun, PublishResponse, PublishFails, OrphanReturns
  <2>2. handler[s][message] # "unsent" /\ UNCHANGED <<sent, server, stops, outcome, responses>>
    BY <1>6 DEF Decode, BeginRun, PublishResponse, PublishFails, OrphanReturns, At
  <2> QED
    BY <2>1, <2>2, HandlerStepKeepsTypes DEF HandlerStates, TypeOK
<1>7. ASSUME NEW s \in Servers, NEW message \in Messages,
             Refuse(s, message) \/ RunReturns(s, message)
      PROVE  TypeOK'
  <2>1. PICK result \in {"ok", "not_ok", "error"} : Answer(s, message, result)
    BY <1>7 DEF Refuse, RunReturns
  <2>2. handler[s][message] # "unsent" /\ UNCHANGED <<sent, server, stops, responses>>
    BY <1>7 DEF Refuse, RunReturns, At
  <2>3. outcome' \in [Servers -> [Messages -> Outcomes]]
    BY <2>1 DEF Answer, Outcomes, TypeOK
  <2> QED
    BY <2>1, <2>2, <2>3, HandlerStepKeepsTypes DEF Answer, HandlerStates
<1>8. ASSUME NEW s \in Servers, NEW message \in Messages, Flush(s, message) PROVE TypeOK'
  <2>1. message \in DOMAIN sent
    BY <1>8, DeliveredWasSent DEF Flush, At
  <2>2. Response(s, message) \in Responses
    BY <2>1, ElementOfSeq DEF Response, Responses, Echoed, Request, TypeOK
  <2>3. /\ responses' \in Seq(Responses)
        /\ \A i \in DOMAIN responses' : responses'[i].message \in DOMAIN sent
    BY <1>8, <2>1, <2>2, AppendProperties DEF Flush, Response, TypeOK
  <2>4. handler[s][message] # "unsent" /\ Move(s, message, "answered")
    BY <1>8 DEF Flush, At, AfterFlush
  <2>5. /\ handler' \in [Servers -> [Messages -> HandlerStates]]
        /\ \A t \in Servers, other \in Messages :
             (handler'[t][other] = "unsent") = (other > Len(sent))
    BY <2>4, MovedHandler DEF HandlerStates
  <2> QED
    BY <1>8, <2>3, <2>5 DEF Flush, TypeOK, At
<1>9. CASE Quiet \/ UNCHANGED vars
  BY <1>9 DEF Quiet, vars, TypeOK, At
<1> QED
  BY <1>1, <1>2, <1>3, <1>4, <1>5, <1>6, <1>7, <1>8, <1>9 DEF Next, Handle

-----------------------------------------------------------------------------
(* What no step takes back: a message sent, a run begun, an answer given.  *)

\* A message that was sent keeps its request.
LEMMA SentStays ==
  ASSUME TypeOK, [Next]_vars, NEW message \in DOMAIN sent
  PROVE  message \in DOMAIN sent' /\ Request(message)' = Request(message)
<1>1. CASE Send
  <2>1. PICK request \in Requests : sent' = Append(sent, request)
    BY <1>1 DEF Send
  <2>2. sent \in Seq(Requests)
    BY DEF TypeOK
  <2>3. message \in 1..Len(sent) /\ Len(sent) \in Nat
    BY <2>2
  <2> QED
    BY <2>1, <2>2, <2>3, AppendProperties DEF Request
<1>2. CASE UNCHANGED sent
  BY <1>2 DEF Request
<1> QED
  BY <1>1, <1>2 DEF Next, Handle, TakeNext, StopSignal, Exit, Crash, Start, DecodeFails,
     Decode, Refuse, BeginRun, PublishResponse, Flush, RunReturns, PublishFails,
     OrphanReturns, Quiet, vars

\* A run that began has begun for good.
LEMMA RunsStay == [Next]_vars => ran \subseteq ran'
BY DEF Next, Handle, Send, TakeNext, StopSignal, Exit, Crash, Start, DecodeFails,
   Decode, Refuse, BeginRun, PublishResponse, Flush, RunReturns, PublishFails,
   OrphanReturns, Quiet, vars

\* A step of a handler does not touch the messages that are answered.
LEMMA AnsweredStays ==
  ASSUME TypeOK, [Next]_vars, NEW s \in Servers, NEW message \in Messages,
         At(s, message, "answered")
  PROVE  At(s, message, "answered")' /\ outcome'[s][message] = outcome[s][message]
<1>1. CASE Send
  <2>1. message # Len(sent) + 1
    <3>1. message \in 1..Len(sent) /\ Len(sent) \in Nat
      BY DeliveredWasSent DEF At, TypeOK
    <3> QED
      BY <3>1
  <2> QED
    BY <1>1, <2>1 DEF Send, TypeOK, At
<1>2. ASSUME NEW t \in Servers, StopSignal(t) \/ Crash(t)
      PROVE  At(s, message, "answered")' /\ outcome'[s][message] = outcome[s][message]
  <2>1. handler[t] \in [Messages -> HandlerStates]
    BY DEF TypeOK
  <2>2. outcome' = outcome
    BY <1>2 DEF StopSignal, Crash
  <2>3. CASE s # t
    BY <1>2, <2>2, <2>3 DEF StopSignal, Crash, TypeOK, At
  <2>4. CASE s = t
    <3>1. Dropped(handler[t])[message] = "answered"
      BY <2>1, <2>4, DroppedStates DEF At
    <3>2. CASE StopSignal(t)
      BY <2>2, <2>4, <3>1, <3>2 DEF StopSignal, TypeOK, At
    <3>3. CASE Crash(t)
      BY <2>2, <2>4, <3>1, <3>3 DEF Crash, TypeOK, At
    <3> QED
      BY <1>2, <3>2, <3>3
  <2> QED
    BY <2>3, <2>4
<1>3. ASSUME NEW t \in Servers, TakeNext(t)
      PROVE  At(s, message, "answered")' /\ outcome'[s][message] = outcome[s][message]
  BY <1>3 DEF TakeNext, Move, At, TypeOK
<1>4. ASSUME NEW t \in Servers, NEW other \in Messages, DecodeFails(t, other)
      PROVE  At(s, message, "answered")' /\ outcome'[s][message] = outcome[s][message]
  BY <1>4 DEF DecodeFails, AfterBadRequest, At, TypeOK
<1>5. ASSUME NEW t \in Servers, NEW other \in Messages,
             \/ Decode(t, other) \/ BeginRun(t, other) \/ PublishResponse(t, other)
             \/ PublishFails(t, other) \/ OrphanReturns(t, other) \/ Flush(t, other)
      PROVE  At(s, message, "answered")' /\ outcome'[s][message] = outcome[s][message]
  <2>1. PICK state : handler' = [handler EXCEPT ![t][other] = state]
    BY <1>5 DEF Decode, BeginRun, PublishResponse, PublishFails, OrphanReturns, Flush, Move
  <2>2. handler[t][other] # "answered" /\ outcome' = outcome
    BY <1>5 DEF Decode, BeginRun, PublishResponse, PublishFails, OrphanReturns, Flush, At
  <2> QED
    BY <2>1, <2>2 DEF At, TypeOK
<1>6. ASSUME NEW t \in Servers, NEW other \in Messages, Refuse(t, other) \/ RunReturns(t, other)
      PROVE  At(s, message, "answered")' /\ outcome'[s][message] = outcome[s][message]
  <2>1. PICK result : Answer(t, other, result)
    BY <1>6 DEF Refuse, RunReturns
  <2>2. handler[t][other] # "answered"
    BY <1>6 DEF Refuse, RunReturns, At
  <2> QED
    BY <2>1, <2>2 DEF Answer, Move, At, TypeOK
<1>7. CASE \/ \E t \in Servers : Exit(t) \/ Start(t)
           \/ Quiet \/ UNCHANGED vars
  BY <1>7 DEF Exit, Start, Quiet, vars, At
<1> QED
  BY <1>1, <1>2, <1>3, <1>4, <1>5, <1>6, <1>7 DEF Next, Handle

\* Only a flush adds a response.
LEMMA OnlyFlushResponds ==
  ASSUME [Next]_vars
  PROVE  \/ responses' = responses
         \/ \E s \in Servers, message \in Messages : Flush(s, message)
BY DEF Next, Handle, Send, TakeNext, StopSignal, Exit, Crash, Start, DecodeFails,
   Decode, Refuse, BeginRun, PublishResponse, RunReturns, PublishFails,
   OrphanReturns, Quiet, vars

-----------------------------------------------------------------------------
\* Only a request whose run began is running or came out well.
LEMMA RunsBegunStep ==
  ASSUME TypeOK, RunsHaveBegun, [Next]_vars
  PROVE  RunsHaveBegun'
<1> SUFFICES ASSUME NEW s \in Servers, NEW message \in Messages,
                    At(s, message, "running")' \/ outcome'[s][message] = "ok"
             PROVE  RanFor(s, message)'
  BY DEF RunsHaveBegun
<1>1. RanFor(s, message) => RanFor(s, message)'
  BY RunsStay DEF RanFor
<1>2. CASE At(s, message, "running") \/ outcome[s][message] = "ok"
  BY <1>1, <1>2 DEF RunsHaveBegun
<1>3. CASE ~At(s, message, "running") /\ outcome[s][message] # "ok"
  <2>1. ASSUME NEW t \in Servers, NEW other \in Messages, BeginRun(t, other)
        PROVE  RanFor(s, message)'
    <3>1. s = t /\ message = other
      BY <1>3, <2>1 DEF BeginRun, Move, At, TypeOK
    <3> QED
      <4> DEFINE run == [server |-> t, message |-> other]
      <4>1. run \in ran' /\ run.server = t /\ run.message = other
        BY <2>1 DEF BeginRun
      <4> QED
        BY <3>1, <4>1 DEF RanFor
  <2>2. ASSUME NEW t \in Servers, NEW other \in Messages, Refuse(t, other)
        PROVE  FALSE
    BY <1>3, <2>2 DEF Refuse, Answer, Move, At, TypeOK
  <2>3. ASSUME NEW t \in Servers, NEW other \in Messages, RunReturns(t, other)
        PROVE  RanFor(s, message)'
    <3>1. PICK result \in {"ok", "not_ok", "error"} : Answer(t, other, result)
      BY <2>3 DEF RunReturns
    <3>2. At(t, other, "running")
      BY <2>3 DEF RunReturns
    <3>3. s = t /\ message = other
      BY <1>3, <3>1 DEF Answer, Move, At, TypeOK
    <3> QED
      BY <1>3, <3>2, <3>3
  <2>4. ASSUME NEW t \in Servers, NEW other \in Messages,
               \/ Decode(t, other) \/ PublishResponse(t, other)
               \/ PublishFails(t, other) \/ OrphanReturns(t, other) \/ Flush(t, other)
        PROVE  FALSE
    <3>1. PICK state \in {"invoking", "buffered", "unpublished", "lost", "answered"} :
            handler' = [handler EXCEPT ![t][other] = state]
      BY <2>4 DEF Decode, PublishResponse, PublishFails, OrphanReturns, Flush, Move, AfterFlush
    <3>2. outcome' = outcome
      BY <2>4 DEF Decode, PublishResponse, PublishFails, OrphanReturns, Flush
    <3> QED
      BY <1>3, <3>1, <3>2 DEF At, TypeOK
  <2>5. ASSUME NEW t \in Servers, NEW other \in Messages, DecodeFails(t, other)
        PROVE  FALSE
    BY <1>3, <2>5 DEF DecodeFails, AfterBadRequest, At, TypeOK
  <2>6. ASSUME NEW t \in Servers, StopSignal(t) \/ Crash(t)
        PROVE  FALSE
    <3>1. handler[t] \in [Messages -> HandlerStates]
      BY DEF TypeOK
    <3>2. outcome' = outcome /\ handler'[s][message] = "running"
      BY <1>3, <2>6 DEF StopSignal, Crash, At
    <3>3. CASE s # t
      BY <1>3, <2>6, <3>2, <3>3 DEF StopSignal, Crash, TypeOK, At
    <3>4. CASE s = t
      <4>1. Dropped(handler[t])[message] # "running"
        BY <3>1, DroppedStates
      <4>2. CASE StopSignal(t)
        BY <3>2, <3>4, <4>1, <4>2 DEF StopSignal, TypeOK
      <4>3. CASE Crash(t)
        BY <3>2, <3>4, <4>1, <4>3 DEF Crash, TypeOK
      <4> QED
        BY <2>6, <4>2, <4>3
    <3> QED
      BY <3>3, <3>4
  <2>7. ASSUME NEW t \in Servers, TakeNext(t) PROVE FALSE
    BY <1>3, <2>7 DEF TakeNext, Move, At, TypeOK
  <2>8. CASE Send
    BY <1>3, <2>8 DEF Send, At, TypeOK
  <2>9. CASE \/ \E t \in Servers : Exit(t) \/ Start(t)
             \/ Quiet \/ UNCHANGED vars
    BY <1>3, <2>9 DEF Exit, Start, Quiet, vars, At
  <2> QED
    BY <2>1, <2>2, <2>3, <2>4, <2>5, <2>6, <2>7, <2>8, <2>9 DEF Next, Handle
<1> QED
  BY <1>2, <1>3

\* Handlers end early only where a server was stopped or killed.
LEMMA StopsStep ==
  ASSUME TypeOK, IdleServersWereStopped, OnlyStopsLoseRequests, [Next]_vars
  PROVE  IdleServersWereStopped' /\ OnlyStopsLoseRequests'
<1> DEFINE Harmed(s, message) == handler[s][message] \in {"missed", "lost", "orphaned"}
<1>1. \A s \in Servers : stops[s] \in Nat
  BY BridgeAssumption DEF TypeOK
<1>2. ASSUME NEW t \in Servers, StopSignal(t) \/ Crash(t)
      PROVE  IdleServersWereStopped' /\ OnlyStopsLoseRequests'
  <2>1. \A s \in Servers : stops'[s] \in Nat /\ (s = t => stops'[s] > 0)
                            /\ (s # t => stops'[s] = stops[s])
    BY <1>1, <1>2 DEF StopSignal, Crash, TypeOK
  <2>2. \A s \in Servers : s # t => server'[s] = server[s] /\ handler'[s] = handler[s]
    BY <1>2 DEF StopSignal, Crash, TypeOK
  <2> QED
    BY <2>1, <2>2 DEF IdleServersWereStopped, OnlyStopsLoseRequests
<1>3. CASE Send
  <2>1. ASSUME NEW s \in Servers, NEW message \in Messages, Harmed(s, message)'
        PROVE  stops[s] > 0
    <3>1. CASE Harmed(s, message)
      BY <3>1 DEF OnlyStopsLoseRequests
    <3>2. CASE ~Harmed(s, message)
      <4>1. server[s] # "serving"
        BY <1>3, <2>1, <3>2 DEF Send, TypeOK
      <4> QED
        BY <4>1 DEF IdleServersWereStopped
    <3> QED
      BY <3>1, <3>2
  <2> QED
    BY <1>3, <2>1 DEF Send, IdleServersWereStopped, OnlyStopsLoseRequests
<1>4. ASSUME NEW t \in Servers, Exit(t) \/ Start(t)
      PROVE  IdleServersWereStopped' /\ OnlyStopsLoseRequests'
  BY <1>4 DEF Exit, Start, IdleServersWereStopped, OnlyStopsLoseRequests, TypeOK
<1>5. ASSUME NEW t \in Servers, NEW other \in Messages, NEW state \in HandlerStates,
             handler' = [handler EXCEPT ![t][other] = state],
             state \in {"missed", "lost", "orphaned"} => handler[t][other] = "orphaned",
             UNCHANGED <<server, stops>>
      PROVE  IdleServersWereStopped' /\ OnlyStopsLoseRequests'
  <2>1. ASSUME NEW s \in Servers, NEW message \in Messages, Harmed(s, message)'
        PROVE  Harmed(s, message)
    BY <1>5, <2>1 DEF TypeOK
  <2> QED
    BY <1>5, <2>1 DEF IdleServersWereStopped, OnlyStopsLoseRequests
<1>6. ASSUME NEW t \in Servers, TakeNext(t)
      PROVE  IdleServersWereStopped' /\ OnlyStopsLoseRequests'
  BY <1>5, <1>6 DEF TakeNext, Move, HandlerStates
<1>7. ASSUME NEW t \in Servers, NEW other \in Messages, DecodeFails(t, other)
      PROVE  IdleServersWereStopped' /\ OnlyStopsLoseRequests'
  BY <1>5, <1>7 DEF DecodeFails, AfterBadRequest, HandlerStates
<1>8. ASSUME NEW t \in Servers, NEW other \in Messages,
             \/ Decode(t, other) \/ Refuse(t, other) \/ BeginRun(t, other)
             \/ RunReturns(t, other) \/ PublishResponse(t, other) \/ PublishFails(t, other)
             \/ Flush(t, other)
      PROVE  IdleServersWereStopped' /\ OnlyStopsLoseRequests'
  <2>1. PICK state \in {"invoking", "answering", "running", "buffered", "unpublished", "answered"} :
          handler' = [handler EXCEPT ![t][other] = state]
    BY <1>8 DEF Decode, Refuse, BeginRun, RunReturns, PublishResponse, PublishFails, Flush,
       Answer, Move, AfterFlush
  <2>2. UNCHANGED <<server, stops>>
    BY <1>8 DEF Decode, Refuse, BeginRun, RunReturns, PublishResponse, PublishFails, Flush
  <2> QED
    BY <1>5, <2>1, <2>2 DEF HandlerStates
<1>9. ASSUME NEW t \in Servers, NEW other \in Messages, OrphanReturns(t, other)
      PROVE  IdleServersWereStopped' /\ OnlyStopsLoseRequests'
  BY <1>5, <1>9 DEF OrphanReturns, Move, At, HandlerStates
<1>10. CASE Quiet \/ UNCHANGED vars
  BY <1>10 DEF Quiet, vars, IdleServersWereStopped, OnlyStopsLoseRequests
<1> QED
  BY <1>2, <1>3, <1>4, <1>6, <1>7, <1>8, <1>9, <1>10 DEF Next, Handle

\* The responses of a step: those there were, still true, and at most one more,
\* of a message that had none.
LEMMA ResponsesStep ==
  ASSUME BridgeInv, [Next]_vars
  PROVE  ResponsesAreSettled' /\ AnswersAreTrue' /\ AnsweredOnce'
<1>1. TypeOK /\ ResponsesAreSettled /\ AnswersAreTrue /\ AnsweredOnce /\ RunsHaveBegun
  BY DEF BridgeInv
<1> DEFINE True(response) ==
      LET result == outcome[response.server][response.message]
      IN  /\ response.correlation = Request(response.message).correlation
          /\ response.ok = (result = "ok")
          /\ response.invoke_failed = (result = "error")
          /\ response.ok => RanFor(response.server, response.message)
<1>2. ASSUME NEW response \in Responses, NEW i \in DOMAIN responses, response = responses[i]
      PROVE  /\ At(response.server, response.message, "answered")'
             /\ True(response)'
  <2>1. /\ response.server \in Servers
        /\ response.message \in Messages
        /\ response.message \in DOMAIN sent
    BY <1>1, <1>2 DEF TypeOK, Responses
  <2>2. At(response.server, response.message, "answered")
    BY <1>1, <1>2 DEF ResponsesAreSettled
  <2>3. /\ At(response.server, response.message, "answered")'
        /\ outcome'[response.server][response.message] = outcome[response.server][response.message]
    BY <1>1, <2>1, <2>2, AnsweredStays
  <2>4. Request(response.message)' = Request(response.message)
    BY <1>1, <2>1, SentStays
  <2>5. RanFor(response.server, response.message) => RanFor(response.server, response.message)'
    BY RunsStay DEF RanFor
  <2>6. True(response)
    BY <1>1, <1>2 DEF AnswersAreTrue, RanFor
  <2> QED
    BY <2>3, <2>4, <2>5, <2>6
<1>a. \A i \in DOMAIN responses : responses[i] \in Responses
  BY <1>1, ElementOfSeq DEF TypeOK
<1>b. ASSUME NEW i \in DOMAIN responses, i \in DOMAIN responses', responses'[i] = responses[i]
      PROVE  /\ At(responses[i].server, responses[i].message, "answered")'
             /\ True(responses[i])'
  <2>1. PICK response \in Responses : response = responses[i]
    BY <1>a
  <2>2. At(response.server, response.message, "answered")' /\ True(response)'
    BY <1>2, <2>1
  <2> QED
    BY <1>b, <2>1, <2>2 DEF At, RanFor, Request
<1>3. CASE responses' = responses
  <2>1. ResponsesAreSettled' /\ AnsweredOnce'
    BY <1>1, <1>b, <1>3 DEF ResponsesAreSettled, AnsweredOnce
  <2>2. \A i \in DOMAIN responses' : True(responses[i])'
    BY <1>b, <1>3
  <2>3. AnswersAreTrue'
    BY <2>2 DEF AnswersAreTrue, RanFor
  <2> QED
    BY <2>1, <2>3
<1>4. ASSUME NEW s \in Servers, NEW message \in Messages, Flush(s, message)
      PROVE  ResponsesAreSettled' /\ AnswersAreTrue' /\ AnsweredOnce'
  <2>1. responses \in Seq(Responses) /\ Len(responses) \in Nat
    BY <1>1 DEF TypeOK
  <2>2. message \in DOMAIN sent /\ handler[s][message] = "buffered"
    BY <1>1, <1>4, DeliveredWasSent DEF Flush, At
  <2>3. Response(s, message) \in Responses
    BY <1>1, <2>2, ElementOfSeq DEF Response, Responses, Echoed, Request, TypeOK
  <2> PICK new \in Responses : new = Response(s, message)
    BY <2>3
  <2>4. /\ responses' = Append(responses, new)
        /\ DOMAIN responses = 1..Len(responses)
        /\ DOMAIN responses' = 1..(Len(responses) + 1)
        /\ \A i \in DOMAIN responses : responses'[i] = responses[i]
        /\ responses'[Len(responses) + 1] = new
    BY <1>4, <2>1, <2>3, AppendProperties DEF Flush
  <2>5. new.server = s /\ new.message = message
    BY DEF Response
  <2>6. At(s, message, "answered")'
    BY <1>1, <1>4 DEF Flush, Move, At, AfterFlush, TypeOK
  <2>7. True(new)'
    <3>1. outcome' = outcome /\ ran' = ran /\ sent' = sent
      BY <1>4 DEF Flush
    <3>2. outcome[s][message] = "ok" => RanFor(s, message)
      BY <1>1 DEF RunsHaveBegun
    <3> QED
      BY <3>1, <3>2 DEF Response, Echoed, Request, RanFor
  <2>8. \A i \in DOMAIN responses' : i \in DOMAIN responses \/ i = Len(responses) + 1
    BY <2>1, <2>4
  <2>9. ResponsesAreSettled'
    BY <1>b, <2>4, <2>5, <2>6, <2>8 DEF ResponsesAreSettled
  <2>10. AnswersAreTrue'
    <3>1. ASSUME NEW i \in DOMAIN responses' PROVE True(responses[i])'
      <4>1. CASE i \in DOMAIN responses
        BY <1>b, <2>4, <4>1
      <4>2. CASE i = Len(responses) + 1
        <5>1. responses'[i] = new
          BY <2>4, <4>2
        <5>2. responses[i]' = responses'[i]
          OBVIOUS
        <5> QED
          BY <2>7, <5>1, <5>2
      <4> QED
        BY <2>8, <4>1, <4>2
    <3> QED
      BY <3>1 DEF AnswersAreTrue, RanFor
  <2>11. ASSUME NEW i \in DOMAIN responses
         PROVE  responses[i].server # s \/ responses[i].message # message
    BY <1>1, <2>2 DEF ResponsesAreSettled, At
  <2>12. AnsweredOnce'
    BY <1>1, <2>4, <2>5, <2>8, <2>11 DEF AnsweredOnce
  <2> QED
    BY <2>9, <2>10, <2>12
<1> QED
  BY <1>3, <1>4, OnlyFlushResponds

-----------------------------------------------------------------------------
\* The invariant holds before the first message.
LEMMA InvInitially == Init => BridgeInv
<1> SUFFICES ASSUME Init PROVE BridgeInv
  OBVIOUS
<1>1. TypeOK
  BY TypeInitially
<1>2. DOMAIN responses = {}
  BY DEF Init
<1>3. RunsHaveBegun /\ IdleServersWereStopped /\ OnlyStopsLoseRequests
  BY DEF Init, RunsHaveBegun, IdleServersWereStopped, OnlyStopsLoseRequests, At
<1> QED
  BY <1>1, <1>2, <1>3 DEF BridgeInv, ResponsesAreSettled, AnswersAreTrue, AnsweredOnce

\* Every step keeps the invariant.
LEMMA InvStep == BridgeInv /\ [Next]_vars => BridgeInv'
BY TypeStep, RunsBegunStep, StopsStep, ResponsesStep DEF BridgeInv

\* The variables of every server keep their types, and a message is with a
\* handler exactly when it was sent (run_bridge, handle_message).
THEOREM BridgeTypeCorrect == Spec => []TypeOK
<1>1. BridgeInv => TypeOK
  BY DEF BridgeInv
<1> QED
  BY <1>1, InvInitially, InvStep, PTL DEF Spec

\* However many servers share the subject and however their handlers
\* interleave, stop, crash and start again, every response carries the
\* correlation of its request and the outcome of that server's own run
\* (handle_message, build_response).
THEOREM ResponsesTellTheTruth == Spec => []AnswersAreTrue
<1>1. BridgeInv => AnswersAreTrue
  BY DEF BridgeInv
<1> QED
  BY <1>1, InvInitially, InvStep, PTL DEF Spec

\* No server answers a message twice, across any stops and restarts
\* (handle_message publishes once, run_bridge takes a message once).
THEOREM OneAnswerPerDelivery == Spec => []AnsweredOnce
<1>1. BridgeInv => AnsweredOnce
  BY DEF BridgeInv
<1> QED
  BY <1>1, InvInitially, InvStep, PTL DEF Spec

\* A server that is never stopped nor killed loses no message it was
\* delivered, whatever the others contain (run_bridge goes on after errors).
THEOREM BadRequestsHarmNobody == Spec => []OnlyStopsLoseRequests
<1>1. BridgeInv => OnlyStopsLoseRequests
  BY DEF BridgeInv
<1> QED
  BY <1>1, InvInitially, InvStep, PTL DEF Spec
=============================================================================
