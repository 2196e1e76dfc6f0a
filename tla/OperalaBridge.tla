---------------------------- MODULE OperalaBridge ----------------------------
(***************************************************************************)
(* `greentic-dw serve` (greentic-dw-operala-bridge, lib.rs, and            *)
(* greentic-dw-cli, serve.rs): every server subscribes to the request      *)
(* subject, takes messages in the order they arrive, handles each in a     *)
(* task of its own and publishes a response that echoes the correlation.   *)
(* The deep loop of a request runs on a thread of a bounded pool and       *)
(* cannot be interrupted; a stop signal drops every task at its next       *)
(* await.  What invoke does is DeepWorkerInvoke; here it is its outcome.   *)
(* The NATS broker, its client and the tokio runtime are external.         *)
(***************************************************************************)
EXTENDS Naturals, Sequences, FiniteSets

CONSTANTS
  Servers,                  \* processes running `serve` on one subject
  Requests,                 \* what may be sent, see BridgeAssumption
  BlockingThreads,          \* size of a server's pool of blocking threads
  MaxSends,                 \* bound: messages sent
  MaxStops                  \* bound: stops and crashes of each server

\* Headers are optional: sets of at most one.  A body is undecodable, refused
\* by invoke's checks, or runnable; a slow run may never return.
Bodies == {"malformed", "refused", "runnable", "slow"}
ASSUME BridgeAssumption ==
  /\ \A request \in Requests :
       /\ DOMAIN request = {"correlation", "key", "body"}
       /\ request.body \in Bodies
  /\ BlockingThreads \in Nat \ {0}
  /\ MaxSends \in Nat
  /\ MaxStops \in Nat

VARIABLES
  sent,                     \* messages on the request subject, in order
  server,                   \* state of every server
  stops,                    \* stops and crashes of every server
  handler,                  \* where every server is with every message
  outcome,                  \* what invoke returned to the handler
  responses,                \* messages on the response subject, in order
  ran                       \* deep loops begun, and for which message

vars == <<sent, server, stops, handler, outcome, responses, ran>>

Messages == 1..MaxSends

\* lost: dropped with the process, or never delivered to it.  orphaned: the
\* thread still runs, its task is gone.
HandlerStates == {"unsent", "queued", "spawned", "invoking", "running", "answering",
                  "buffered", "answered", "dropped", "unpublished", "orphaned", "lost", "missed"}

Outcomes == {"none", "ok", "not_ok", "error"}

Request(message) == sent[message]

At(s, message, state) == handler[s][message] = state

Move(s, message, state) == handler' = [handler EXCEPT ![s][message] = state]

-----------------------------------------------------------------------------
Init ==
  /\ sent = <<>>
  /\ server = [s \in Servers |-> "serving"]
  /\ stops = [s \in Servers |-> 0]
  /\ handler = [s \in Servers |-> [message \in Messages |-> "unsent"]]
  /\ outcome = [s \in Servers |-> [message \in Messages |-> "none"]]
  /\ responses = <<>>
  /\ ran = {}

\* A runner sends a request, a new one or one it sent before.  A plain
\* subscription gives every server that listens a copy; the others miss it.
Send ==
  /\ Len(sent) < MaxSends
  /\ \E request \in Requests : sent' = Append(sent, request)
  /\ handler' = [s \in Servers |->
       [handler[s] EXCEPT ![Len(sent) + 1] =
          IF server[s] = "serving" THEN "queued" ELSE "missed"]]
  /\ UNCHANGED <<server, stops, outcome, responses, ran>>

Underway(s) ==
  {message \in Messages :
     handler[s][message] \in {"spawned", "invoking", "running", "answering"}}

\* Mutant: the handler is awaited in the loop instead of being spawned.
CanTakeOneAtATime(s) == Underway(s) = {}

\* tokio::spawn: the loop never waits for a handler.
CanTake(s) == TRUE

\* subscriber.next() and tokio::spawn.
TakeNext(s) ==
  /\ server[s] = "serving"
  /\ CanTake(s)
  /\ \E message \in Messages :
       /\ At(s, message, "queued")
       /\ \A earlier \in 1..(message - 1) : ~At(s, earlier, "queued")
       /\ Move(s, message, "spawned")
  /\ UNCHANGED <<sent, server, stops, outcome, responses, ran>>

\* What becomes of the other messages of a server when its tasks are dropped.
Dropped(states) ==
  [message \in Messages |->
    CASE states[message] = "running" -> "orphaned"
      [] states[message] \in {"queued", "spawned", "invoking", "answering", "buffered"} -> "lost"
      [] OTHER -> states[message]]

\* Mutant: a request that does not decode ends the loop.
AfterBadRequestEnds(states, message) == Dropped([states EXCEPT ![message] = "dropped"])

\* The spawned task logs the error; the bridge keeps serving.
AfterBadRequest(states, message) == [states EXCEPT ![message] = "dropped"]

\* serde_json::from_slice fails: no response.
DecodeFails(s, message) ==
  /\ At(s, message, "spawned")
  /\ Request(message).body = "malformed"
  /\ handler' = [handler EXCEPT ![s] = AfterBadRequest(handler[s], message)]
  /\ UNCHANGED <<sent, server, stops, outcome, responses, ran>>

Decode(s, message) ==
  /\ At(s, message, "spawned")
  /\ Request(message).body # "malformed"
  /\ Move(s, message, "invoking")
  /\ UNCHANGED <<sent, server, stops, outcome, responses, ran>>

Answer(s, message, result) ==
  /\ outcome' = [outcome EXCEPT ![s][message] = result]
  /\ Move(s, message, "answering")

\* validate_operation or settings_from_input: an Err of invoke.
Refuse(s, message) ==
  /\ At(s, message, "invoking")
  /\ Request(message).body = "refused"
  /\ Answer(s, message, "error")
  /\ UNCHANGED <<sent, server, stops, responses, ran>>

BusyThreads(s) == {message \in Messages : handler[s][message] \in {"running", "orphaned"}}

\* spawn_blocking: the closure waits for a thread of the pool.
BeginRun(s, message) ==
  /\ At(s, message, "invoking")
  /\ Request(message).body \in {"runnable", "slow"}
  /\ Cardinality(BusyThreads(s)) < BlockingThreads
  /\ ran' = ran \cup {[server |-> s, message |-> message]}
  /\ Move(s, message, "running")
  /\ UNCHANGED <<sent, server, stops, outcome, responses>>

\* The join handle resolves, and the reply is written.
RunReturns(s, message) ==
  /\ At(s, message, "running")
  /\ \E result \in {"ok", "not_ok", "error"} : Answer(s, message, result)
  /\ UNCHANGED <<sent, server, stops, responses, ran>>

\* Mutant: the idempotency key, which falls back to the correlation, is echoed.
EchoedKey(request) == IF request.key # {} THEN request.key ELSE request.correlation

\* The correlation header, verbatim, or none.
Echoed(request) == request.correlation

\* RuntimeDispatchResponse with its header, and whose answer to what it is.
Responses ==
  [server : Servers, message : Messages,
   correlation : {request.correlation : request \in Requests},
   ok : BOOLEAN, invoke_failed : BOOLEAN]

Response(s, message) ==
  [server |-> s, message |-> message, correlation |-> Echoed(Request(message)),
   ok |-> outcome[s][message] = "ok", invoke_failed |-> outcome[s][message] = "error"]

\* build_response and publish_with_headers: the client holds the response.
PublishResponse(s, message) ==
  /\ At(s, message, "answering")
  /\ Move(s, message, "buffered")
  /\ UNCHANGED <<sent, server, stops, outcome, responses, ran>>

\* Mutant: the handler publishes until it hears back.
AfterFlushRetried == "answering"

\* handle_message is done: it publishes once.
AfterFlush == "answered"

\* The connection's task writes it out.
Flush(s, message) ==
  /\ At(s, message, "buffered")
  /\ responses' = Append(responses, Response(s, message))
  /\ Move(s, message, AfterFlush)
  /\ UNCHANGED <<sent, server, stops, outcome, ran>>

PublishFails(s, message) ==
  /\ At(s, message, "answering")
  /\ Move(s, message, "unpublished")
  /\ UNCHANGED <<sent, server, stops, outcome, responses, ran>>

-----------------------------------------------------------------------------
\* ctrl_c, or the end of the subscription: serve returns and the runtime is
\* dropped, and with it every task that is not on a blocking thread.
StopSignal(s) ==
  /\ server[s] = "serving"
  /\ stops[s] < MaxStops
  /\ stops' = [stops EXCEPT ![s] = @ + 1]
  /\ server' = [server EXCEPT ![s] = "draining"]
  /\ handler' = [handler EXCEPT ![s] = Dropped(handler[s])]
  /\ UNCHANGED <<sent, outcome, responses, ran>>

\* A deep loop runs to its end although nobody waits for its result.
OrphanReturns(s, message) ==
  /\ At(s, message, "orphaned")
  /\ Move(s, message, "lost")
  /\ UNCHANGED <<sent, server, stops, outcome, responses, ran>>

\* Dropping the runtime waits for its blocking threads.
Exit(s) ==
  /\ server[s] = "draining"
  /\ BusyThreads(s) = {}
  /\ server' = [server EXCEPT ![s] = "down"]
  /\ UNCHANGED <<sent, stops, handler, outcome, responses, ran>>

\* The process is killed.
Crash(s) ==
  /\ server[s] # "down"
  /\ stops[s] < MaxStops
  /\ stops' = [stops EXCEPT ![s] = @ + 1]
  /\ server' = [server EXCEPT ![s] = "down"]
  /\ handler' = [handler EXCEPT ![s] =
       [message \in Messages |->
         LET state == Dropped(handler[s])[message]
         IN  IF state = "orphaned" THEN "lost" ELSE state]]
  /\ UNCHANGED <<sent, outcome, responses, ran>>

\* It is started again: messages sent in between are not kept for it.
Start(s) ==
  /\ server[s] = "down"
  /\ server' = [server EXCEPT ![s] = "serving"]
  /\ UNCHANGED <<sent, stops, handler, outcome, responses, ran>>

Quiet ==
  /\ Len(sent) = MaxSends
  /\ \A s \in Servers, message \in Messages :
       handler[s][message] \in {"answered", "dropped", "unpublished", "lost", "missed"}
  /\ UNCHANGED vars

Handle(s, message) ==
  \/ DecodeFails(s, message) \/ Decode(s, message) \/ Refuse(s, message)
  \/ BeginRun(s, message) \/ PublishResponse(s, message) \/ Flush(s, message)

Next ==
  \/ Send
  \/ \E s \in Servers :
       \/ TakeNext(s) \/ StopSignal(s) \/ Exit(s) \/ Crash(s) \/ Start(s)
       \/ \E message \in Messages :
            \/ Handle(s, message) \/ RunReturns(s, message)
            \/ PublishFails(s, message) \/ OrphanReturns(s, message)
  \/ Quiet

Spec == Init /\ [][Next]_vars

\* The scheduler runs every task that can take a step.  A run of a request
\* that is not slow returns, since invoke does.
FairSpec ==
  /\ Spec
  /\ \A s \in Servers :
       /\ WF_vars(TakeNext(s))
       /\ \A message \in Messages :
            /\ WF_vars(Handle(s, message))
            /\ WF_vars(message <= Len(sent) /\ Request(message).body # "slow"
                         /\ (RunReturns(s, message) \/ OrphanReturns(s, message)))

-----------------------------------------------------------------------------
TypeOK ==
  /\ sent \in Seq(Requests)
  /\ Len(sent) <= MaxSends
  /\ server \in [Servers -> {"serving", "draining", "down"}]
  /\ stops \in [Servers -> 0..MaxStops]
  /\ handler \in [Servers -> [Messages -> HandlerStates]]
  /\ outcome \in [Servers -> [Messages -> Outcomes]]
  /\ \A s \in Servers, message \in Messages :
       At(s, message, "unsent") = (message > Len(sent))
  /\ responses \in Seq(Responses)
  /\ \A i \in DOMAIN responses : responses[i].message \in DOMAIN sent

\* Servers and handlers that run side by side do not mix up their answers:
\* a response carries the correlation of the request it answers, tells the
\* outcome of that server's own run, and an ok is only said after a deep loop
\* has run for it (handle_message, build_response).
AnswersAreTrue ==
  \A i \in DOMAIN responses :
    LET response == responses[i]
        result == outcome[response.server][response.message]
    IN  /\ response.correlation = Request(response.message).correlation
        /\ response.ok = (result = "ok")
        /\ response.invoke_failed = (result = "error")
        /\ response.ok => \E run \in ran : /\ run.server = response.server
                                           /\ run.message = response.message

\* A server answers a message at most once, across stops and restarts, and
\* never one it has dropped (handle_message publishes once).
AnsweredOnce ==
  \A i, j \in DOMAIN responses :
    /\ responses[i].server = responses[j].server
    /\ responses[i].message = responses[j].message
    => i = j

\* A server that was never stopped loses nothing it was delivered: a request
\* that does not decode costs only its own answer (run_bridge logs the error
\* and goes on).
OnlyStopsLoseRequests ==
  \A s \in Servers, message \in Messages :
    handler[s][message] \in {"missed", "lost", "orphaned"} => stops[s] > 0

Settled == {"answered", "dropped", "unpublished", "lost", "orphaned"}

\* Every thread of the pool is held by a run that need not return.
Starved(s) ==
  Cardinality({message \in BusyThreads(s) : Request(message).body = "slow"}) = BlockingThreads

\* A slow run holds nobody else up: every other message delivered to a server
\* is dealt with, unless the server stops or slow runs hold its whole pool
\* (run_bridge spawns a task per message, invoke a blocking thread per run).
OthersAreServed ==
  \A s \in Servers, message \in Messages :
    (At(s, message, "queued") /\ Request(message).body # "slow")
      ~> (handler[s][message] \in Settled \/ Starved(s))

=============================================================================
