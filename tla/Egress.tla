------------------------------- MODULE Egress -------------------------------
(***************************************************************************)
(* One request on its way out: the routes that hold a generation's lease   *)
(* (api/routes.py), the flows of Messages and Responses (api/handlers),    *)
(* the executor that opens a provider's stream (application/execution.py), *)
(* the fallback from model to model, the first frame that decides the HTTP *)
(* status, the replay and the response that closes the body and gives the  *)
(* lease back (api/response_streams.py).                                   *)
(*                                                                         *)
(* The body is a chain of asynchronous iterators. An exception, and the    *)
(* end, travel outwards and leave every one of them finished; closing      *)
(* travels inwards, through those that close their input, and what they do *)
(* not reach is left to the event loop. Of frames there are "data" and the *)
(* last ones, "stop" and "error". What a provider may do is what           *)
(* ChatStream shows: an answer that has begun ends with a last frame, or   *)
(* raises.                                                                 *)
(***************************************************************************)
EXTENDS Naturals, Sequences, FiniteSets

CONSTANTS
    MaxModels,    \* the primary and its fallbacks
    MaxFrames,    \* frames of data of a model
    MaxCancels    \* cancellations of the request's task

VARIABLES
    request,      \* what is asked: see Requests
    step,         \* where the request's task is
    lease,        \* "none", "held" or "released"
    model,        \* the candidate that is open or being opened
    body,         \* the chain: "none", "open", "closing", "orphan" or "closed"
    last,         \* the last frame it gave
    frames,       \* frames of data of this model
    used,         \* models that gave frames
    cause,        \* the failure that the answer is about
    answer,       \* what the client got as JSON: see Answers
    wire,         \* what the client got as a stream: "none", "begun" or a frame
    gone,         \* the client has gone, or the task is cancelled
    cancels

egressVars ==
    <<request, step, lease, model, body, last, frames, used, cause, answer, wire, gone,
      cancels>>

(* A Responses request streams and has no fallbacks; what is answered      *)
(* locally comes from an optimization ("complete") or from a web tool.     *)
Requests ==
    {r \in [api : {"messages", "responses"}, stream : BOOLEAN, models : 1..MaxModels,
            local : {"no", "complete", "tool"}] :
        r.api = "responses" => r.stream /\ r.models = 1 /\ r.local = "no"}

(* "ordinary" errors may be retried by the client, "terminal" ones carry   *)
(* x-should-retry: false.                                                  *)
Answers == {"none", "message", "ordinary", "terminal"}
Final == {"stop", "error"}
-----------------------------------------------------------------------------
(* The iterators between the response and the provider, outermost first,   *)
(* and those that close their input when they are closed.                  *)
Chain ==
    CASE request.local = "tool" -> <<"replay">>
      [] request.api = "responses" ->
            <<"replay", "adapter", "events", "traced", "provider_body">>
      [] request.local # "tool" /\ request.models > 1 ->
            <<"replay", "fallback", "traced", "provider_body">>
      [] OTHER -> <<"replay", "traced", "provider_body">>

Owners == {"replay", "adapter", "events", "traced", "provider_body"}

CloseChain ==
    IF \A i \in DOMAIN Chain : Chain[i] \in Owners THEN "closing" ELSE "orphan"
-----------------------------------------------------------------------------
\* Mutant of Moves: also after a frame.
MovesAnytime(failure) == failure = "overloaded" /\ model < request.models

(* The fallback goes to the next model only before the first frame. *)
Moves(failure) ==
    failure = "overloaded" /\ model < request.models /\ last = "none"

(* A web tool's stream makes its own failures into frames. *)
Fallible == request.local = "no"

(* The open body is asked for more. It gives a frame, *)
Yields ==
    /\ body = "open"
    /\ last \notin Final
    /\ \/ frames < MaxFrames /\ last' = "data" /\ frames' = frames + 1
       \/ last = "data" /\ last' = "stop" /\ UNCHANGED frames
       \/ /\ last = "data" /\ Fallible
          /\ last' = "error"
          /\ UNCHANGED frames
    /\ used' = used \cup {model}
    /\ UNCHANGED <<request, lease, model, body, cause, answer, wire, gone, cancels>>

(* or it ends: after the last frame, or before there was any, *)
Ends ==
    /\ body = "open"
    /\ last \in Final \cup {"none"}
    /\ body' = "closed"
    /\ UNCHANGED <<request, lease, model, last, frames, used, gone, cancels>>

(* or it raises; within the fallback, opening a model may raise as well.   *)
Raises ==
    /\ body = "open"
    /\ last \notin Final
    /\ Fallible
    /\ \E failure \in {"overloaded", "execution", "unexpected", "application"} :
        /\ failure = "application" => request.models > 1 /\ last = "none"
        /\ ~Moves(failure)
        /\ cause' = failure
    /\ body' = "closed"
    /\ UNCHANGED <<request, lease, model, frames, used, gone, cancels>>

(* _stream_with_fallback: the next candidate. *)
MoveOn ==
    /\ step \in {"first", "aggregate", "read"}
    /\ body = "open"
    /\ Fallible
    /\ last \notin Final
    /\ Moves("overloaded")
    /\ model' = model + 1
    /\ frames' = 0
    /\ UNCHANGED <<request, step, lease, body, last, used, cause, answer, wire, gone,
                   cancels>>
-----------------------------------------------------------------------------
serving == <<request, lease, model, frames, used, cause, answer, cancels>>

Kept == UNCHANGED <<request, model, last, frames, used, wire, gone, cancels>>

(* The route is left with a JSON answer, or none: the lease is given back. *)
Leave(a) ==
    /\ answer' = a
    /\ lease' = IF lease = "held" THEN "released" ELSE lease
    /\ step' = "over"

Acquire ==
    /\ step = "acquire"
    /\ \/ lease' = "held" /\ step' = "create" /\ UNCHANGED <<answer, cause>>
       \/ Leave("ordinary") /\ cause' = "application"
    /\ UNCHANGED body
    /\ Kept

(* Validation, conversion, routing, server tools that are not supported;   *)
(* an unexpected error is a plain 500. Without fallbacks the preflight is  *)
(* here too, and what it finds is final if it is the provider's failure.   *)
Reject ==
    /\ step = "create"
    /\ \/ cause' \in {"application", "unexpected"} /\ Leave("ordinary")
       \/ /\ request.local = "no" /\ request.models = 1
          /\ cause' = "execution"
          /\ Leave("terminal")
    /\ UNCHANGED body
    /\ Kept

(* MessagesHandler.create: an answer of its own, or a body. *)
CreateMessage ==
    /\ step = "create"
    /\ request.api = "messages"
    /\ IF request.local = "complete" THEN Leave("message") /\ UNCHANGED body
       ELSE /\ body' = "open"
            /\ step' = IF request.stream THEN "first" ELSE "aggregate"
            /\ UNCHANGED <<lease, answer>>
    /\ UNCHANGED cause
    /\ Kept

(* ResponsesHandler.create *)
CreateResponse ==
    /\ step = "create"
    /\ request.api = "responses"
    /\ body' = "open"
    /\ step' = "first"
    /\ UNCHANGED <<lease, answer, cause>>
    /\ Kept

(* _first_chunk_streaming_response: the status is decided. *)
FirstFrame == step = "first" /\ Yields /\ step' = "headers"

FirstFails ==
    /\ step = "first"
    /\ \/ Ends /\ cause' = "unexpected"
       \/ Raises /\ UNCHANGED last
    /\ step' = "discard"
    /\ UNCHANGED <<answer, wire>>

(* _close_pre_start_body has nothing left to close. *)
Discard ==
    /\ step = "discard"
    /\ Leave("terminal")
    /\ UNCHANGED <<body, cause>>
    /\ Kept

(* aggregate_anthropic_sse_to_message: no part of it gets out. *)
Aggregate == step = "aggregate" /\ Yields /\ UNCHANGED step

Aggregated ==
    /\ step = "aggregate"
    /\ \/ /\ Ends
          /\ cause' = IF last = "error" THEN "execution" ELSE cause
          /\ answer' = IF last = "error" THEN "terminal" ELSE "message"
       \/ Raises /\ answer' = "terminal" /\ UNCHANGED last
    /\ step' = "release"
    /\ UNCHANGED wire

(* bind_response_lifetime, for a response without a body of its own *)
Release ==
    /\ step = "release"
    /\ Leave(answer)
    /\ UNCHANGED <<body, cause>>
    /\ Kept
-----------------------------------------------------------------------------

(* ManagedStreamingResponse.__call__, and _PrefetchedStream. *)
SendHeaders ==
    /\ step = "headers"
    /\ step' = "send"
    /\ wire' = "begun"
    /\ UNCHANGED <<serving, body, last, gone>>

Send ==
    /\ step = "send"
    /\ step' = "read"
    /\ wire' = last
    /\ UNCHANGED <<serving, body, last, gone>>

SendFails ==
    /\ step \in {"headers", "send"}
    /\ step' = "finalize"
    /\ gone' = TRUE
    /\ UNCHANGED <<serving, body, last, wire>>

Read == step = "read" /\ Yields /\ step' = "send"

(* A failure after the status becomes a last frame. Of Messages the replay *)
(* makes it, _terminal_chunk,                                              *)
TerminalFrame ==
    /\ step = "read"
    /\ request.api = "messages"
    /\ Raises
    /\ last' = "error"
    /\ step' = "send"
    /\ UNCHANGED <<answer, wire>>

(* and of Responses the adapter, which then returns. *)
ResponseFailed ==
    /\ step = "read"
    /\ request.api = "responses"
    /\ Raises
    /\ last' = "error"
    /\ step' = "send"
    /\ UNCHANGED <<answer, wire>>

ReadEnds ==
    /\ step = "read"
    /\ Ends \/ (body = "closed" /\ UNCHANGED <<serving, body, last, gone>>)
    /\ step' = "finalize"
    /\ UNCHANGED <<cause, answer, wire>>

(* _cleanup, in a task of its own: the body, then the lease. *)
CloseBody ==
    /\ step = "finalize"
    /\ step' = "closing"
    /\ body' = IF body = "open" THEN CloseChain ELSE body
    /\ UNCHANGED <<serving, last, wire, gone>>

BodyClosed ==
    /\ body = "closing"
    /\ body' = "closed"
    /\ UNCHANGED <<serving, step, last, wire, gone>>

ReleaseLease ==
    /\ step = "closing"
    /\ body # "closing"
    /\ Leave(answer)
    /\ UNCHANGED <<body, cause>>
    /\ Kept

(* What nobody closed, the event loop closes when it collects it. *)
Collected ==
    /\ body = "orphan"
    /\ body' = "closed"
    /\ UNCHANGED <<serving, step, last, wire, gone>>
-----------------------------------------------------------------------------
(* The task is cancelled where it waits, by the client's disconnect or by  *)
(* the server's end. Reading, it is cancelled in the provider: the chain   *)
(* unwinds. The cleanup is shielded, and waited for again.                 *)
Cancel ==
    /\ cancels < MaxCancels
    /\ cancels' = cancels + 1
    /\ gone' = TRUE
    /\ \/ /\ step \in {"acquire", "discard", "first", "aggregate"}
          /\ Leave("none")
          /\ body' = IF body = "open" THEN "closed" ELSE body
       \/ /\ step \in {"headers", "send", "read"}
          /\ step' = "finalize"
          /\ body' = IF step = "read" THEN "closed" ELSE body
          /\ UNCHANGED <<lease, answer>>
       \/ /\ step \in {"finalize", "closing"}
          /\ UNCHANGED <<step, body, lease, answer>>
    /\ UNCHANGED <<request, model, last, frames, used, cause, wire>>

Over == step = "over" /\ body # "orphan" /\ UNCHANGED egressVars

EgressInit ==
    /\ request \in Requests
    /\ step = "acquire" /\ lease = "none"
    /\ model = 1 /\ body = "none" /\ last = "none" /\ frames = 0 /\ used = {}
    /\ cause = "none" /\ answer = "none" /\ wire = "none"
    /\ gone = FALSE /\ cancels = 0

EgressNext ==
    \/ Acquire \/ Reject \/ CreateMessage \/ CreateResponse
    \/ FirstFrame \/ FirstFails \/ Discard \/ Aggregate \/ Aggregated \/ Release
    \/ SendHeaders \/ Send \/ SendFails \/ Read \/ TerminalFrame
    \/ ResponseFailed \/ ReadEnds
    \/ CloseBody \/ BodyClosed \/ ReleaseLease \/ Collected
    \/ MoveOn \/ Cancel \/ Over

EgressSpec == EgressInit /\ [][EgressNext]_egressVars
-----------------------------------------------------------------------------
Closed == body \in {"none", "closed"}

(* ARCHITECTURE.md:443, "a generation lease is released only after the body *)
(* chain has finished closing": the client of a provider is not closed      *)
(* under a stream that still uses it.                                       *)
ClosedFirst == lease = "released" => Closed

(* The same where no fallback is configured: there it holds. *)
ClosedFirstAlone == request.models = 1 => ClosedFirst

(* The client that stays gets one answer, and a whole one: JSON, or a      *)
(* stream that says how it ended; all of it is one model's. The lease is   *)
(* given back by then. Without fallbacks a request that the application    *)
(* refuses is not taken for a failure of a provider.                       *)
OneAnswer ==
    /\ Cardinality(used) <= 1
    /\ step = "over" =>
        /\ lease # "held"
        /\ gone \/ (wire \in Final) = (answer = "none")
        /\ request.models = 1 /\ answer = "terminal" => cause # "application"

(* What the egress owes its client, and the generation that serves it. *)
EgressKept == ClosedFirstAlone /\ OneAnswer
=============================================================================
