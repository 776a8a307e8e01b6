--------------------------- MODULE GatewayProofs ---------------------------
(***************************************************************************)
(* What holds of five parts of the gateway for any number of models,       *)
(* frames and cancellations, of processes, tokens, faults and commands, of *)
(* handlers, mishaps and log entries, of tools, attempts and chunks, and   *)
(* for any configurations: one whole answer for each request (Egress), an  *)
(* account that stays disconnected (CodexAuth), messages that somebody     *)
(* answers for (ManagedMessages), a stream that keeps its contract         *)
(* (ChatStream), and requests that go where they should (Routing).         *)
(***************************************************************************)
EXTENDS CodexAuth, Egress, ManagedMessages, ChatStream, Routing, FiniteSetTheorems, TLAPS

Running == {"create", "first", "aggregate", "headers", "send", "read", "discard",
            "release", "finalize", "closing"}

EgressTypeOK ==
    /\ request \in Requests
    /\ step \in {"acquire", "over"} \cup Running
    /\ lease \in {"none", "held", "released"}
    /\ model \in Nat
    /\ body \in {"none", "open", "closing", "orphan", "closed"}
    /\ last \in {"none", "data"} \cup Final
    /\ answer \in Answers
    /\ wire \in {"none", "begun", "data"} \cup Final
    /\ gone \in BOOLEAN

\* Only the model that serves has given frames.
OneModel == used \subseteq {model} /\ (last = "none" => used = {})

\* The lease is held until the route is left.
Leased ==
    /\ step = "acquire" => lease = "none"
    /\ lease = "held" <=> step \in Running

\* The body by the step; what is collected late has a fallback in its chain.
Bodied ==
    /\ step \in {"acquire", "create"} => body = "none"
    /\ step \in {"first", "aggregate"} => body = "open"
    /\ step \in {"headers", "send", "read", "finalize"} => body \in {"open", "closed"}
    /\ step \in {"discard", "release"} => body = "closed"
    /\ step = "closing" => body \in {"closing", "orphan", "closed"}
    /\ step = "over" => body \in {"none", "orphan", "closed"}
    /\ body = "orphan" => request.models > 1

\* What the client has by the step: a stream or JSON, never both.
Replied ==
    /\ step \in {"acquire", "create", "first", "aggregate", "discard", "release", "headers"}
          => wire = "none"
    /\ step \notin {"release", "over"} => answer = "none"
    /\ step = "release" => answer # "none"
    /\ step \in {"headers", "send", "read"} =>
          last # "none" /\ (body = "closed" => last \in Final)
    /\ step = "read" => wire = last
    /\ step \in {"finalize", "closing"} => gone \/ wire \in Final
    /\ step = "over" => gone \/ (wire \in Final) = (answer = "none")

\* Without fallbacks the application's refusals are not the provider's.
Blamed ==
    (step = "discard" \/ answer = "terminal") /\ request.models = 1 =>
        cause # "application"

EgressInv == EgressTypeOK /\ OneModel /\ Leased /\ Bodied /\ Replied /\ Blamed

LEMMA EgressBegins == EgressInit => EgressInv
<1> SUFFICES ASSUME EgressInit PROVE EgressInv
  OBVIOUS
<1>1. EgressTypeOK
  BY DEF EgressInit, EgressTypeOK, Answers
<1>2. OneModel /\ Leased /\ Bodied /\ Replied /\ Blamed
  BY DEF EgressInit, OneModel, Leased, Bodied, Replied, Blamed, Running
<1> QED BY <1>1, <1>2 DEF EgressInv

\* Without a fallback every iterator of the chain closes its input.
LEMMA ClosesThrough ==
    ASSUME request \in Requests, ~(request.models > 1)
    PROVE  CloseChain = "closing"
<1>1. \A i \in DOMAIN Chain : Chain[i] \in Owners
  <2>1. CASE request.local = "tool"
    <3>1. Chain = <<"replay">>
      BY <2>1 DEF Chain, Requests
    <3> QED BY <3>1 DEF Owners
  <2>2. CASE request.local # "tool" /\ request.api = "responses"
    <3>1. Chain = <<"replay", "adapter", "events", "traced", "provider_body">>
      BY <2>2 DEF Chain
    <3> QED BY <3>1 DEF Owners
  <2>3. CASE request.local # "tool" /\ request.api # "responses"
    <3>1. Chain = <<"replay", "traced", "provider_body">>
      BY <2>3 DEF Chain
    <3> QED BY <3>1 DEF Owners
  <2> QED BY <2>1, <2>2, <2>3
<1> QED BY <1>1 DEF CloseChain

LEMMA AcquireKeeps == EgressInv /\ Acquire => EgressInv'
<1> SUFFICES ASSUME EgressInv, Acquire PROVE EgressInv'
  OBVIOUS
<1>1. EgressTypeOK'
  BY DEF EgressInv, EgressTypeOK, Running, Answers, Acquire, Kept, Leave
<1>2. OneModel'
  BY DEF EgressInv, OneModel, Acquire, Kept
<1>3. Leased'
  BY DEF Leased, Running, Acquire, Leave
<1>4. Bodied'
  BY DEF EgressInv, Bodied, Acquire, Leave
<1>5. Replied'
  BY DEF EgressInv, Replied, Final, Acquire, Kept, Leave
<1>6. Blamed'
  BY DEF EgressInv, Blamed, Acquire, Kept, Leave
<1> QED BY <1>1, <1>2, <1>3, <1>4, <1>5, <1>6 DEF EgressInv

LEMMA RejectKeeps == EgressInv /\ Reject => EgressInv'
<1> SUFFICES ASSUME EgressInv, Reject PROVE EgressInv'
  OBVIOUS
<1>1. EgressTypeOK'
  BY DEF EgressInv, EgressTypeOK, Answers, Reject, Kept, Leave
<1>2. OneModel'
  BY DEF EgressInv, OneModel, Reject, Kept
<1>3. Leased'
  BY DEF Leased, Running, Reject, Leave
<1>4. Bodied'
  BY DEF EgressInv, Bodied, Reject, Leave
<1>5. Replied'
  BY DEF EgressInv, Replied, Final, Reject, Kept, Leave
<1>6. Blamed'
  BY DEF Blamed, Reject, Leave
<1> QED BY <1>1, <1>2, <1>3, <1>4, <1>5, <1>6 DEF EgressInv

LEMMA CreateMessageKeeps == EgressInv /\ CreateMessage => EgressInv'
<1> SUFFICES ASSUME EgressInv, CreateMessage PROVE EgressInv'
  OBVIOUS
<1>1. EgressTypeOK'
  BY DEF EgressInv, EgressTypeOK, Running, Answers, CreateMessage, Kept, Leave
<1>2. OneModel'
  BY DEF EgressInv, OneModel, CreateMessage, Kept
<1>3. Leased'
  BY DEF EgressInv, Leased, Running, CreateMessage, Leave
<1>4. Bodied'
  BY DEF EgressInv, Bodied, CreateMessage, Leave
<1>5. Replied'
  BY DEF EgressInv, Replied, Final, CreateMessage, Kept, Leave
<1>6. Blamed'
  BY DEF EgressInv, Blamed, CreateMessage, Kept, Leave
<1> QED BY <1>1, <1>2, <1>3, <1>4, <1>5, <1>6 DEF EgressInv

LEMMA CreateResponseKeeps == EgressInv /\ CreateResponse => EgressInv'
<1> SUFFICES ASSUME EgressInv, CreateResponse PROVE EgressInv'
  OBVIOUS
<1>1. EgressTypeOK'
  BY DEF EgressInv, EgressTypeOK, Running, CreateResponse, Kept
<1>2. OneModel'
  BY DEF EgressInv, OneModel, CreateResponse, Kept
<1>3. Leased'
  BY DEF EgressInv, Leased, Running, CreateResponse
<1>4. Bodied'
  BY DEF Bodied, CreateResponse
<1>5. Replied'
  BY DEF EgressInv, Replied, CreateResponse, Kept
<1>6. Blamed'
  BY DEF EgressInv, Blamed, CreateResponse, Kept
<1> QED BY <1>1, <1>2, <1>3, <1>4, <1>5, <1>6 DEF EgressInv

LEMMA FirstFrameKeeps == EgressInv /\ FirstFrame => EgressInv'
<1> SUFFICES ASSUME EgressInv, FirstFrame PROVE EgressInv'
  OBVIOUS
<1>1. EgressTypeOK'
  BY DEF EgressInv, EgressTypeOK, Running, Final, FirstFrame, Yields
<1>2. OneModel'
  BY DEF EgressInv, OneModel, FirstFrame, Yields
<1>3. Leased'
  BY DEF EgressInv, Leased, Running, FirstFrame, Yields
<1>4. Bodied'
  BY DEF Bodied, FirstFrame, Yields
<1>5. Replied'
  BY DEF EgressInv, Replied, FirstFrame, Yields
<1>6. Blamed'
  BY DEF EgressInv, Blamed, FirstFrame, Yields
<1> QED BY <1>1, <1>2, <1>3, <1>4, <1>5, <1>6 DEF EgressInv

LEMMA FirstFailsKeeps == EgressInv /\ FirstFails => EgressInv'
<1> SUFFICES ASSUME EgressInv, FirstFails PROVE EgressInv'
  OBVIOUS
<1>1. EgressTypeOK'
  BY DEF EgressInv, EgressTypeOK, Running, FirstFails, Ends, Raises
<1>2. OneModel'
  BY DEF EgressInv, OneModel, FirstFails, Ends, Raises
<1>3. Leased'
  BY DEF EgressInv, Leased, Running, FirstFails, Ends, Raises
<1>4. Bodied'
  BY DEF Bodied, FirstFails, Ends, Raises
<1>5. Replied'
  BY DEF EgressInv, Replied, FirstFails
<1>6. Blamed'
  BY DEF Blamed, FirstFails, Raises
<1> QED BY <1>1, <1>2, <1>3, <1>4, <1>5, <1>6 DEF EgressInv

LEMMA DiscardKeeps == EgressInv /\ Discard => EgressInv'
<1> SUFFICES ASSUME EgressInv, Discard PROVE EgressInv'
  OBVIOUS
<1>1. EgressTypeOK'
  BY DEF EgressInv, EgressTypeOK, Answers, Discard, Kept, Leave
<1>2. OneModel'
  BY DEF EgressInv, OneModel, Discard, Kept
<1>3. Leased'
  BY DEF Leased, Running, Discard, Leave
<1>4. Bodied'
  BY DEF EgressInv, Bodied, Discard, Leave
<1>5. Replied'
  BY DEF EgressInv, Replied, Final, Discard, Kept, Leave
<1>6. Blamed'
  BY DEF EgressInv, Blamed, Discard, Kept
<1> QED BY <1>1, <1>2, <1>3, <1>4, <1>5, <1>6 DEF EgressInv

LEMMA AggregateKeeps == EgressInv /\ Aggregate => EgressInv'
<1> SUFFICES ASSUME EgressInv, Aggregate PROVE EgressInv'
  OBVIOUS
<1>1. EgressTypeOK'
  BY DEF EgressInv, EgressTypeOK, Final, Aggregate, Yields
<1>2. OneModel'
  BY DEF EgressInv, OneModel, Aggregate, Yields
<1>3. Leased'
  BY DEF EgressInv, Leased, Aggregate, Yields
<1>4. Bodied'
  BY DEF Bodied, Aggregate, Yields
<1>5. Replied'
  BY DEF EgressInv, Replied, Aggregate, Yields
<1>6. Blamed'
  BY DEF EgressInv, Blamed, Aggregate, Yields
<1> QED BY <1>1, <1>2, <1>3, <1>4, <1>5, <1>6 DEF EgressInv

LEMMA AggregatedKeeps == EgressInv /\ Aggregated => EgressInv'
<1> SUFFICES ASSUME EgressInv, Aggregated PROVE EgressInv'
  OBVIOUS
<1>1. EgressTypeOK'
  BY DEF EgressInv, EgressTypeOK, Running, Answers, Aggregated, Ends, Raises
<1>2. OneModel'
  BY DEF EgressInv, OneModel, Aggregated, Ends, Raises
<1>3. Leased'
  BY DEF EgressInv, Leased, Running, Aggregated, Ends, Raises
<1>4. Bodied'
  BY DEF Bodied, Aggregated, Ends, Raises
<1>5. Replied'
  BY DEF EgressInv, Replied, Aggregated
<1>6. Blamed'
  BY DEF Blamed, Aggregated, Raises
<1> QED BY <1>1, <1>2, <1>3, <1>4, <1>5, <1>6 DEF EgressInv

LEMMA ReleaseKeeps == EgressInv /\ Release => EgressInv'
<1> SUFFICES ASSUME EgressInv, Release PROVE EgressInv'
  OBVIOUS
<1>1. EgressTypeOK'
  BY DEF EgressInv, EgressTypeOK, Release, Kept, Leave
<1>2. OneModel'
  BY DEF EgressInv, OneModel, Release, Kept
<1>3. Leased'
  BY DEF Leased, Running, Release, Leave
<1>4. Bodied'
  BY DEF EgressInv, Bodied, Release, Leave
<1>5. Replied'
  BY DEF EgressInv, Replied, Final, Release, Kept, Leave
<1>6. Blamed'
  BY DEF EgressInv, Blamed, Release, Kept, Leave
<1> QED BY <1>1, <1>2, <1>3, <1>4, <1>5, <1>6 DEF EgressInv

LEMMA SendHeadersKeeps == EgressInv /\ SendHeaders => EgressInv'
<1> SUFFICES ASSUME EgressInv, SendHeaders PROVE EgressInv'
  OBVIOUS
<1>1. EgressTypeOK'
  BY DEF EgressInv, EgressTypeOK, Running, SendHeaders, serving
<1>2. OneModel'
  BY DEF EgressInv, OneModel, SendHeaders, serving
<1>3. Leased'
  BY DEF EgressInv, Leased, Running, SendHeaders, serving
<1>4. Bodied'
  BY DEF EgressInv, Bodied, SendHeaders
<1>5. Replied'
  BY DEF EgressInv, Replied, SendHeaders, serving
<1>6. Blamed'
  BY DEF EgressInv, Blamed, SendHeaders, serving
<1> QED BY <1>1, <1>2, <1>3, <1>4, <1>5, <1>6 DEF EgressInv

LEMMA SendKeeps == EgressInv /\ Send => EgressInv'
<1> SUFFICES ASSUME EgressInv, Send PROVE EgressInv'
  OBVIOUS
<1>1. EgressTypeOK'
  BY DEF EgressInv, EgressTypeOK, Running, Send, serving
<1>2. OneModel'
  BY DEF EgressInv, OneModel, Send, serving
<1>3. Leased'
  BY DEF EgressInv, Leased, Running, Send, serving
<1>4. Bodied'
  BY DEF EgressInv, Bodied, Send
<1>5. Replied'
  BY DEF EgressInv, Replied, Send, serving
<1>6. Blamed'
  BY DEF EgressInv, Blamed, Send, serving
<1> QED BY <1>1, <1>2, <1>3, <1>4, <1>5, <1>6 DEF EgressInv

LEMMA SendFailsKeeps == EgressInv /\ SendFails => EgressInv'
<1> SUFFICES ASSUME EgressInv, SendFails PROVE EgressInv'
  OBVIOUS
<1>1. EgressTypeOK'
  BY DEF EgressInv, EgressTypeOK, Running, SendFails, serving
<1>2. OneModel'
  BY DEF EgressInv, OneModel, SendFails, serving
<1>3. Leased'
  BY DEF EgressInv, Leased, Running, SendFails, serving
<1>4. Bodied'
  BY DEF EgressInv, Bodied, SendFails
<1>5. Replied'
  BY DEF EgressInv, Replied, SendFails, serving
<1>6. Blamed'
  BY DEF EgressInv, Blamed, SendFails, serving
<1> QED BY <1>1, <1>2, <1>3, <1>4, <1>5, <1>6 DEF EgressInv

LEMMA ReadKeeps == EgressInv /\ Read => EgressInv'
<1> SUFFICES ASSUME EgressInv, Read PROVE EgressInv'
  OBVIOUS
<1>1. EgressTypeOK'
  BY DEF EgressInv, EgressTypeOK, Running, Final, Read, Yields
<1>2. OneModel'
  BY DEF EgressInv, OneModel, Read, Yields
<1>3. Leased'
  BY DEF EgressInv, Leased, Running, Read, Yields
<1>4. Bodied'
  BY DEF Bodied, Read, Yields
<1>5. Replied'
  BY DEF EgressInv, Replied, Read, Yields
<1>6. Blamed'
  BY DEF EgressInv, Blamed, Read, Yields
<1> QED BY <1>1, <1>2, <1>3, <1>4, <1>5, <1>6 DEF EgressInv

LEMMA TerminalFrameKeeps == EgressInv /\ TerminalFrame => EgressInv'
<1> SUFFICES ASSUME EgressInv, TerminalFrame PROVE EgressInv'
  OBVIOUS
<1>1. EgressTypeOK'
  BY DEF EgressInv, EgressTypeOK, Running, Final, TerminalFrame, Raises
<1>2. OneModel'
  BY DEF EgressInv, OneModel, TerminalFrame, Raises
<1>3. Leased'
  BY DEF EgressInv, Leased, Running, TerminalFrame, Raises
<1>4. Bodied'
  BY DEF Bodied, TerminalFrame, Raises
<1>5. Replied'
  BY DEF EgressInv, Replied, Final, TerminalFrame
<1>6. Blamed'
  BY DEF Blamed, TerminalFrame, Raises
<1> QED BY <1>1, <1>2, <1>3, <1>4, <1>5, <1>6 DEF EgressInv

LEMMA ResponseFailedKeeps == EgressInv /\ ResponseFailed => EgressInv'
<1> SUFFICES ASSUME EgressInv, ResponseFailed PROVE EgressInv'
  OBVIOUS
<1>1. EgressTypeOK'
  BY DEF EgressInv, EgressTypeOK, Running, Final, ResponseFailed, Raises
<1>2. OneModel'
  BY DEF EgressInv, OneModel, ResponseFailed, Raises
<1>3. Leased'
  BY DEF EgressInv, Leased, Running, ResponseFailed, Raises
<1>4. Bodied'
  BY DEF Bodied, ResponseFailed, Raises
<1>5. Replied'
  BY DEF EgressInv, Replied, Final, ResponseFailed
<1>6. Blamed'
  BY DEF Blamed, ResponseFailed, Raises
<1> QED BY <1>1, <1>2, <1>3, <1>4, <1>5, <1>6 DEF EgressInv

LEMMA ReadEndsKeeps == EgressInv /\ ReadEnds => EgressInv'
<1> SUFFICES ASSUME EgressInv, ReadEnds PROVE EgressInv'
  OBVIOUS
<1>1. EgressTypeOK'
  BY DEF EgressInv, EgressTypeOK, Running, ReadEnds, Ends, serving
<1>2. OneModel'
  BY DEF EgressInv, OneModel, ReadEnds, Ends, serving
<1>3. Leased'
  BY DEF EgressInv, Leased, Running, ReadEnds, Ends, serving
<1>4. Bodied'
  BY DEF Bodied, ReadEnds, Ends
<1>5. Replied'
  BY DEF EgressInv, Replied, ReadEnds, Ends
<1>6. Blamed'
  BY DEF EgressInv, Blamed, ReadEnds, Ends, serving
<1> QED BY <1>1, <1>2, <1>3, <1>4, <1>5, <1>6 DEF EgressInv

LEMMA CloseBodyKeeps == EgressInv /\ CloseBody => EgressInv'
<1> SUFFICES ASSUME EgressInv, CloseBody PROVE EgressInv'
  OBVIOUS
<1>1. EgressTypeOK'
  BY DEF EgressInv, EgressTypeOK, Running, CloseBody, CloseChain, serving
<1>2. OneModel'
  BY DEF EgressInv, OneModel, CloseBody, serving
<1>3. Leased'
  BY DEF EgressInv, Leased, Running, CloseBody, serving
<1>4. Bodied'
  <2>1. CloseChain \in {"closing", "orphan"} /\ (CloseChain = "orphan" => request.models > 1)
    BY ClosesThrough DEF EgressInv, EgressTypeOK, CloseChain
  <2> QED BY <2>1 DEF EgressInv, EgressTypeOK, Bodied, CloseBody, serving
<1>5. Replied'
  BY DEF EgressInv, Replied, CloseBody, serving
<1>6. Blamed'
  BY DEF EgressInv, Blamed, CloseBody, serving
<1> QED BY <1>1, <1>2, <1>3, <1>4, <1>5, <1>6 DEF EgressInv

LEMMA BodyClosedKeeps == EgressInv /\ BodyClosed => EgressInv'
<1> SUFFICES ASSUME EgressInv, BodyClosed PROVE EgressInv'
  OBVIOUS
<1>1. EgressTypeOK'
  BY DEF EgressInv, EgressTypeOK, BodyClosed, serving
<1>2. OneModel'
  BY DEF EgressInv, OneModel, BodyClosed, serving
<1>3. Leased'
  BY DEF EgressInv, Leased, BodyClosed, serving
<1>4. Bodied'
  BY DEF EgressInv, Bodied, BodyClosed
<1>5. Replied'
  BY DEF EgressInv, Bodied, Replied, BodyClosed, serving
<1>6. Blamed'
  BY DEF EgressInv, Blamed, BodyClosed, serving
<1> QED BY <1>1, <1>2, <1>3, <1>4, <1>5, <1>6 DEF EgressInv

LEMMA ReleaseLeaseKeeps == EgressInv /\ ReleaseLease => EgressInv'
<1> SUFFICES ASSUME EgressInv, ReleaseLease PROVE EgressInv'
  OBVIOUS
<1>1. EgressTypeOK'
  BY DEF EgressInv, EgressTypeOK, ReleaseLease, Kept, Leave
<1>2. OneModel'
  BY DEF EgressInv, OneModel, ReleaseLease, Kept
<1>3. Leased'
  BY DEF Leased, Running, ReleaseLease, Leave
<1>4. Bodied'
  BY DEF EgressInv, Bodied, ReleaseLease, Kept, Leave
<1>5. Replied'
  BY DEF EgressInv, Replied, ReleaseLease, Kept, Leave
<1>6. Blamed'
  BY DEF EgressInv, Blamed, ReleaseLease, Kept, Leave
<1> QED BY <1>1, <1>2, <1>3, <1>4, <1>5, <1>6 DEF EgressInv

LEMMA CollectedKeeps == EgressInv /\ Collected => EgressInv'
<1> SUFFICES ASSUME EgressInv, Collected PROVE EgressInv'
  OBVIOUS
<1>1. EgressTypeOK'
  BY DEF EgressInv, EgressTypeOK, Collected, serving
<1>2. OneModel'
  BY DEF EgressInv, OneModel, Collected, serving
<1>3. Leased'
  BY DEF EgressInv, Leased, Collected, serving
<1>4. Bodied'
  BY DEF EgressInv, Bodied, Collected
<1>5. Replied'
  BY DEF EgressInv, Bodied, Replied, Collected, serving
<1>6. Blamed'
  BY DEF EgressInv, Blamed, Collected, serving
<1> QED BY <1>1, <1>2, <1>3, <1>4, <1>5, <1>6 DEF EgressInv

LEMMA MoveOnKeeps == EgressInv /\ MoveOn => EgressInv'
<1> SUFFICES ASSUME EgressInv, MoveOn PROVE EgressInv'
  OBVIOUS
<1>1. EgressTypeOK'
  BY DEF EgressInv, EgressTypeOK, MoveOn
<1>2. OneModel'
  BY DEF EgressInv, OneModel, MoveOn, Moves
<1>3. Leased'
  BY DEF EgressInv, Leased, MoveOn
<1>4. Bodied'
  BY DEF Bodied, MoveOn
<1>5. Replied'
  BY DEF EgressInv, Replied, MoveOn
<1>6. Blamed'
  BY DEF EgressInv, Blamed, MoveOn
<1> QED BY <1>1, <1>2, <1>3, <1>4, <1>5, <1>6 DEF EgressInv

LEMMA CancelKeeps == EgressInv /\ Cancel => EgressInv'
<1> SUFFICES ASSUME EgressInv, Cancel PROVE EgressInv'
  OBVIOUS
<1>1. EgressTypeOK'
  BY DEF EgressInv, EgressTypeOK, Running, Answers, Cancel, Leave
<1>2. OneModel'
  BY DEF EgressInv, OneModel, Cancel
<1>3. Leased'
  BY DEF EgressInv, Leased, Running, Cancel, Leave
<1>4. Bodied'
  BY DEF EgressInv, Bodied, Cancel, Leave
<1>5. Replied'
  BY DEF EgressInv, Replied, Cancel, Leave
<1>6. Blamed'
  BY DEF EgressInv, Blamed, Cancel, Leave
<1> QED BY <1>1, <1>2, <1>3, <1>4, <1>5, <1>6 DEF EgressInv

LEMMA EgressStepKeeps == EgressInv /\ [EgressNext]_egressVars => EgressInv'
<1> SUFFICES ASSUME EgressInv, [EgressNext]_egressVars PROVE EgressInv'
  OBVIOUS
<1>1. CASE UNCHANGED egressVars
  BY <1>1 DEF egressVars, EgressInv, EgressTypeOK, OneModel, Leased, Bodied, Replied,
     Blamed
<1>2. CASE Over
  BY <1>1, <1>2 DEF Over
<1>3. CASE EgressNext /\ ~Over
  BY <1>3, AcquireKeeps, RejectKeeps, CreateMessageKeeps, CreateResponseKeeps,
     FirstFrameKeeps, FirstFailsKeeps, DiscardKeeps, AggregateKeeps, AggregatedKeeps,
     ReleaseKeeps, SendHeadersKeeps, SendKeeps, SendFailsKeeps, ReadKeeps,
     TerminalFrameKeeps, ResponseFailedKeeps, ReadEndsKeeps, CloseBodyKeeps,
     BodyClosedKeeps, ReleaseLeaseKeeps, CollectedKeeps, MoveOnKeeps, CancelKeeps
     DEF EgressNext
<1> QED BY <1>1, <1>2, <1>3

\* The inductive invariant of the egress.
THEOREM EgressIsSound == EgressSpec => []EgressInv
<1> QED BY EgressBegins, EgressStepKeeps, PTL DEF EgressSpec

\* Whatever the models, frames and cancellations: without a fallback no
\* generation is released while its body is open, and every client that stays
\* gets one whole answer, of one model (api/response_streams.py).
THEOREM EgressHolds == EgressSpec => []EgressKept
<1>1. EgressInv => EgressKept
  <2> SUFFICES ASSUME EgressInv PROVE EgressKept
    OBVIOUS
  <2>1. ClosedFirstAlone
    BY DEF EgressInv, EgressTypeOK, Leased, Bodied, Running, ClosedFirstAlone, ClosedFirst,
           Closed
  <2>2. Cardinality(used) <= 1
    <3>1. used = {} \/ used = {model}
      BY DEF EgressInv, OneModel
    <3>2. Cardinality({}) = 0 /\ Cardinality({model}) = 1
      BY FS_EmptySet, FS_Singleton
    <3> QED BY <3>1, <3>2
  <2>3. step = "over" =>
          /\ lease # "held"
          /\ gone \/ (wire \in Final) = (answer = "none")
          /\ request.models = 1 /\ answer = "terminal" => cause # "application"
    BY DEF EgressInv, Leased, Replied, Blamed, Running
  <2> QED BY <2>1, <2>2, <2>3 DEF EgressKept, OneAnswer
<1> QED BY EgressIsSound, <1>1, PTL

-----------------------------------------------------------------------------
AccountTypeOK ==
    /\ file \in Nat /\ issued \in Nat
    /\ strayed \in BOOLEAN /\ strays \subseteq Processes \X Nat
    /\ memory \in [Processes -> Nat]
    /\ fetched \in [Processes -> Nat]
    /\ grant \in [Processes -> Nat]
    /\ user \in [Processes ->
                    {"free", "unlinking", "relocking", "posting", "saving"}]
    /\ login \in [Processes ->
                    {"none", "pending", "locking", "writing", "installing"}]
    /\ removal \in [Processes -> {"none", "detached"}]
    /\ revision \in [Processes -> Nat]
    /\ recorded \in [Processes -> Nat]
    /\ updates \in [Processes -> Seq(BOOLEAN \X Nat)]
    /\ told \in [Processes -> BOOLEAN]
    /\ adopted \in [Processes -> BOOLEAN]
    /\ buried \in [Processes -> SUBSET Tokens]

\* Unless a write has outlived its task, every token in sight has been issued,
Known == ~strayed =>
    /\ strays = {}
    /\ file <= issued
    /\ \A p \in Processes :
          /\ memory[p] <= issued /\ fetched[p] <= issued /\ grant[p] <= issued
          /\ \A t \in buried[p] : t <= issued

\* No process uses the token, and none has disconnected from it.
Unseen(t) ==
    file # t /\ \A q \in Processes : memory[q] # t /\ t \notin buried[q]

\* and one that has been obtained and is not yet written is nobody else's.
Secret == ~strayed =>
    \A p \in Processes :
        /\ user[p] = "saving" =>
              /\ fetched[p] # 0 /\ Unseen(fetched[p])
              /\ \A q \in Processes :
                    /\ grant[q] # fetched[p]
                    /\ q # p => fetched[q] # fetched[p]
        /\ login[p] \in {"locking", "writing"} =>
              /\ grant[p] # 0 /\ Unseen(grant[p])
              /\ \A q \in Processes :
                    /\ fetched[q] # grant[p]
                    /\ q # p => grant[q] # grant[p]

\* What the commands under way have done so far.
Staged ==
    \A p \in Processes :
        /\ removal[p] = "detached" => login[p] = "none"
        /\ user[p] = "unlinking" => removal[p] = "detached"
        /\ login[p] = "pending" => grant[p] = 0
        /\ user[p] \in {"relocking", "posting", "saving"} => memory[p] # 0

\* The last that the provider manager is told, or has been.
Newest(p) ==
    IF updates[p] = <<>> THEN <<told[p], recorded[p]>> ELSE updates[p][Len(updates[p])]

\* If it is of the present revision it is true.
Announced ==
    \A p \in Administered :
        /\ recorded[p] <= revision[p]
        /\ \A i \in 1..Len(updates[p]) : updates[p][i][2] <= revision[p]
        /\ Newest(p)[2] = revision[p] /\ ~adopted[p] => Newest(p)[1] = (memory[p] # 0)

AccountInv ==
    AccountTypeOK /\ Known /\ Secret /\ Staged /\ Announced /\ DisconnectFinal

\* What adding to and taking from the queue of updates leaves of it.
LEMMA OneMore ==
    ASSUME NEW s \in Seq(BOOLEAN \X Nat), NEW e \in BOOLEAN \X Nat
    PROVE  /\ Append(s, e) \in Seq(BOOLEAN \X Nat) /\ Append(s, e) # <<>>
           /\ Len(Append(s, e)) = Len(s) + 1 /\ Append(s, e)[Len(s) + 1] = e
           /\ \A i \in 1..Len(s) : Append(s, e)[i] = s[i]
  OBVIOUS

LEMMA NotEmpty ==
    ASSUME NEW s \in Seq(BOOLEAN \X Nat), s # <<>>
    PROVE  Len(s) \in Nat \ {0}
  OBVIOUS

LEMMA OneIsLast ==
    ASSUME NEW n \in Nat \ {0}, NEW m, m = n - 1
    PROVE  m = 0 <=> n = 1
  OBVIOUS

LEMMA OneLess ==
    ASSUME NEW s \in Seq(BOOLEAN \X Nat), s # <<>>
    PROVE  /\ Tail(s) \in Seq(BOOLEAN \X Nat) /\ Len(s) \in Nat \ {0}
           /\ Len(Tail(s)) = Len(s) - 1
           /\ \A i \in 1..Len(s) - 1 : Tail(s)[i] = s[i + 1]
           /\ Head(s) = s[1] /\ s[1] \in BOOLEAN \X Nat
           /\ Tail(s) = <<>> <=> Len(s) = 1
<1>1. /\ Tail(s) \in Seq(BOOLEAN \X Nat) /\ Len(s) \in Nat \ {0}
      /\ Len(Tail(s)) = Len(s) - 1
      /\ \A i \in 1..Len(s) - 1 : Tail(s)[i] = s[i + 1]
      /\ Head(s) = s[1] /\ s[1] \in BOOLEAN \X Nat
  OBVIOUS
<1>2. Tail(s) = <<>> <=> Len(Tail(s)) = 0
  <2>1. CASE Tail(s) = <<>>
    BY <2>1
  <2>2. CASE Tail(s) # <<>>
    BY <1>1, <2>2, NotEmpty
  <2> QED BY <2>1, <2>2
<1>3. Len(Tail(s)) = 0 <=> Len(s) = 1
  BY <1>1, OneIsLast, Zenon
<1>4. Tail(s) = <<>> <=> Len(s) = 1
  BY <1>2, <1>3, Zenon
<1> QED BY <1>1, <1>4, Zenon

LEMMA NoMore == <<>> \in Seq(BOOLEAN \X Nat) /\ Len(<<>>) = 0
  OBVIOUS

\* The newest update is of no later revision than the present one.
LEMMA NewestKnown ==
    ASSUME AccountInv, NEW p \in Administered
    PROVE  Newest(p) \in BOOLEAN \X Nat /\ Newest(p)[2] <= revision[p]
<1>1. updates[p] \in Seq(BOOLEAN \X Nat) /\ told[p] \in BOOLEAN /\ recorded[p] \in Nat
  BY AccountAssumption DEF AccountInv, AccountTypeOK
<1>2. CASE updates[p] = <<>>
  BY <1>1, <1>2 DEF Newest, AccountInv, Announced
<1>3. CASE updates[p] # <<>>
  <2>1. Len(updates[p]) \in 1..Len(updates[p])
    BY <1>1, <1>3
  <2>2. Newest(p) = updates[p][Len(updates[p])]
    BY <1>3 DEF Newest
  <2>3. updates[p][Len(updates[p])] \in BOOLEAN \X Nat
    BY <1>1, <2>1
  <2> QED BY <2>1, <2>2, <2>3 DEF AccountInv, Announced
<1> QED BY <1>2, <1>3

\* What tells the manager nothing announces a new revision, or leaves the
\* account as it was.
LEMMA NothingTold ==
    ASSUME AccountInv, UNCHANGED telling,
           \A p \in Administered :
               \/ revision'[p] = revision[p] + 1
               \/ /\ revision'[p] = revision[p]
                  /\ ~adopted'[p] => ~adopted[p] /\ (memory'[p] = 0 <=> memory[p] = 0)
    PROVE  Announced'
<1> SUFFICES ASSUME NEW p \in Administered
             PROVE  /\ recorded'[p] <= revision'[p]
                    /\ \A i \in 1..Len(updates'[p]) : updates'[p][i][2] <= revision'[p]
                    /\ Newest(p)'[2] = revision'[p] /\ ~adopted'[p] =>
                          Newest(p)'[1] = (memory'[p] # 0)
  BY DEF Announced
<1>1. /\ recorded' = recorded /\ updates' = updates /\ Newest(p)' = Newest(p)
  BY DEF telling, Newest
<1>2. /\ revision[p] \in Nat /\ recorded[p] \in Nat
      /\ updates[p] \in Seq(BOOLEAN \X Nat)
  BY AccountAssumption DEF AccountInv, AccountTypeOK
<1>3. \A i \in 1..Len(updates[p]) : updates[p][i][2] \in Nat
  BY <1>2
<1>4. Newest(p)[2] \in Nat /\ Newest(p)[2] <= revision[p]
  BY NewestKnown
<1>5. /\ recorded[p] <= revision[p]
      /\ \A i \in 1..Len(updates[p]) : updates[p][i][2] <= revision[p]
      /\ Newest(p)[2] = revision[p] /\ ~adopted[p] => Newest(p)[1] = (memory[p] # 0)
  BY DEF AccountInv, Announced
<1>6. CASE revision'[p] = revision[p] + 1
  BY <1>1, <1>2, <1>3, <1>4, <1>5, <1>6
<1>7. CASE /\ revision'[p] = revision[p]
           /\ ~adopted'[p] => ~adopted[p] /\ (memory'[p] = 0 <=> memory[p] = 0)
  BY <1>1, <1>5, <1>7
<1> QED BY <1>6, <1>7

\* What is told last is true of the account as it now is.
LEMMA TrulyTold ==
    ASSUME AccountInv, NEW p \in Administered, NEW e \in BOOLEAN \X Nat,
           updates' = [updates EXCEPT ![p] = Append(@, e)],
           UNCHANGED <<told, recorded>>,
           revision'[p] \in Nat, revision[p] <= revision'[p],
           e[2] = revision'[p], e[1] = (memory'[p] # 0),
           \A q \in Administered \ {p} :
               /\ revision'[q] = revision[q] /\ adopted'[q] = adopted[q]
               /\ memory'[q] = memory[q]
    PROVE  updates' \in [Processes -> Seq(BOOLEAN \X Nat)] /\ Announced'
<1>p. p \in Processes
  BY AccountAssumption
<1>1. /\ updates[p] \in Seq(BOOLEAN \X Nat) /\ updates'[p] = Append(updates[p], e)
      /\ \A q \in Administered \ {p} : updates'[q] = updates[q]
      /\ recorded[p] \in Nat /\ revision[p] \in Nat
  BY AccountAssumption DEF AccountInv, AccountTypeOK
<1>2. /\ updates'[p] \in Seq(BOOLEAN \X Nat) /\ updates'[p] # <<>>
      /\ Len(updates'[p]) = Len(updates[p]) + 1 /\ updates'[p][Len(updates[p]) + 1] = e
      /\ \A i \in 1..Len(updates[p]) : updates'[p][i] = updates[p][i]
  BY <1>1, OneMore
<1>3. updates' \in [Processes -> Seq(BOOLEAN \X Nat)]
  BY <1>1, <1>2 DEF AccountInv, AccountTypeOK
<1>4. ASSUME NEW q \in Administered
      PROVE  /\ recorded'[q] <= revision'[q]
             /\ \A i \in 1..Len(updates'[q]) : updates'[q][i][2] <= revision'[q]
             /\ Newest(q)'[2] = revision'[q] /\ ~adopted'[q] =>
                   Newest(q)'[1] = (memory'[q] # 0)
  <2>1. CASE q = p
    <3>1. Newest(p)' = e
      BY <1>2 DEF Newest
    <3>2. \A i \in 1..Len(updates'[p]) : updates'[p][i][2] <= revision'[p]
      <4> SUFFICES ASSUME NEW i \in 1..Len(updates'[p])
                   PROVE  updates'[p][i][2] <= revision'[p]
        OBVIOUS
      <4>1. CASE i \in 1..Len(updates[p])
        <5>1. updates[p][i][2] \in Nat /\ updates[p][i][2] <= revision[p]
          BY <1>1, <4>1 DEF AccountInv, Announced
        <5> QED BY <5>1, <4>1, <1>1, <1>2
      <4>2. CASE i = Len(updates[p]) + 1
        BY <4>2, <1>2
      <4> QED BY <4>1, <4>2, <1>1, <1>2
    <3>3. recorded[p] <= revision[p]
      BY DEF AccountInv, Announced
    <3> QED BY <2>1, <3>1, <3>2, <3>3, <1>1
  <2>2. CASE q # p
    <3>1. updates'[q] = updates[q] /\ Newest(q)' = Newest(q)
      BY <2>2, <1>1 DEF Newest
    <3> QED BY <2>2, <3>1 DEF AccountInv, Announced
  <2> QED BY <2>1, <2>2
<1> QED BY <1>3, <1>4 DEF Announced

LEMMA AccountBegins == AccountInit => AccountInv
<1> SUFFICES ASSUME AccountInit PROVE AccountInv
  OBVIOUS
<1>1. AccountTypeOK
  <2>1. updates \in [Processes -> Seq(BOOLEAN \X Nat)]
    BY NoMore DEF AccountInit
  <2> QED BY <2>1 DEF AccountInit, AccountTypeOK
<1>2. Known /\ Secret /\ Staged
  BY DEF AccountInit, Known, Secret, Staged
<1>3. Announced
  <2>1. ASSUME NEW p \in Administered
        PROVE  /\ recorded[p] <= revision[p]
               /\ \A i \in 1..Len(updates[p]) : updates[p][i][2] <= revision[p]
               /\ Newest(p)[1] = (memory[p] # 0)
    <3>1. /\ updates[p] = <<>> /\ recorded[p] = 1 /\ revision[p] = 1 /\ memory[p] = 1
          /\ Newest(p) = <<told[p], 1>>
      BY AccountAssumption DEF AccountInit, Newest
    <3>2. told[p]
      BY AccountAssumption DEF AccountInit
    <3>3. recorded[p] <= revision[p] /\ 1..Len(updates[p]) = {}
      BY <3>1, NoMore
    <3>4. Newest(p)[1] = told[p] /\ memory[p] # 0
      BY <3>1
    <3> QED BY <3>2, <3>3, <3>4
  <2> QED BY <2>1 DEF Announced
<1>4. DisconnectFinal
  BY DEF AccountInit, DisconnectFinal
<1> QED BY <1>1, <1>2, <1>3, <1>4 DEF AccountInv

LEMMA StartLoginKept ==
    ASSUME AccountInv, NEW p \in Administered, StartLogin(p) PROVE AccountInv'
<1>p. p \in Processes
  BY AccountAssumption
<1>1. AccountTypeOK'
  BY DEF AccountInv, AccountTypeOK, StartLogin, server, telling
<1>2. Known'
  BY DEF AccountInv, AccountTypeOK, Known, StartLogin, server
<1>3. Secret'
  BY DEF AccountInv, Secret, Unseen, StartLogin
<1>4. Staged'
  BY DEF AccountInv, AccountTypeOK, Staged, StartLogin
<1>5. Announced'
  BY NothingTold DEF StartLogin
<1>6. DisconnectFinal'
  BY DEF AccountInv, AccountTypeOK, DisconnectFinal, Tokens, StartLogin
<1> QED BY <1>1, <1>2, <1>3, <1>4, <1>5, <1>6 DEF AccountInv

LEMMA ExchangeKept ==
    ASSUME AccountInv, NEW p \in Administered, Exchange(p) PROVE AccountInv'
<1>p. p \in Processes
  BY AccountAssumption
<1>1. AccountTypeOK'
  <2>1. issued' \in Nat /\ grant' \in [Processes -> Nat]
    BY <1>p DEF AccountInv, AccountTypeOK, Exchange, Issue
  <2>2. login' \in [Processes -> {"none", "pending", "locking", "writing", "installing"}]
    BY DEF AccountInv, AccountTypeOK, Exchange
  <2>3. UNCHANGED <<file, memory, user, fetched, removal, strays, strayed, revision,
                    recorded, updates, told, adopted, buried>>
    BY DEF Exchange, telling
  <2> QED BY <2>1, <2>2, <2>3 DEF AccountInv, AccountTypeOK
<1>n. /\ issued' = issued + 1
      /\ grant' = [grant EXCEPT ![p] = issued + 1]
      /\ UNCHANGED <<file, memory, fetched, strays, strayed, buried>>
  BY DEF Exchange, Issue
<1>2. Known'
  <2> SUFFICES ASSUME ~strayed
               PROVE  /\ strays = {} /\ file <= issued + 1
                      /\ \A q \in Processes :
                            /\ memory[q] <= issued + 1 /\ fetched'[q] <= issued + 1
                            /\ grant'[q] <= issued + 1
                            /\ \A t \in buried[q] : t <= issued + 1
    BY <1>n DEF Known
  <2>1. \A q \in Processes : \A t \in buried[q] : t \in Nat
    BY DEF AccountInv, AccountTypeOK, Tokens
  <2> QED BY <1>p, <1>n, <2>1 DEF AccountInv, AccountTypeOK, Known
<1>3. Secret'
  <2>1. /\ UNCHANGED user
        /\ login' = [login EXCEPT ![p] = "locking"]
    BY DEF Exchange
  <2>2. ASSUME ~strayed
        PROVE  /\ Unseen(issued + 1)
               /\ \A q \in Processes :
                     grant[q] # issued + 1 /\ fetched[q] # issued + 1
    BY <2>2 DEF AccountInv, AccountTypeOK, Known, Unseen
  <2>3. ASSUME ~strayed, NEW q \in Processes, user[q] = "saving"
        PROVE  /\ fetched[q] # 0 /\ Unseen(fetched[q])
               /\ \A r \in Processes :
                     grant'[r] # fetched[q] /\ (r # q => fetched[r] # fetched[q])
    BY <1>p, <1>n, <2>2, <2>3 DEF AccountInv, AccountTypeOK, Secret
  <2>4. ASSUME ~strayed, NEW q \in Processes, login'[q] \in {"locking", "writing"}
        PROVE  /\ grant'[q] # 0 /\ Unseen(grant'[q])
               /\ \A r \in Processes :
                     fetched[r] # grant'[q] /\ (r # q => grant'[r] # grant'[q])
    BY <1>p, <1>n, <2>1, <2>2, <2>4 DEF AccountInv, AccountTypeOK, Secret
  <2> QED BY <1>n, <2>1, <2>3, <2>4 DEF Secret, Unseen
<1>4. Staged'
  BY DEF AccountInv, AccountTypeOK, Staged, Exchange
<1>5. Announced'
  BY NothingTold DEF Exchange
<1>6. DisconnectFinal'
  BY DEF AccountInv, AccountTypeOK, Known, DisconnectFinal, Tokens, Exchange
<1> QED BY <1>1, <1>2, <1>3, <1>4, <1>5, <1>6 DEF AccountInv

LEMMA LoginFailsKept ==
    ASSUME AccountInv, NEW p \in Administered, LoginFails(p) PROVE AccountInv'
<1>p. p \in Processes
  BY AccountAssumption
<1>1. AccountTypeOK'
  BY DEF AccountInv, AccountTypeOK, LoginFails, server, telling
<1>2. Known'
  BY DEF AccountInv, Known, LoginFails, server
<1>3. Secret'
  BY DEF AccountInv, Secret, Unseen, LoginFails
<1>4. Staged'
  BY DEF AccountInv, Staged, LoginFails
<1>5. Announced'
  BY NothingTold DEF LoginFails
<1>6. DisconnectFinal'
  BY DEF AccountInv, DisconnectFinal, LoginFails
<1> QED BY <1>1, <1>2, <1>3, <1>4, <1>5, <1>6 DEF AccountInv

LEMMA LoginWritesKept ==
    ASSUME AccountInv, NEW p \in Administered, LoginWrites(p) PROVE AccountInv'
<1>p. p \in Processes
  BY AccountAssumption
<1>1. AccountTypeOK'
  BY DEF AccountInv, AccountTypeOK, LoginWrites, server, telling
<1>2. Known'
  BY DEF AccountInv, Known, LoginWrites, server
<1>3. Secret'
  BY DEF AccountInv, Secret, Unseen, LoginWrites
<1>4. Staged'
  BY DEF AccountInv, Staged, LoginWrites
<1>5. Announced'
  BY NothingTold DEF LoginWrites
<1>6. DisconnectFinal'
  BY DEF AccountInv, DisconnectFinal, LoginWrites
<1> QED BY <1>1, <1>2, <1>3, <1>4, <1>5, <1>6 DEF AccountInv

LEMMA LoginWrittenKept ==
    ASSUME AccountInv, NEW p \in Administered, LoginWritten(p) PROVE AccountInv'
<1>p. p \in Processes
  BY AccountAssumption
<1>1. AccountTypeOK'
  BY <1>p DEF AccountInv, AccountTypeOK, LoginWritten, server, telling
<1>2. Known'
  BY AccountAssumption DEF AccountInv, Known, LoginWritten, server
<1>3. Secret'
  BY AccountAssumption DEF AccountInv, AccountTypeOK, Secret, Unseen, LoginWritten
<1>4. Staged'
  BY DEF AccountInv, Staged, LoginWritten
<1>5. Announced'
  BY NothingTold DEF LoginWritten
<1>6. DisconnectFinal'
  BY AccountAssumption DEF AccountInv, Secret, Unseen, DisconnectFinal, LoginWritten
<1> QED BY <1>1, <1>2, <1>3, <1>4, <1>5, <1>6 DEF AccountInv

LEMMA InstallKept ==
    ASSUME AccountInv, NEW p \in Administered, Install(p) PROVE AccountInv'
<1>p. p \in Processes
  BY AccountAssumption
<1>1. AccountTypeOK'
  <2>1. /\ memory' \in [Processes -> Nat] /\ grant' \in [Processes -> Nat]
        /\ revision' \in [Processes -> Nat]
    BY <1>p DEF AccountInv, AccountTypeOK, Install, Bump
  <2>2. login' \in [Processes -> {"none", "pending", "locking", "writing", "installing"}]
    BY DEF AccountInv, AccountTypeOK, Install
  <2>3. UNCHANGED <<file, issued, user, fetched, removal, strays, strayed, recorded,
                    updates, told, adopted, buried>>
    BY DEF Install, server, telling
  <2> QED BY <2>1, <2>2, <2>3 DEF AccountInv, AccountTypeOK
<1>2. Known'
  BY DEF AccountInv, AccountTypeOK, Known, Install, server
<1>3. Secret'
  <2>1. /\ UNCHANGED <<file, user, fetched, strayed, buried>>
        /\ memory' = [memory EXCEPT ![p] = grant[p]]
        /\ grant' = [grant EXCEPT ![p] = 0]
        /\ login' = [login EXCEPT ![p] = "none"]
    BY DEF Install
  <2>2. ASSUME ~strayed, NEW q \in Processes, user[q] = "saving"
        PROVE  /\ fetched[q] # 0 /\ Unseen(fetched[q])'
               /\ \A r \in Processes :
                     grant'[r] # fetched[q] /\ (r # q => fetched[r] # fetched[q])
    BY <1>p, <2>1, <2>2 DEF AccountInv, AccountTypeOK, Secret, Unseen
  <2>3. ASSUME ~strayed, NEW q \in Processes, login'[q] \in {"locking", "writing"}
        PROVE  /\ grant'[q] # 0 /\ Unseen(grant[q])' /\ grant'[q] = grant[q]
               /\ \A r \in Processes :
                     fetched[r] # grant[q] /\ (r # q => grant'[r] # grant[q])
    BY <1>p, <2>1, <2>3 DEF AccountInv, AccountTypeOK, Secret, Unseen
  <2> QED BY <2>1, <2>2, <2>3 DEF Secret, Unseen
<1>4. Staged'
  BY DEF AccountInv, Staged, Install
<1>5. Announced'
  BY NothingTold DEF AccountInv, AccountTypeOK, Install, Bump
<1>6. DisconnectFinal'
  BY DEF AccountInv, AccountTypeOK, Staged, DisconnectFinal, Install
<1> QED BY <1>1, <1>2, <1>3, <1>4, <1>5, <1>6 DEF AccountInv

LEMMA CancelLoginKept ==
    ASSUME AccountInv, NEW p \in Administered, CancelLogin(p) PROVE AccountInv'
<1>p. p \in Processes
  BY AccountAssumption
<1>1. AccountTypeOK'
  <2>1. login' \in [Processes -> {"none", "pending", "locking", "writing", "installing"}]
    BY DEF AccountInv, AccountTypeOK, CancelLogin, Detach
  <2>2. strays' \subseteq Processes \X Nat
    BY <1>p DEF AccountInv, AccountTypeOK, CancelLogin, Detach
  <2>3. strayed' \in BOOLEAN
    BY DEF AccountInv, AccountTypeOK, CancelLogin, Detach
  <2>4. UNCHANGED <<file, memory, user, fetched, grant, removal, revision, recorded,
                    updates, told, adopted, issued, buried>>
    BY DEF CancelLogin, server, telling
  <2> QED BY <2>1, <2>2, <2>3, <2>4 DEF AccountInv, AccountTypeOK
<1>2. Known'
  BY DEF AccountInv, Known, CancelLogin, Detach, server
<1>3. Secret'
  <2>1. /\ UNCHANGED <<file, memory, user, fetched, grant, buried>>
        /\ strayed => strayed'
        /\ \A q \in Processes : login'[q] = login[q] \/ login'[q] = "none"
    BY DEF AccountInv, AccountTypeOK, CancelLogin, Detach
  <2> QED BY <2>1 DEF AccountInv, Secret, Unseen
<1>4. Staged'
  BY DEF AccountInv, Staged, CancelLogin, Detach
<1>5. Announced'
  BY NothingTold DEF CancelLogin
<1>6. DisconnectFinal'
  BY DEF AccountInv, AccountTypeOK, DisconnectFinal, CancelLogin, Detach
<1> QED BY <1>1, <1>2, <1>3, <1>4, <1>5, <1>6 DEF AccountInv

LEMMA DisconnectKept ==
    ASSUME AccountInv, NEW p \in Administered, Disconnect(p) PROVE AccountInv'
<1>p. p \in Processes
  BY AccountAssumption
<1>1. AccountTypeOK'
  BY <1>p DEF AccountInv, AccountTypeOK, Disconnect, Detach, server, telling
<1>2. Known'
  BY DEF AccountInv, Known, Disconnect, Detach, server
<1>3. Secret'
  BY DEF AccountInv, AccountTypeOK, Secret, Unseen, Disconnect, Detach
<1>4. Staged'
  BY DEF AccountInv, AccountTypeOK, Staged, Disconnect, Detach
<1>5. Announced'
  BY NothingTold DEF Disconnect
<1>6. DisconnectFinal'
  BY DEF AccountInv, AccountTypeOK, DisconnectFinal, Disconnect, Detach
<1> QED BY <1>1, <1>2, <1>3, <1>4, <1>5, <1>6 DEF AccountInv

LEMMA RevokeKept ==
    ASSUME AccountInv, NEW p \in Administered, Revoke(p) PROVE AccountInv'
<1>p. p \in Processes
  BY AccountAssumption
<1>1. AccountTypeOK'
  BY DEF AccountInv, AccountTypeOK, Revoke, telling
<1>2. Known'
  BY DEF AccountInv, Known, Revoke
<1>3. Secret'
  BY DEF AccountInv, Secret, Unseen, Revoke
<1>4. Staged'
  BY DEF AccountInv, Staged, Revoke
<1>5. Announced'
  BY NothingTold DEF Revoke
<1>6. DisconnectFinal'
  BY DEF AccountInv, DisconnectFinal, Revoke
<1> QED BY <1>1, <1>2, <1>3, <1>4, <1>5, <1>6 DEF AccountInv

LEMMA UnlinkKept ==
    ASSUME AccountInv, NEW p \in Administered, Unlink(p) PROVE AccountInv'
<1>p. p \in Processes
  BY AccountAssumption
<1>r. /\ revision[p] \in Nat /\ revision'[p] = revision[p] + 1 /\ memory'[p] = 0
      /\ \A q \in Administered \ {p} :
            /\ revision'[q] = revision[q] /\ adopted'[q] = adopted[q]
            /\ memory'[q] = memory[q]
  BY AccountAssumption DEF AccountInv, AccountTypeOK, Unlink, Bump
<1>t. updates' \in [Processes -> Seq(BOOLEAN \X Nat)] /\ Announced'
  <2>1. revision[p] + 1 \in Nat /\ FALSE \in BOOLEAN
    BY <1>r
  <2>2. <<FALSE, revision[p] + 1>> \in BOOLEAN \X Nat
    BY <2>1, Zenon
  <2>3. /\ updates' = [updates EXCEPT ![p] = Append(@, <<FALSE, revision[p] + 1>>)]
        /\ UNCHANGED <<told, recorded>>
    BY DEF Unlink
  <2>4. /\ <<FALSE, revision[p] + 1>>[2] = revision'[p]
        /\ <<FALSE, revision[p] + 1>>[1] = (memory'[p] # 0)
    BY <1>r
  <2>5. revision'[p] \in Nat /\ revision[p] <= revision'[p]
    BY <1>r
  <2> QED BY <1>r, <2>2, <2>3, <2>4, <2>5, TrulyTold
<1>1. AccountTypeOK'
  <2>1. buried' \in [Processes -> SUBSET Tokens]
    BY DEF AccountInv, AccountTypeOK, Unlink
  <2> QED BY <1>t, <2>1, <1>p DEF AccountInv, AccountTypeOK, Unlink, Bump, Free, server
<1>2. Known'
  BY DEF AccountInv, AccountTypeOK, Known, Unlink, server
<1>3. Secret'
  <2>1. /\ UNCHANGED <<fetched, grant, login, strayed>>
        /\ file' = 0 /\ memory' = [memory EXCEPT ![p] = 0]
        /\ user[p] = "unlinking" /\ user' = [user EXCEPT ![p] = "free"]
        /\ buried' = [buried EXCEPT ![p] = @ \cup
                         ({memory[p], grant[p], fetched[p]} \cap Tokens)]
    BY DEF Unlink, Free
  <2>2. login[p] = "none"
    BY <1>p, <2>1 DEF AccountInv, Staged
  <2>3. ASSUME NEW t, t # 0, Unseen(t), t # grant[p], t # fetched[p] PROVE Unseen(t)'
    BY <1>p, <2>1, <2>3 DEF AccountInv, AccountTypeOK, Unseen
  <2>4. ASSUME ~strayed, NEW q \in Processes, user'[q] = "saving", NEW t, t = fetched[q]
        PROVE  /\ t # 0 /\ Unseen(t)'
               /\ \A r \in Processes : grant[r] # t /\ (r # q => fetched[r] # t)
    <3>1. q # p /\ user[q] = "saving"
      BY <1>p, <2>1, <2>4 DEF AccountInv, AccountTypeOK
    <3>2. /\ t # 0 /\ Unseen(t)
          /\ \A r \in Processes : grant[r] # t /\ (r # q => fetched[r] # t)
      BY <2>4, <3>1 DEF AccountInv, Secret
    <3> QED BY <1>p, <2>3, <3>1, <3>2
  <2>5. ASSUME ~strayed, NEW q \in Processes, login[q] \in {"locking", "writing"},
               NEW t, t = grant[q]
        PROVE  /\ t # 0 /\ Unseen(t)'
               /\ \A r \in Processes : fetched[r] # t /\ (r # q => grant[r] # t)
    <3>1. q # p
      BY <2>2, <2>5
    <3>2. /\ t # 0 /\ Unseen(t)
          /\ \A r \in Processes : fetched[r] # t /\ (r # q => grant[r] # t)
      BY <2>5 DEF AccountInv, Secret
    <3> QED BY <1>p, <2>3, <3>1, <3>2
  <2> QED BY <2>1, <2>4, <2>5 DEF Secret, Unseen
<1>4. Staged'
  BY DEF AccountInv, AccountTypeOK, Staged, Unlink, Free
<1>5. Announced'
  BY <1>t
<1>6. DisconnectFinal'
  BY DEF AccountInv, AccountTypeOK, Staged, DisconnectFinal, Tokens, Unlink
<1> QED BY <1>1, <1>2, <1>3, <1>4, <1>5, <1>6 DEF AccountInv

LEMMA UnlinkTimesOutKept ==
    ASSUME AccountInv, NEW p \in Administered, UnlinkTimesOut(p) PROVE AccountInv'
<1>p. p \in Processes
  BY AccountAssumption
<1>1. AccountTypeOK'
  BY DEF AccountInv, AccountTypeOK, UnlinkTimesOut, Free, server, telling
<1>2. Known'
  BY DEF AccountInv, Known, UnlinkTimesOut, server
<1>3. Secret'
  BY DEF AccountInv, Secret, Unseen, UnlinkTimesOut, Free
<1>4. Staged'
  BY DEF AccountInv, AccountTypeOK, Staged, UnlinkTimesOut, Free
<1>5. Announced'
  BY NothingTold DEF UnlinkTimesOut
<1>6. DisconnectFinal'
  BY DEF AccountInv, Staged, DisconnectFinal, UnlinkTimesOut
<1> QED BY <1>1, <1>2, <1>3, <1>4, <1>5, <1>6 DEF AccountInv

LEMMA AccessKept ==
    ASSUME AccountInv, NEW p \in Processes, Access(p) PROVE AccountInv'
<1>p. p \in Processes
  BY AccountAssumption
<1>1. AccountTypeOK'
  BY DEF AccountInv, AccountTypeOK, Access, server, telling
<1>2. Known'
  BY DEF AccountInv, Known, Access, server
<1>3. Secret'
  BY DEF AccountInv, Secret, Unseen, Access
<1>4. Staged'
  BY DEF AccountInv, Staged, Access
<1>5. Announced'
  BY NothingTold DEF Access
<1>6. DisconnectFinal'
  BY DEF AccountInv, DisconnectFinal, Access
<1> QED BY <1>1, <1>2, <1>3, <1>4, <1>5, <1>6 DEF AccountInv

LEMMA RecoverKept ==
    ASSUME AccountInv, NEW p \in Processes, Recover(p) PROVE AccountInv'
<1>p. p \in Processes
  BY AccountAssumption
<1>1. AccountTypeOK'
  <2>1. CASE file # 0 /\ file # memory[p]
    <3>1. adopted' \in [Processes -> BOOLEAN]
      BY <2>1, Zenon DEF Recover, AccountInv, AccountTypeOK
    <3>2. memory' \in [Processes -> Nat]
      BY <2>1 DEF Recover, AccountInv, AccountTypeOK
    <3>3. UNCHANGED user
      BY <2>1 DEF Recover
    <3> QED BY <3>1, <3>2, <3>3 DEF AccountInv, AccountTypeOK, Recover, server, telling
  <2>2. CASE file \in {0, memory[p]}
    BY <2>2 DEF AccountInv, AccountTypeOK, Recover, server, telling
  <2> QED BY <2>1, <2>2
<1>2. Known'
  BY DEF AccountInv, AccountTypeOK, Known, Recover, server
<1>3. Secret'
  <2>1. /\ UNCHANGED <<file, fetched, grant, login, strayed, buried>>
        /\ \A q \in Processes : user'[q] = "saving" => user[q] = "saving"
        /\ \A q \in Processes : memory'[q] = memory[q] \/ memory'[q] = file
    BY DEF AccountInv, AccountTypeOK, Recover
  <2> QED BY <2>1 DEF AccountInv, Secret, Unseen
<1>4. Staged'
  BY DEF AccountInv, AccountTypeOK, Staged, Recover
<1>5. Announced'
  BY AccountAssumption, NothingTold DEF AccountInv, AccountTypeOK, Recover
<1>6. DisconnectFinal'
  <2>1. UNCHANGED <<file, grant, login, removal, strayed, buried>>
    BY DEF Recover
  <2>2. memory' = memory \/ (file # 0 /\ memory' = [memory EXCEPT ![p] = file])
    BY DEF Recover
  <2>3. ASSUME ~strayed, NEW q \in Processes PROVE memory'[q] \notin buried[q]
    BY <1>p, <2>2, <2>3 DEF AccountInv, AccountTypeOK, DisconnectFinal
  <2> QED BY <2>1, <2>3 DEF AccountInv, DisconnectFinal
<1> QED BY <1>1, <1>2, <1>3, <1>4, <1>5, <1>6 DEF AccountInv

LEMMA RefreshLocksKept ==
    ASSUME AccountInv, NEW p \in Processes, RefreshLocks(p) PROVE AccountInv'
<1>p. p \in Processes
  BY AccountAssumption
<1>1. AccountTypeOK'
  <2>1. memory' \in [Processes -> Nat]
    BY DEF AccountInv, AccountTypeOK, RefreshLocks
  <2>2. user' = [user EXCEPT ![p] = "free"] \/ user' = [user EXCEPT ![p] = "posting"]
    BY DEF RefreshLocks, Free
  <2>3. user' \in [Processes -> {"free", "unlinking", "relocking", "posting", "saving"}]
    BY <2>2 DEF AccountInv, AccountTypeOK
  <2> QED BY <2>1, <2>3 DEF AccountInv, AccountTypeOK, RefreshLocks, server, telling
<1>2. Known'
  BY DEF AccountInv, AccountTypeOK, Known, RefreshLocks, server
<1>3. Secret'
  <2>1. /\ UNCHANGED <<file, fetched, grant, login, strayed, buried>>
        /\ \A q \in Processes : user'[q] = "saving" => user[q] = "saving"
        /\ \A q \in Processes : memory'[q] = memory[q] \/ memory'[q] = file
    BY DEF AccountInv, AccountTypeOK, RefreshLocks, Free
  <2> QED BY <2>1 DEF AccountInv, Secret, Unseen
<1>4. Staged'
  BY DEF AccountInv, AccountTypeOK, Staged, RefreshLocks, Free
<1>5. Announced'
  BY AccountAssumption, NothingTold DEF AccountInv, AccountTypeOK, Staged, RefreshLocks
<1>6. DisconnectFinal'
  <2>1. UNCHANGED <<file, grant, login, removal, strayed, buried>>
    BY DEF RefreshLocks
  <2>2. memory' = memory \/ (file # 0 /\ memory' = [memory EXCEPT ![p] = file])
    BY DEF RefreshLocks
  <2>3. ASSUME ~strayed, NEW q \in Processes PROVE memory'[q] \notin buried[q]
    BY <1>p, <2>2, <2>3 DEF AccountInv, AccountTypeOK, DisconnectFinal
  <2> QED BY <2>1, <2>3 DEF AccountInv, DisconnectFinal
<1> QED BY <1>1, <1>2, <1>3, <1>4, <1>5, <1>6 DEF AccountInv

LEMMA RefreshTimesOutKept ==
    ASSUME AccountInv, NEW p \in Processes, RefreshTimesOut(p) PROVE AccountInv'
<1>p. p \in Processes
  BY AccountAssumption
<1>1. AccountTypeOK'
  BY DEF AccountInv, AccountTypeOK, RefreshTimesOut, Free, server, telling
<1>2. Known'
  BY DEF AccountInv, Known, RefreshTimesOut, server
<1>3. Secret'
  BY DEF AccountInv, Secret, Unseen, RefreshTimesOut, Free
<1>4. Staged'
  BY DEF AccountInv, Staged, RefreshTimesOut, Free
<1>5. Announced'
  BY NothingTold DEF RefreshTimesOut
<1>6. DisconnectFinal'
  BY DEF AccountInv, DisconnectFinal, RefreshTimesOut
<1> QED BY <1>1, <1>2, <1>3, <1>4, <1>5, <1>6 DEF AccountInv

LEMMA RenewedKept ==
    ASSUME AccountInv, NEW p \in Processes, Renewed(p) PROVE AccountInv'
<1>p. p \in Processes
  BY AccountAssumption
<1>1. AccountTypeOK'
  <2>1. issued' \in Nat /\ fetched' \in [Processes -> Nat]
    BY DEF AccountInv, AccountTypeOK, Renewed, Issue
  <2>2. user' \in [Processes -> {"free", "unlinking", "relocking", "posting", "saving"}]
    BY DEF AccountInv, AccountTypeOK, Renewed
  <2>3. UNCHANGED <<file, memory, login, grant, removal, strays, strayed, revision,
                    recorded, updates, told, adopted, buried>>
    BY DEF Renewed, telling
  <2> QED BY <2>1, <2>2, <2>3 DEF AccountInv, AccountTypeOK
<1>n. /\ issued' = issued + 1
      /\ fetched' = [fetched EXCEPT ![p] = issued + 1]
      /\ UNCHANGED <<file, memory, grant, strays, strayed, buried>>
  BY DEF Renewed, Issue
<1>2. Known'
  <2> SUFFICES ASSUME ~strayed
               PROVE  /\ strays = {} /\ file <= issued + 1
                      /\ \A q \in Processes :
                            /\ memory[q] <= issued + 1 /\ fetched'[q] <= issued + 1
                            /\ grant'[q] <= issued + 1
                            /\ \A t \in buried[q] : t <= issued + 1
    BY <1>n DEF Known
  <2>1. \A q \in Processes : \A t \in buried[q] : t \in Nat
    BY DEF AccountInv, AccountTypeOK, Tokens
  <2> QED BY <1>p, <1>n, <2>1 DEF AccountInv, AccountTypeOK, Known
<1>3. Secret'
  <2>1. ~strayed => \A q \in Processes :
           /\ Unseen(issued + 1) /\ grant[q] # issued + 1 /\ fetched[q] # issued + 1
    <3>1. \A q \in Processes : \A t \in buried[q] : t \in Nat
      BY DEF AccountInv, AccountTypeOK, Tokens
    <3>2. ASSUME ~strayed, NEW q \in Processes
          PROVE  /\ memory[q] # issued + 1 /\ issued + 1 \notin buried[q]
                 /\ grant[q] # issued + 1 /\ fetched[q] # issued + 1
      BY <3>1, <3>2 DEF AccountInv, AccountTypeOK, Known
    <3>3. ~strayed => file # issued + 1
      BY DEF AccountInv, AccountTypeOK, Known
    <3> QED BY <3>2, <3>3 DEF Unseen
  <2>2. /\ UNCHANGED login
        /\ \A q \in Processes :
              /\ user'[q] = "saving" <=> user[q] = "saving" \/ q = p
              /\ fetched'[q] = IF q = p THEN issued + 1 ELSE fetched[q]
    BY <1>n DEF AccountInv, AccountTypeOK, Renewed
  <2>3. issued + 1 # 0
    BY DEF AccountInv, AccountTypeOK
  <2>4. \A t : Unseen(t)' <=> Unseen(t)
    BY <1>n DEF Unseen
  <2> QED BY <1>p, <1>n, <2>1, <2>2, <2>3, <2>4 DEF AccountInv, Secret
<1>4. Staged'
  BY DEF AccountInv, Staged, Renewed
<1>5. Announced'
  BY NothingTold DEF Renewed
<1>6. DisconnectFinal'
  BY DEF AccountInv, DisconnectFinal, Renewed
<1> QED BY <1>1, <1>2, <1>3, <1>4, <1>5, <1>6 DEF AccountInv

LEMMA SavedKept ==
    ASSUME AccountInv, NEW p \in Processes, Saved(p) PROVE AccountInv'
<1>p. p \in Processes
  BY AccountAssumption
<1>1. AccountTypeOK'
  <2>1. /\ file' \in Nat /\ memory' \in [Processes -> Nat]
        /\ revision' \in [Processes -> Nat]
    BY <1>p DEF AccountInv, AccountTypeOK, Saved, Bump
  <2>2. user' \in [Processes -> {"free", "unlinking", "relocking", "posting", "saving"}]
    BY DEF AccountInv, AccountTypeOK, Saved, Free
  <2>3. UNCHANGED <<fetched, login, grant, removal, strays, strayed, recorded, updates,
                    told, adopted, issued, buried>>
    BY DEF Saved, server, telling
  <2> QED BY <2>1, <2>2, <2>3 DEF AccountInv, AccountTypeOK
<1>2. Known'
  BY DEF AccountInv, Known, Saved, server
<1>3. Secret'
  BY DEF AccountInv, AccountTypeOK, Secret, Unseen, Saved, Free
<1>4. Staged'
  BY DEF AccountInv, AccountTypeOK, Staged, Saved, Free
<1>5. Announced'
  BY NothingTold DEF AccountInv, AccountTypeOK, Saved, Bump
<1>6. DisconnectFinal'
  BY DEF AccountInv, Secret, Unseen, DisconnectFinal, Saved
<1> QED BY <1>1, <1>2, <1>3, <1>4, <1>5, <1>6 DEF AccountInv

LEMMA RefusedKept ==
    ASSUME AccountInv, NEW p \in Processes, Refused(p) PROVE AccountInv'
<1>p. p \in Processes
  BY AccountAssumption
<1>1. AccountTypeOK'
  BY DEF AccountInv, AccountTypeOK, Refused, Lapses, Bump, Free, server, telling
<1>2. Known'
  BY DEF AccountInv, AccountTypeOK, Known, Refused, server
<1>3. Secret'
  BY DEF AccountInv, Secret, Unseen, Refused, Free
<1>4. Staged'
  BY DEF AccountInv, AccountTypeOK, Staged, Refused, Free
<1>5. Announced'
  BY NothingTold DEF AccountInv, AccountTypeOK, Refused, Lapses, Bump
<1>6. DisconnectFinal'
  BY DEF AccountInv, AccountTypeOK, DisconnectFinal, Tokens, Refused
<1> QED BY <1>1, <1>2, <1>3, <1>4, <1>5, <1>6 DEF AccountInv

LEMMA RefreshFailsKept ==
    ASSUME AccountInv, NEW p \in Processes, RefreshFails(p) PROVE AccountInv'
<1>p. p \in Processes
  BY AccountAssumption
<1>1. AccountTypeOK'
  <2>1. issued' \in Nat
    BY DEF AccountInv, AccountTypeOK, RefreshFails, Issue, server
  <2>2. strayed' \in BOOLEAN /\ strays' \subseteq Processes \X Nat
    <3>1. CASE user[p] = "saving"
      <4>1. fetched[p] \in Nat
        BY DEF AccountInv, AccountTypeOK
      <4>2. strays' = strays \cup {<<p, fetched[p]>>} /\ strayed' = TRUE
        BY <3>1 DEF RefreshFails
      <4> QED BY <1>p, <4>1, <4>2 DEF AccountInv, AccountTypeOK
    <3>2. CASE user[p] # "saving"
      BY <3>2 DEF AccountInv, AccountTypeOK, RefreshFails
    <3> QED BY <3>1, <3>2
  <2>3. user' \in [Processes -> {"free", "unlinking", "relocking", "posting", "saving"}]
    BY DEF AccountInv, AccountTypeOK, RefreshFails, GivesUp, Free
  <2> QED BY <2>1, <2>2, <2>3 DEF AccountInv, AccountTypeOK, RefreshFails, telling
<1>2. Known'
  BY DEF AccountInv, AccountTypeOK, Tokens, Known, RefreshFails, Issue, server
<1>3. Secret'
  BY DEF AccountInv, Secret, Unseen, RefreshFails, GivesUp, Free
<1>4. Staged'
  BY DEF AccountInv, Staged, RefreshFails, GivesUp, Free
<1>5. Announced'
  BY NothingTold DEF RefreshFails
<1>6. DisconnectFinal'
  BY DEF AccountInv, DisconnectFinal, RefreshFails
<1> QED BY <1>1, <1>2, <1>3, <1>4, <1>5, <1>6 DEF AccountInv

LEMMA StrayLandsKept ==
    ASSUME AccountInv, NEW p \in Processes, StrayLands(p) PROVE AccountInv'
<1>p. p \in Processes
  BY AccountAssumption
<1>1. AccountTypeOK'
  <2>1. file' \in Nat /\ strays' \subseteq Processes \X Nat
    BY DEF AccountInv, AccountTypeOK, StrayLands
  <2>2. UNCHANGED <<memory, user, fetched, login, grant, removal, strayed, revision,
                    recorded, updates, told, adopted, issued, buried>>
    BY DEF StrayLands, server, telling
  <2> QED BY <2>1, <2>2 DEF AccountInv, AccountTypeOK
<1>2. Known'
  BY DEF AccountInv, Known, StrayLands
<1>3. Secret'
  BY DEF AccountInv, Known, Secret, StrayLands
<1>4. Staged'
  BY DEF AccountInv, Staged, StrayLands
<1>5. Announced'
  BY NothingTold DEF StrayLands
<1>6. DisconnectFinal'
  BY DEF AccountInv, Known, DisconnectFinal, StrayLands
<1> QED BY <1>1, <1>2, <1>3, <1>4, <1>5, <1>6 DEF AccountInv

LEMMA PollKept ==
    ASSUME AccountInv, NEW p \in Administered, Poll(p) PROVE AccountInv'
<1>p. p \in Processes
  BY AccountAssumption
<1>e. <<memory[p] # 0, revision[p]>> \in BOOLEAN \X Nat
  BY <1>p DEF AccountInv, AccountTypeOK
<1>t. updates' \in [Processes -> Seq(BOOLEAN \X Nat)] /\ Announced'
  <2>1. revision[p] \in Nat
    BY <1>p DEF AccountInv, AccountTypeOK
  <2>2. /\ updates' = [updates EXCEPT ![p] = Append(@, <<memory[p] # 0, revision[p]>>)]
        /\ UNCHANGED <<told, recorded, revision, adopted, memory>>
    BY DEF Poll
  <2>3. /\ <<memory[p] # 0, revision[p]>>[2] = revision'[p]
        /\ <<memory[p] # 0, revision[p]>>[1] = (memory'[p] # 0)
    BY <2>2
  <2>4. revision'[p] \in Nat /\ revision[p] <= revision'[p]
    BY <2>1, <2>2
  <2>5. /\ UNCHANGED <<told, recorded>>
        /\ \A q \in Administered \ {p} :
              /\ revision'[q] = revision[q] /\ adopted'[q] = adopted[q]
              /\ memory'[q] = memory[q]
    BY <2>2
  <2>6. updates' = [updates EXCEPT ![p] = Append(@, <<memory[p] # 0, revision[p]>>)]
    BY <2>2
  <2> QED BY <1>e, <2>3, <2>4, <2>5, <2>6, TrulyTold
<1>1. AccountTypeOK'
  BY <1>t DEF AccountInv, AccountTypeOK, Poll, server
<1>2. Known'
  BY DEF AccountInv, Known, Poll, server
<1>3. Secret'
  BY DEF AccountInv, Secret, Unseen, Poll
<1>4. Staged'
  BY DEF AccountInv, Staged, Poll
<1>5. Announced'
  BY <1>t
<1>6. DisconnectFinal'
  BY DEF AccountInv, DisconnectFinal, Poll
<1> QED BY <1>1, <1>2, <1>3, <1>4, <1>5, <1>6 DEF AccountInv

LEMMA TellKept ==
    ASSUME AccountInv, NEW p \in Administered, Tell(p) PROVE AccountInv'
<1>p. p \in Processes
  BY AccountAssumption
<1>1. AccountTypeOK'
  <2>1. updates[p] \in Seq(BOOLEAN \X Nat) /\ updates[p] # <<>>
    BY <1>p DEF AccountInv, AccountTypeOK, Tell
  <2>2. Head(updates[p]) \in BOOLEAN \X Nat /\ Tail(updates[p]) \in Seq(BOOLEAN \X Nat)
    BY <2>1
  <2>3. /\ told' \in [Processes -> BOOLEAN] /\ recorded' \in [Processes -> Nat]
        /\ updates' \in [Processes -> Seq(BOOLEAN \X Nat)]
    BY <1>p, <2>2 DEF AccountInv, AccountTypeOK, Tell
  <2>4. UNCHANGED <<file, memory, user, fetched, login, grant, removal, strays, strayed,
                    revision, adopted, issued, buried>>
    BY DEF Tell, server
  <2> QED BY <2>3, <2>4 DEF AccountInv, AccountTypeOK
<1>2. Known'
  BY DEF AccountInv, Known, Tell, server
<1>3. Secret'
  BY DEF AccountInv, Secret, Unseen, Tell
<1>4. Staged'
  BY DEF AccountInv, Staged, Tell
<1>5. Announced'
  <2>1. /\ updates[p] \in Seq(BOOLEAN \X Nat) /\ updates[p] # <<>>
        /\ updates'[p] = Tail(updates[p])
        /\ told'[p] = Head(updates[p])[1] /\ recorded'[p] = Head(updates[p])[2]
        /\ UNCHANGED <<revision, adopted, memory>>
        /\ \A q \in Administered \ {p} : updates'[q] = updates[q] /\ told'[q] = told[q]
                                       /\ recorded'[q] = recorded[q]
    BY AccountAssumption DEF AccountInv, AccountTypeOK, Tell
  <2>2. /\ Len(updates[p]) \in Nat \ {0} /\ Len(updates'[p]) = Len(updates[p]) - 1
        /\ \A i \in 1..Len(updates[p]) - 1 : updates'[p][i] = updates[p][i + 1]
        /\ Head(updates[p]) = updates[p][1] /\ updates[p][1] \in BOOLEAN \X Nat
        /\ updates'[p] = <<>> <=> Len(updates[p]) = 1
    <3>1. /\ Len(updates[p]) \in Nat \ {0} /\ Len(Tail(updates[p])) = Len(updates[p]) - 1
          /\ \A i \in 1..Len(updates[p]) - 1 : Tail(updates[p])[i] = updates[p][i + 1]
          /\ Head(updates[p]) = updates[p][1] /\ updates[p][1] \in BOOLEAN \X Nat
          /\ Tail(updates[p]) = <<>> <=> Len(updates[p]) = 1
      BY <2>1, OneLess, Zenon
    <3>2. updates'[p] = Tail(updates[p])
      BY <2>1, Zenon
    <3> QED BY <3>1, <3>2, Zenon
  <2>3. \A i \in 1..Len(updates[p]) : updates[p][i][2] <= revision[p]
    BY DEF AccountInv, Announced
  <2>4. Newest(p)' = Newest(p)
    <3>1. Newest(p) = updates[p][Len(updates[p])]
      BY <2>1 DEF Newest
    <3>2. CASE Len(updates[p]) = 1
      <4>1. Newest(p)' = <<updates[p][1][1], updates[p][1][2]>>
        BY <2>1, <2>2, <3>2 DEF Newest
      <4>2. updates[p][1] = <<updates[p][1][1], updates[p][1][2]>>
        BY <2>2
      <4> QED BY <3>1, <3>2, <4>1, <4>2
    <3>3. CASE Len(updates[p]) # 1
      <4>1. Newest(p)' = updates'[p][Len(updates[p]) - 1]
        BY <2>2, <3>3 DEF Newest
      <4>2. Len(updates[p]) - 1 \in 1..Len(updates[p]) - 1
        BY <2>2, <3>3
      <4>3. updates'[p][Len(updates[p]) - 1] = updates[p][(Len(updates[p]) - 1) + 1]
        BY <2>2, <4>2
      <4> QED BY <2>2, <3>1, <4>1, <4>3
    <3> QED BY <3>2, <3>3
  <2>5. ASSUME NEW q \in Administered
        PROVE  /\ recorded'[q] <= revision'[q]
               /\ \A i \in 1..Len(updates'[q]) : updates'[q][i][2] <= revision'[q]
               /\ Newest(q)'[2] = revision'[q] /\ ~adopted'[q] =>
                     Newest(q)'[1] = (memory'[q] # 0)
    <3>1. CASE q = p
      <4>1. recorded'[p] <= revision'[p]
        <5>1. 1 \in 1..Len(updates[p])
          BY <2>2
        <5> QED BY <5>1, <2>1, <2>2, <2>3
      <4>2. \A i \in 1..Len(updates'[p]) : updates'[p][i][2] <= revision'[p]
        BY <2>1, <2>2, <2>3
      <4> QED BY <3>1, <4>1, <4>2, <2>1, <2>4 DEF AccountInv, Announced
    <3>2. CASE q # p
      <4>1. Newest(q)' = Newest(q)
        BY <2>1, <3>2 DEF Newest
      <4> QED BY <2>1, <3>2, <4>1 DEF AccountInv, Announced
    <3> QED BY <3>1, <3>2
  <2> QED BY <2>5 DEF Announced
<1>6. DisconnectFinal'
  BY DEF AccountInv, DisconnectFinal, Tell
<1> QED BY <1>1, <1>2, <1>3, <1>4, <1>5, <1>6 DEF AccountInv

LEMMA RestartKept ==
    ASSUME AccountInv, NEW p \in Processes, Restart(p) PROVE AccountInv'
<1>p. p \in Processes
  BY AccountAssumption
<1>1. AccountTypeOK'
  BY DEF AccountInv, AccountTypeOK, Restart, Free, server
<1>2. Known'
  BY DEF AccountInv, Known, Restart, server
<1>3. Secret'
  BY DEF AccountInv, Secret, Unseen, Restart, Free
<1>4. Staged'
  BY DEF AccountInv, AccountTypeOK, Staged, Restart, Free
<1>5. Announced'
  <2>1. ASSUME NEW q \in Administered
        PROVE  /\ recorded'[q] <= revision'[q]
               /\ \A i \in 1..Len(updates'[q]) : updates'[q][i][2] <= revision'[q]
               /\ Newest(q)'[2] = revision'[q] /\ ~adopted'[q] =>
                     Newest(q)'[1] = (memory'[q] # 0)
    <3>q. q \in Processes
      BY AccountAssumption
    <3>1. CASE q = p
      <4>1. /\ updates'[p] = <<>> /\ memory'[p] = file
            /\ recorded'[p] = revision'[p] /\ revision'[p] \in Nat
        BY DEF AccountInv, AccountTypeOK, Restart
      <4>2. told'[p] = (file # 0)
        BY DEF AccountInv, AccountTypeOK, Restart
      <4>3. Newest(p)' = <<told'[p], recorded'[p]>>
        BY <4>1 DEF Newest
      <4> QED BY <3>1, <4>1, <4>2, <4>3, NoMore
    <3>2. CASE q # p
      <4>1. /\ updates'[q] = updates[q] /\ told'[q] = told[q]
            /\ recorded'[q] = recorded[q] /\ revision'[q] = revision[q]
            /\ adopted'[q] = adopted[q] /\ memory'[q] = memory[q]
        BY <3>q, <3>2 DEF Restart
      <4>2. Newest(q)' = Newest(q)
        BY <4>1 DEF Newest
      <4> QED BY <4>1, <4>2 DEF AccountInv, Announced
    <3> QED BY <3>1, <3>2
  <2> QED BY <2>1 DEF Announced
<1>6. DisconnectFinal'
  BY DEF AccountInv, AccountTypeOK, DisconnectFinal, Restart
<1> QED BY <1>1, <1>2, <1>3, <1>4, <1>5, <1>6 DEF AccountInv


LEMMA ExpiresKept == ASSUME AccountInv, NEW t, Expires(t) PROVE AccountInv'
<1>1. UNCHANGED <<file, memory, user, fetched, login, grant, removal, strays, strayed, revision,
                  recorded, updates, told, adopted, issued, buried>>
  BY DEF Expires, telling
<1> QED BY <1>1 DEF AccountInv, AccountTypeOK, Known, Secret, Unseen, Staged, Announced,
           Newest,
                    DisconnectFinal

LEMMA AccountStepKeeps == AccountInv /\ [AccountNext]_accountVars => AccountInv'
<1> SUFFICES ASSUME AccountInv, [AccountNext]_accountVars PROVE AccountInv'
  OBVIOUS
<1>1. CASE UNCHANGED accountVars
  BY <1>1 DEF accountVars, AccountInv, AccountTypeOK, Known, Secret, Unseen, Staged,
     Announced,
              Newest, DisconnectFinal
<1>2. ASSUME NEW p \in Processes, Refresh(p) \/ Restart(p) PROVE AccountInv'
  BY <1>2, AccessKept, RecoverKept, RefreshLocksKept, RefreshTimesOutKept, RenewedKept,
     SavedKept, RefusedKept, RefreshFailsKept, StrayLandsKept, RestartKept DEF Refresh
<1>3. ASSUME NEW p \in Administered, SignIn(p) \/ SignOut(p) \/ Poll(p) \/ Tell(p)
      PROVE  AccountInv'
  <2>1. CASE SignIn(p)
    BY <2>1, StartLoginKept, ExchangeKept, LoginFailsKept, LoginWritesKept,
       LoginWrittenKept,
       InstallKept, CancelLoginKept DEF SignIn
  <2>2. CASE SignOut(p)
    BY <2>2, DisconnectKept, RevokeKept, UnlinkKept, UnlinkTimesOutKept DEF SignOut
  <2> QED BY <1>3, <2>1, <2>2, PollKept, TellKept
<1>4. ASSUME NEW t \in Tokens, Expires(t) PROVE AccountInv'
  BY <1>4, ExpiresKept
<1>5. CASE AtRest
  BY <1>5, <1>1 DEF AtRest
<1> QED BY <1>1, <1>2, <1>3, <1>4, <1>5 DEF AccountNext

\* The inductive invariant of the codex account.
THEOREM AccountIsSound == AccountSpec => []AccountInv
<1> QED BY AccountBegins, AccountStepKeeps, PTL DEF AccountSpec

\* Whatever the processes, tokens, faults and commands: what a process had before
\* it disconnected does not come back, unless a write outlived its task, and the
\* provider manager is not left with an old answer (providers/openai_codex/auth.py).
THEOREM AccountHolds == AccountSpec => []AccountKept
<1>1. AccountInv => AccountKept
  <2> SUFFICES ASSUME AccountInv PROVE AccountKept
    OBVIOUS
  <2>1. DisconnectFinal
    BY DEF AccountInv
  <2>2. ASSUME NEW p \in Administered,
               recorded[p] = revision[p], updates[p] = <<>>, ~adopted[p]
        PROVE  told[p] = (memory[p] # 0)
    <3>1. Newest(p) = <<told[p], recorded[p]>>
      BY <2>2 DEF Newest
    <3> QED BY <2>2, <3>1 DEF AccountInv, Announced
  <2> QED BY <2>1, <2>2 DEF AccountKept, AvailabilityTold
<1> QED BY AccountIsSound, <1>1, PTL
-----------------------------------------------------------------------------
LogTypeOK ==
    /\ log \in Seq(Messages) /\ cap \in Nat
    /\ generation \in Nat \X Nat /\ token \in [Handlers -> Nat \X Nat]
    /\ \A h \in Handlers : token[h][2] <= generation[2]

\* What is in the chat has been received, or sent.
Arrived ==
    \A m \in visible \cup older :
        /\ m[1] = "in" => stage[m[2]] # "new"
        /\ m[1] = "out" => stage[m[2]] \notin {"new", "received", "sending"}

\* A standalone /clear sends nothing.
Silent ==
    \A h \in Handlers : kind[h] = "clear" =>
        stage[h] \in {"new", "received", "clearing", "deleting", "failing", "over"}

\* What a handler has to delete, and what the one that forgets has.
Deleting ==
    \A h \in Handlers :
        /\ stage[h] \in {"clearing", "failing"} => kind[h] = "clear"
        /\ stage[h] = "admitting" => kind[h] = "turn"
        /\ stage[h] = "deleting" /\ kind[h] = "clear" => In(h) \in ids[h]
        /\ stage[h] = "deleting" /\ kind[h] = "notice" => ids[h] \subseteq {Out(h)}
        /\ stage[h] = "forgetting" => Out(h) \notin visible \/ Out(h) \in lost

\* What is in the log while a /clear drains was collected, or has crossed it.
Draining ==
    /\ \A h \in Handlers : stage[h] = "clearing" <=> clearing = h
    /\ clearing # 0 => Tracked \subseteq ids[clearing] \cup crossed

(* What a /clear found was given up, or somebody still owes its deletion:  *)
(* who has it to delete, or whose admission will be refused.               *)
Owing(m) ==
    \/ m \in lost \/ m[2] \in cut \/ stage[m[2]] \in {"keeping", "kept"}
    \/ \E h \in Handlers : stage[h] \in {"clearing", "deleting"} /\ m \in ids[h]
    \/ /\ m[1] = "out" /\ kind[m[2]] \in {"turn", "notice"}
       /\ stage[m[2]] \in {"sent", "admitting"} /\ token[m[2]][2] < generation[2]

Owed == \A m \in older \cap visible : Owing(m)

MessagesInv ==
    /\ MessagesTypeOK /\ LogTypeOK
    /\ Arrived /\ Silent /\ Deleting /\ Draining /\ Owed /\ Answered

\* Places number what is retained, without gaps.
LEMMA Places ==
    ASSUME NEW set, log \in Seq(Messages)
    PROVE  /\ IsFiniteSet(Retained(set)) /\ Cardinality(Retained(set)) \in Nat
           /\ Cardinality(Retained(set)) <= Len(log)
           /\ \A i \in Retained(set) : Place(set, i) \in 1..Cardinality(Retained(set))
           /\ \A i, j \in Retained(set) : Place(set, i) = Place(set, j) => i = j
           /\ \A k \in 1..Cardinality(Retained(set)) :
                 \E i \in Retained(set) : Place(set, i) = k
<1> DEFINE R == Retained(set)
           n == Cardinality(R)
           Upto(i) == {j \in R : j <= i}
<1>1. R \subseteq 1..Len(log) /\ Len(log) \in Nat
      BY DEF Retained
<1>2. IsFiniteSet(1..Len(log)) /\ Cardinality(1..Len(log)) = Len(log)
  <2> DEFINE l == Len(log)
  <2>1. l \in Nat
        BY <1>1
  <2> HIDE DEF l
  <2>2. IsFiniteSet(1..l) /\ Cardinality(1..l) = l
        BY <2>1, FS_Interval
  <2> QED BY <2>2 DEF l
<1>3. IsFiniteSet(R) /\ n \in Nat /\ n <= Len(log)
      BY <1>1, <1>2, FS_Subset, FS_CardinalityType
<1>4. ASSUME NEW i \in R
      PROVE  /\ IsFiniteSet(Upto(i)) /\ Cardinality(Upto(i)) \in Nat
             /\ Cardinality(Upto(i)) \in 1..n
  <2>1. Upto(i) \in SUBSET R /\ i \in Upto(i)
        BY <1>1
  <2>2. IsFiniteSet(Upto(i)) /\ Cardinality(Upto(i)) <= n
        BY <1>3, <2>1, FS_Subset
  <2>3. Cardinality(Upto(i)) \in Nat /\ Cardinality(Upto(i)) # 0
        BY <2>1, <2>2, FS_CardinalityType, FS_EmptySet
  <2> QED BY <1>3, <2>2, <2>3
<1>5. ASSUME NEW i \in R, NEW j \in R, i < j
      PROVE  Cardinality(Upto(i)) < Cardinality(Upto(j))
  <2>1. Upto(i) \in SUBSET Upto(j) /\ j \in Upto(j) /\ j \notin Upto(i)
        BY <1>1, <1>5
  <2>2. /\ Cardinality(Upto(i)) <= Cardinality(Upto(j))
        /\ Cardinality(Upto(j)) # Cardinality(Upto(i))
        BY <1>4, <2>1, FS_Subset
  <2>3. Cardinality(Upto(i)) \in Nat /\ Cardinality(Upto(j)) \in Nat
        BY <1>4
  <2> QED BY <2>2, <2>3
<1>6. \A i, j \in R : Cardinality(Upto(i)) = Cardinality(Upto(j)) => i = j
  <2> SUFFICES ASSUME NEW i \in R, NEW j \in R, i # j
               PROVE  Cardinality(Upto(i)) # Cardinality(Upto(j))
      OBVIOUS
  <2>1. i < j \/ j < i
        BY <1>1
  <2>2. Cardinality(Upto(i)) \in Nat /\ Cardinality(Upto(j)) \in Nat
        BY <1>4
  <2>3. \/ Cardinality(Upto(i)) < Cardinality(Upto(j))
        \/ Cardinality(Upto(j)) < Cardinality(Upto(i))
        BY <1>5, <2>1
  <2> QED BY <2>2, <2>3
<1> DEFINE P == [i \in R |-> Cardinality(Upto(i))]
<1>7. P \in Injection(R, 1..n)
  <2>1. P \in [R -> 1..n]
        BY <1>4
  <2>2. \A i, j \in R : P[i] = P[j] => i = j
        BY <1>6
  <2> HIDE DEF P
  <2> QED BY <2>1, <2>2 DEF Injection, IsInjective
<1>8. IsFiniteSet(1..n) /\ Cardinality(1..n) = n
      BY <1>3, FS_Interval
<1>9. P \in Surjection(R, 1..n)
  <2> HIDE DEF P, R
  <2> QED BY <1>7, <1>8, FS_Injection
<1>10. \A k \in 1..n : \E i \in R : Cardinality(Upto(i)) = k
  <2>1. \A k \in 1..n : \E i \in R : P[i] = k
    <3> HIDE DEF P
    <3> QED BY <1>9 DEF Surjection
  <2> QED BY <2>1
<1>11. \A i : Place(set, i) = Cardinality(Upto(i))
       BY DEF Place
<1> QED BY <1>3, <1>4, <1>6, <1>10, <1>11

\* What remove_ids retains is the rest of the log, in no more entries.
LEMMA Removal ==
    ASSUME NEW set, log \in Seq(Messages), IsInjective(log)
    PROVE  /\ Without(set) \in Seq(Messages) /\ IsInjective(Without(set))
           /\ Len(Without(set)) <= Len(log)
           /\ Range(Without(set)) = Tracked \ set
<1> DEFINE R == Retained(set)
           n == Cardinality(R)
           Pick(k) == CHOOSE i \in R : Place(set, i) = k
           W == Without(set)
<1>1. /\ n \in Nat /\ n <= Len(log)
      /\ \A i \in R : Place(set, i) \in 1..n
      /\ \A i, j \in R : Place(set, i) = Place(set, j) => i = j
      /\ \A k \in 1..n : \E i \in R : Place(set, i) = k
      BY Places
<1>2. \A k \in 1..n : Pick(k) \in R /\ Place(set, Pick(k)) = k
      BY <1>1
<1>3. W = [k \in 1..n |-> log[Pick(k)]]
      BY DEF Without
<1> HIDE DEF R, Pick, n, W
<1>4. \A i \in R : i \in DOMAIN log /\ log[i] \in Messages /\ log[i] \notin set
      BY DEF R, Retained
<1>5. W \in [1..n -> Messages] /\ \A k \in 1..n : W[k] = log[Pick(k)]
      BY <1>2, <1>3, <1>4
<1>6. W \in Seq(Messages) /\ Len(W) = n /\ DOMAIN W = 1..n
      BY <1>1, <1>5
<1>7. \A k, l \in 1..n : W[k] = W[l] => k = l
      BY <1>2, <1>4, <1>5 DEF IsInjective
<1>8. ASSUME NEW m
      PROVE  m \in Range(W) <=> m \in Tracked \ set
  <2>1. CASE m \in Range(W)
    <3>1. PICK k \in 1..n : m = log[Pick(k)]
          BY <1>5, <1>6, <2>1 DEF Range
    <3> QED BY <1>2, <1>4, <2>1, <3>1 DEF Tracked, Range
  <2>2. CASE m \in Tracked \ set
    <3>1. PICK i \in DOMAIN log : log[i] = m
          BY <2>2 DEF Tracked, Range
    <3>2. i \in R
          BY <2>2, <3>1 DEF R, Retained
    <3>3. Pick(Place(set, i)) = i /\ Place(set, i) \in 1..n
          BY <1>1, <1>2, <3>2
    <3> QED BY <1>5, <1>6, <2>2, <3>1, <3>3 DEF Range
  <2> QED BY <2>1, <2>2
<1> QED BY <1>1, <1>6, <1>7, <1>8 DEF IsInjective, W
-----------------------------------------------------------------------------
\* A message names its handler, and what it is to it.
LEMMA Named ==
    /\ 0 \notin Handlers
    /\ \A h \in Handlers : In(h) \in Messages /\ Out(h) \in Messages
    /\ \A h : In(h)[1] = "in" /\ In(h)[2] = h /\ Out(h)[1] = "out" /\ Out(h)[2] = h
    /\ \A m \in Messages : /\ m[2] \in Handlers /\ m[1] \in {"in", "out"}
                           /\ m[1] = "in" => m = In(m[2])
                           /\ m[1] = "out" => m = Out(m[2])
<1>1. 0 \notin Handlers
      BY MessagesAssumption DEF Handlers
<1> QED BY <1>1 DEF In, Out, Messages

(* The log stays in order: what leaves it is in a tree, lost, or of that  *)
(* set, and what enters it while a /clear drains has crossed it.           *)
LogKept(set) ==
    /\ log' \in Seq(Messages) /\ IsInjective(log') /\ (cap = 0 \/ Len(log') <= cap)
    /\ Tracked' \subseteq Messages
    /\ Tracked \subseteq Tracked' \cup trees \cup lost' \cup set
    /\ clearing # 0 => Tracked' \subseteq Tracked \cup crossed'
    /\ lost \subseteq lost' /\ lost' \subseteq Messages
    /\ crossed \subseteq crossed' /\ crossed' \subseteq Messages

\* What _append and _trim make of the log, of what is dropped and of what crosses.
LEMMA Recording ==
    ASSUME MessagesTypeOK, LogTypeOK, NEW m \in Messages, Records(m)
    PROVE  LogKept({}) /\ m \in Tracked'
<1>1. /\ log \in Seq(Messages) /\ IsInjective(log)
      /\ cap \in Nat /\ (cap = 0 \/ Len(log) <= cap)
      BY DEF MessagesTypeOK, LogTypeOK
<1>2. CASE m \in Tracked
  <2>1. log' = log
        BY <1>2 DEF Records, Appended
  <2> QED BY <1>1, <1>2, <2>1 DEF Records, Tracked, MessagesTypeOK, LogKept
<1>3. ASSUME m \notin Tracked, NEW base \in Seq(Messages), IsInjective(base),
             Range(base) \subseteq Tracked, log' = Append(base, m),
             cap = 0 \/ Len(base) < cap
      PROVE  /\ log' \in Seq(Messages) /\ IsInjective(log') /\ (cap = 0 \/ Len(log') <= cap)
             /\ m \in Tracked' /\ Tracked' \subseteq Tracked \cup {m}
  <2>1. /\ log' \in Seq(Messages) /\ Len(log') = Len(base) + 1 /\ Len(base) \in Nat
        /\ DOMAIN log' = 1..(Len(base) + 1) /\ DOMAIN base = 1..Len(base)
        /\ \A i \in 1..Len(base) : log'[i] = base[i]
        /\ log'[Len(base) + 1] = m
        BY <1>3
  <2>2. \A i \in 1..(Len(base) + 1) : i \in 1..Len(base) \/ i = Len(base) + 1
        BY <2>1
  <2>3. \A i \in 1..Len(base) : base[i] # m
        BY <1>3, <2>1 DEF Range
  <2>4. IsInjective(log')
        BY <1>3, <2>1, <2>2, <2>3 DEF IsInjective
  <2>5. Range(log') \subseteq Range(base) \cup {m} /\ m \in Range(log')
        BY <2>1, <2>2 DEF Range
  <2>6. cap = 0 \/ Len(log') <= cap
        BY <1>1, <1>3, <2>1
  <2> QED BY <1>3, <2>1, <2>4, <2>5, <2>6 DEF Tracked
<1>4. CASE m \notin Tracked /\ (cap = 0 \/ Len(log) < cap)
  <2>1. log' = Append(log, m)
        BY <1>4 DEF Records, Appended
  <2> QED BY <1>1, <1>3, <1>4, <2>1 DEF Records, Tracked, MessagesTypeOK, Unlocked, LogKept
<1>5. CASE m \notin Tracked /\ ~(cap = 0 \/ Len(log) < cap)
  <2>1. log' = Append(Tail(log), m)
        BY <1>5 DEF Records, Appended
  <2>2. /\ Tail(log) \in Seq(Messages) /\ Len(Tail(log)) = Len(log) - 1
        /\ Len(log) \in Nat /\ Len(log) = cap /\ DOMAIN log = 1..Len(log)
        /\ DOMAIN Tail(log) = 1..(Len(log) - 1)
        /\ \A i \in 1..(Len(log) - 1) : Tail(log)[i] = log[i + 1]
        BY <1>1, <1>5
  <2>3. IsInjective(Tail(log))
        BY <1>1, <2>2 DEF IsInjective
  <2>4. Range(Tail(log)) \subseteq Tracked
        BY <2>2 DEF Range, Tracked
  <2>5. Len(Tail(log)) < cap
        BY <2>2
  <2> QED BY <1>3, <1>5, <2>1, <2>2, <2>3, <2>4, <2>5 DEF Records, Tracked, MessagesTypeOK,
             Unlocked, LogKept
<1> QED BY <1>2, <1>4, <1>5

\* The same of remove_ids, and of a step that leaves the log alone.
LEMMA Keeping ==
    ASSUME MessagesTypeOK, LogTypeOK,
           UNCHANGED crossed, lost \subseteq lost', lost' \subseteq Messages
    PROVE  /\ UNCHANGED log => LogKept({})
           /\ \A set : log' = Without(set) => LogKept(set)
<1>1. UNCHANGED log => LogKept({})
      BY DEF LogKept, MessagesTypeOK, LogTypeOK, Tracked
<1>2. ASSUME NEW set, log' = Without(set)
      PROVE  LogKept(set)
  <2>1. /\ log' \in Seq(Messages) /\ IsInjective(log')
        /\ Len(log') <= Len(log) /\ Range(log') = Tracked \ set
        BY <1>2, Removal DEF MessagesTypeOK, LogTypeOK
  <2>2. log \in Seq(Messages) /\ cap \in Nat /\ (cap = 0 \/ Len(log) <= cap)
        BY DEF MessagesTypeOK, LogTypeOK
  <2>3. cap = 0 \/ Len(log') <= cap
        BY <2>1, <2>2
  <2> QED BY <2>1, <2>3 DEF LogKept, Tracked, MessagesTypeOK
<1> QED BY <1>1, <1>2

\* What the others have in hand stays in hand.
LEMMA Others ==
    ASSUME NEW h \in Handlers,
           \A g \in Handlers \ {h} :
              kind'[g] = kind[g] /\ stage'[g] = stage[g] /\ ids'[g] = ids[g]
    PROVE  \A m \in InHand : m \in InHand' \/ Holds(h, m)
<1> SUFFICES ASSUME NEW m \in Messages, NEW g \in Handlers, Holds(g, m), g # h
             PROVE  \E f \in Handlers : Holds(f, m)'
    BY DEF InHand
<1> QED BY DEF Holds

\* A message is answered for as before, or by a handler that does not move.
LEMMA Answering ==
    ASSUME MessagesTypeOK', NEW h \in Handlers,
           \A g \in Handlers \ {h} :
              kind'[g] = kind[g] /\ stage'[g] = stage[g] /\ ids'[g] = ids[g],
           \A m \in visible' : \/ m \in Tracked' \cup trees' \cup lost' \cup crossed'
                               \/ Holds(h, m)'
                               \/ m \in InHand /\ ~Holds(h, m)
    PROVE  Answered'
<1> SUFFICES ASSUME NEW m \in visible'
             PROVE  m \in Tracked' \cup trees' \cup InHand' \cup lost' \cup crossed'
    BY DEF Answered
<1>1. m \in Messages /\ (Holds(h, m)' => m \in InHand')
      BY DEF InHand, MessagesTypeOK
<1>2. \A n \in InHand : n \in InHand' \/ Holds(h, n)
      BY Others
<1> QED BY <1>1, <1>2
\* What is received is logged, or its /clear answers for it.
LEMMA ReceiveKeeps ==
    ASSUME MessagesInv, NEW h \in Handlers, Receive(h)
    PROVE  MessagesInv'
<1>1. PICK k \in Kinds :
        /\ clearing = 0 /\ stage[h] = "new" /\ kind' = [kind EXCEPT ![h] = k]
        /\ stage' = [stage EXCEPT ![h] = IF k = "notice" THEN "sending" ELSE "received"]
        /\ visible' = IF k = "notice" THEN visible ELSE visible \cup {In(h)}
        /\ LogKept({}) /\ lost \subseteq lost'
        /\ (Logged(k) => In(h) \in Tracked')
        /\ token' = [token EXCEPT ![h] = generation]
        /\ UNCHANGED <<ids, cap, trees, generation, clearing, older, cut>>
  <2>1. PICK k \in Kinds :
          /\ kind' = [kind EXCEPT ![h] = k]
          /\ visible' = IF k = "notice" THEN visible ELSE visible \cup {In(h)}
          /\ IF Logged(k) THEN Records(In(h)) ELSE UNCHANGED <<log, lost, crossed>>
          /\ Goes(h, "new", IF k = "notice" THEN "sending" ELSE "received")
        BY DEF Receive, Kinds
  <2>2. LogKept({}) /\ lost \subseteq lost' /\ (Logged(k) => In(h) \in Tracked')
        BY <2>1, Named, Recording, Keeping DEF LogKept, MessagesInv, MessagesTypeOK
  <2> QED BY <2>1, <2>2 DEF Receive, Goes, Unlocked
<1>2. MessagesTypeOK'
      BY Named, <1>1 DEF LogKept, MessagesInv, MessagesTypeOK
<1>3. LogTypeOK'
      BY <1>1 DEF LogKept, MessagesInv, LogTypeOK
<1>4. Arrived'
      BY Named, <1>1 DEF MessagesInv, MessagesTypeOK, Arrived
<1>5. Silent'
      BY <1>1 DEF MessagesInv, MessagesTypeOK, Silent
<1>6. Deleting'
      BY Named, <1>1 DEF MessagesInv, Deleting
<1>7. Draining'
      BY <1>1 DEF MessagesInv, Draining
<1>8. Owed'
  <2>1. \A m \in older' \cap visible' :
           m \in older \cap visible /\ Owing(m) /\ m \in Messages
        BY Named, <1>1 DEF MessagesInv, MessagesTypeOK, Arrived, Owed
  <2> QED BY <1>1, <2>1 DEF Owed, Owing
<1>9. Answered'
  <2>1. \A g \in Handlers \ {h} :
           kind'[g] = kind[g] /\ stage'[g] = stage[g] /\ ids'[g] = ids[g]
        BY <1>1 DEF MessagesInv, MessagesTypeOK
  <2>2. \A m \in visible' : \/ m \in Tracked' \cup trees' \cup lost' \cup crossed'
                            \/ Holds(h, m)' \/ (m \in InHand /\ ~Holds(h, m))
        BY Named, <1>1 DEF LogKept, Logged, MessagesInv, MessagesTypeOK, Arrived, Answered,
           Holds
  <2> QED BY <1>2, <2>1, <2>2, Answering
<1> QED BY <1>2, <1>3, <1>4, <1>5, <1>6, <1>7, <1>8, <1>9 DEF MessagesInv

\* A turn that goes on to send changes nothing in the chat.
LEMMA ResolveKeeps ==
    ASSUME MessagesInv, NEW h \in Handlers, Resolve(h)
    PROVE  MessagesInv'
<1>1. /\ kind[h] = "turn" /\ stage[h] = "received" /\ stage' = [stage EXCEPT ![h] = "sending"]
      /\ UNCHANGED <<kind, token, ids, visible, log, cap, trees, generation, clearing, older,
                     crossed, lost, cut>>
      /\ UNCHANGED Tracked
      BY DEF Resolve, Goes, Tracked, history
<1>2. MessagesTypeOK'
      BY <1>1 DEF MessagesInv, MessagesTypeOK
<1>3. LogTypeOK'
      BY <1>1 DEF MessagesInv, LogTypeOK
<1>4. Arrived'
      BY <1>1 DEF MessagesInv, Arrived
<1>5. Silent'
      BY <1>1 DEF MessagesInv, Silent
<1>6. Deleting'
      BY <1>1 DEF MessagesInv, Deleting
<1>7. Draining'
      BY <1>1 DEF MessagesInv, Draining
<1>8. Owed'
  <2>1. \A m \in older' \cap visible' :
           m \in older \cap visible /\ Owing(m) /\ m \in Messages
        BY <1>1 DEF MessagesInv, MessagesTypeOK, Owed
  <2> QED BY <1>1, <2>1 DEF Owed, Owing
<1>9. Answered'
  <2>1. \A g \in Handlers \ {h} :
           kind'[g] = kind[g] /\ stage'[g] = stage[g] /\ ids'[g] = ids[g]
        BY <1>1 DEF MessagesInv, MessagesTypeOK
  <2>2. \A m \in visible' : \/ m \in Tracked' \cup trees' \cup lost' \cup crossed'
                            \/ Holds(h, m)' \/ (m \in InHand /\ ~Holds(h, m))
        BY <1>1 DEF MessagesInv, Answered, Holds
  <2> QED BY <1>2, <2>1, <2>2, Answering
<1> QED BY <1>2, <1>3, <1>4, <1>5, <1>6, <1>7, <1>8, <1>9 DEF MessagesInv

\* A command may void the turns before it, and clears nothing.
LEMMA CommandKeeps ==
    ASSUME MessagesInv, NEW h \in Handlers, Command(h)
    PROVE  MessagesInv'
<1>1. PICK to \in {"sending", "over"} :
        /\ kind[h] = "feedback" /\ stage[h] = "received"
        /\ stage' = [stage EXCEPT ![h] = to]
        /\ generation' \in Nat \X Nat /\ generation'[2] = generation[2]
        /\ UNCHANGED <<kind, token, ids, visible, log, cap, trees, clearing, older, crossed,
                       lost, cut>>
        /\ UNCHANGED Tracked
      BY DEF Command, Goes, history, MessagesInv, LogTypeOK, Tracked
<1>2. MessagesTypeOK'
      BY <1>1 DEF MessagesInv, MessagesTypeOK
<1>3. LogTypeOK'
      BY <1>1 DEF MessagesInv, LogTypeOK
<1>4. Arrived'
      BY <1>1 DEF MessagesInv, Arrived
<1>5. Silent'
      BY <1>1 DEF MessagesInv, Silent
<1>6. Deleting'
      BY <1>1 DEF MessagesInv, Deleting
<1>7. Draining'
      BY <1>1 DEF MessagesInv, Draining
<1>8. Owed'
  <2>1. \A m \in older' \cap visible' :
           m \in older \cap visible /\ Owing(m) /\ m \in Messages
        BY <1>1 DEF MessagesInv, MessagesTypeOK, Owed
  <2> QED BY <1>1, <2>1 DEF Owed, Owing
<1>9. Answered'
  <2>1. \A g \in Handlers \ {h} :
           kind'[g] = kind[g] /\ stage'[g] = stage[g] /\ ids'[g] = ids[g]
        BY <1>1 DEF MessagesInv, MessagesTypeOK
  <2>2. \A m \in visible' : \/ m \in Tracked' \cup trees' \cup lost' \cup crossed'
                            \/ Holds(h, m)' \/ (m \in InHand /\ ~Holds(h, m))
        BY <1>1 DEF MessagesInv, Answered, Holds
  <2> QED BY <1>2, <2>1, <2>2, Answering
<1> QED BY <1>2, <1>3, <1>4, <1>5, <1>6, <1>7, <1>8, <1>9 DEF MessagesInv

\* Who has sent a message has it in hand.
LEMMA SendStatusKeeps ==
    ASSUME MessagesInv, NEW h \in Handlers, SendStatus(h)
    PROVE  MessagesInv'
<1>1. /\ stage[h] = "sending" /\ stage' = [stage EXCEPT ![h] = "sent"]
      /\ visible' = visible \cup {Out(h)}
      /\ UNCHANGED <<kind, token, ids, log, cap, trees, generation, clearing, older, crossed,
                     lost, cut>>
      /\ UNCHANGED Tracked
      BY DEF SendStatus, Goes, Tracked, history
<1>2. MessagesTypeOK'
      BY Named, <1>1 DEF MessagesInv, MessagesTypeOK
<1>3. LogTypeOK'
      BY <1>1 DEF MessagesInv, LogTypeOK
<1>4. Arrived'
      BY Named, <1>1 DEF MessagesInv, MessagesTypeOK, Arrived
<1>5. Silent'
      BY <1>1 DEF MessagesInv, Silent
<1>6. Deleting'
      BY Named, <1>1 DEF MessagesInv, Deleting
<1>7. Draining'
      BY <1>1 DEF MessagesInv, Draining
<1>8. Owed'
  <2>1. \A m \in older' \cap visible' :
           m \in older \cap visible /\ Owing(m) /\ m \in Messages
        BY Named, <1>1 DEF MessagesInv, MessagesTypeOK, Arrived, Owed
  <2> QED BY <1>1, <2>1 DEF Owed, Owing
<1>9. Answered'
  <2>1. \A g \in Handlers \ {h} :
           kind'[g] = kind[g] /\ stage'[g] = stage[g] /\ ids'[g] = ids[g]
        BY <1>1 DEF MessagesInv, MessagesTypeOK
  <2>2. \A m \in visible' : \/ m \in Tracked' \cup trees' \cup lost' \cup crossed'
                            \/ Holds(h, m)' \/ (m \in InHand /\ ~Holds(h, m))
        BY <1>1 DEF MessagesInv, MessagesTypeOK, Answered, Holds
  <2> QED BY <1>2, <2>1, <2>2, Answering
<1> QED BY <1>2, <1>3, <1>4, <1>5, <1>6, <1>7, <1>8, <1>9 DEF MessagesInv

\* Who cannot send has nothing in hand.
LEMMA StatusFailsKeeps ==
    ASSUME MessagesInv, NEW h \in Handlers, StatusFails(h)
    PROVE  MessagesInv'
<1>1. /\ stage[h] = "sending" /\ stage' = [stage EXCEPT ![h] = "over"]
      /\ UNCHANGED <<kind, token, ids, visible, log, cap, trees, generation, clearing, older,
                     crossed, lost, cut>>
      /\ UNCHANGED Tracked
      BY DEF StatusFails, Goes, Tracked
<1>2. MessagesTypeOK'
      BY <1>1 DEF MessagesInv, MessagesTypeOK
<1>3. LogTypeOK'
      BY <1>1 DEF MessagesInv, LogTypeOK
<1>4. Arrived'
      BY <1>1 DEF MessagesInv, Arrived
<1>5. Silent'
      BY <1>1 DEF MessagesInv, Silent
<1>6. Deleting'
      BY <1>1 DEF MessagesInv, Deleting
<1>7. Draining'
      BY <1>1 DEF MessagesInv, Draining
<1>8. Owed'
  <2>1. \A m \in older' \cap visible' :
           m \in older \cap visible /\ Owing(m) /\ m \in Messages
        BY <1>1 DEF MessagesInv, MessagesTypeOK, Owed
  <2> QED BY <1>1, <2>1 DEF Owed, Owing
<1>9. Answered'
  <2>1. \A g \in Handlers \ {h} :
           kind'[g] = kind[g] /\ stage'[g] = stage[g] /\ ids'[g] = ids[g]
        BY <1>1 DEF MessagesInv, MessagesTypeOK
  <2>2. \A m \in visible' : \/ m \in Tracked' \cup trees' \cup lost' \cup crossed'
                            \/ Holds(h, m)' \/ (m \in InHand /\ ~Holds(h, m))
        BY <1>1 DEF MessagesInv, Silent, Answered, Holds
  <2> QED BY <1>2, <2>1, <2>2, Answering
<1> QED BY <1>2, <1>3, <1>4, <1>5, <1>6, <1>7, <1>8, <1>9 DEF MessagesInv

\* The log takes over what was sent; a turn is still to be admitted.
LEMMA RecordKeeps ==
    ASSUME MessagesInv, NEW h \in Handlers, Record(h)
    PROVE  MessagesInv'
<1>1. /\ kind[h] # "notice" /\ stage[h] = "sent"
      /\ stage' = [stage EXCEPT ![h] = IF kind[h] = "turn" THEN "admitting" ELSE "over"]
      /\ LogKept({}) /\ lost \subseteq lost' /\ Out(h) \in Tracked'
      /\ UNCHANGED <<kind, token, ids, visible, cap, trees, generation, clearing, older, cut>>
      BY Named, Recording DEF Record, Goes, LogKept, MessagesInv
<1>2. MessagesTypeOK'
      BY <1>1 DEF LogKept, MessagesInv, MessagesTypeOK
<1>3. LogTypeOK'
      BY <1>1 DEF LogKept, MessagesInv, LogTypeOK
<1>4. Arrived'
      BY <1>1 DEF MessagesInv, Arrived
<1>5. Silent'
      BY <1>1 DEF MessagesInv, Silent
<1>6. Deleting'
      BY <1>1 DEF MessagesInv, Deleting
<1>7. Draining'
      BY <1>1 DEF LogKept, MessagesInv, Draining
<1>8. Owed'
  <2>1. \A m \in older' \cap visible' :
           m \in older \cap visible /\ Owing(m) /\ m \in Messages
        BY <1>1 DEF MessagesInv, MessagesTypeOK, Owed
  <2> QED BY <1>1, <2>1 DEF Owed, Owing
<1>9. Answered'
  <2>1. \A g \in Handlers \ {h} :
           kind'[g] = kind[g] /\ stage'[g] = stage[g] /\ ids'[g] = ids[g]
        BY <1>1 DEF MessagesInv, MessagesTypeOK
  <2>2. \A m \in visible' : \/ m \in Tracked' \cup trees' \cup lost' \cup crossed'
                            \/ Holds(h, m)' \/ (m \in InHand /\ ~Holds(h, m))
        BY <1>1 DEF LogKept, MessagesInv, Silent, Answered, Holds
  <2> QED BY <1>2, <2>1, <2>2, Answering
<1> QED BY <1>2, <1>3, <1>4, <1>5, <1>6, <1>7, <1>8, <1>9 DEF MessagesInv

\* A turn from before a /clear is not admitted: its status is to be deleted.
LEMMA AdmitKeeps ==
    ASSUME MessagesInv, NEW h \in Handlers, Admit(h)
    PROVE  MessagesInv'
<1>1. /\ clearing = 0 /\ stage[h] = "admitting" /\ stage'[h] \in {"deleting", "over"}
      /\ stage' = [stage EXCEPT ![h] = stage'[h]]
      /\ ids' = [ids EXCEPT ![h] = ids'[h]] /\ ids'[h] \subseteq Messages
      /\ trees \subseteq trees' /\ trees' \subseteq Messages
      /\ token[h][2] < generation[2] =>
            h \in cut \/ (stage'[h] = "deleting" /\ Out(h) \in ids'[h])
      /\ UNCHANGED <<kind, token, visible, log, cap, generation, clearing, older, crossed,
                     lost, cut>>
      /\ UNCHANGED Tracked
  <2>1. CASE token[h] # generation
    <3>1. /\ Goes(h, "admitting", IF h \in cut THEN "over" ELSE "deleting")
          /\ ids' = [ids EXCEPT ![h] = {Out(h)}] /\ UNCHANGED trees
          BY <2>1 DEF Admit
    <3> QED BY <3>1, Named DEF Admit, Goes, Unlocked, Tracked, history, MessagesInv,
               MessagesTypeOK
  <2>2. CASE token[h] = generation /\ parent[h] \notin trees \cup {NoReply}
    <3>1. /\ Goes(h, "admitting", IF h \in cut THEN "over" ELSE "deleting")
          /\ ids' = [ids EXCEPT ![h] = {In(h), Out(h)}] /\ UNCHANGED trees
          BY <2>2 DEF Admit
    <3> QED BY <2>2, <3>1, Named DEF Admit, Goes, Unlocked, Tracked, history, MessagesInv,
               MessagesTypeOK
  <2>3. CASE token[h] = generation /\ parent[h] \in trees \cup {NoReply}
    <3>1. /\ Goes(h, "admitting", "over")
          /\ trees' = trees \cup {In(h), Out(h)} /\ UNCHANGED ids
          BY <2>3 DEF Admit
    <3> QED BY <3>1, Named DEF Admit, Goes, Unlocked, Tracked, history, MessagesInv,
               MessagesTypeOK, LogTypeOK
  <2> QED BY <2>1, <2>2, <2>3
<1>2. MessagesTypeOK'
  <2>1. kind' \in [Handlers -> Kinds] /\ ids' \in [Handlers -> SUBSET Messages]
        BY <1>1 DEF MessagesInv, MessagesTypeOK
  <2>2. /\ stage' = [stage EXCEPT ![h] = stage'[h]]
        /\ stage'[h] \in {"sending", "sent", "admitting", "clearing", "deleting", "failing",
                          "over"}
        BY <1>1
  <2>3. /\ visible' \cup trees' \cup older' \cup crossed' \cup lost' \cup Tracked'
              \subseteq Messages
        /\ IsInjective(log') /\ (cap' = 0 \/ Len(log') <= cap')
        /\ clearing' \in Handlers \cup {0}
        BY <1>1, Named DEF MessagesInv, MessagesTypeOK
  <2> QED BY <2>1, <2>2, <2>3 DEF MessagesInv, MessagesTypeOK
<1>3. LogTypeOK'
      BY <1>1 DEF MessagesInv, LogTypeOK
<1>4. Arrived'
      BY Named, <1>1 DEF MessagesInv, MessagesTypeOK, Arrived
<1>5. Silent'
      BY <1>1 DEF MessagesInv, MessagesTypeOK, Silent
<1>6. Deleting'
      BY <1>1 DEF MessagesInv, MessagesTypeOK, Deleting
<1>7. Draining'
      BY <1>1 DEF MessagesInv, MessagesTypeOK, Draining
<1>8. Owed'
  <2> SUFFICES ASSUME NEW m \in older' \cap visible'
               PROVE  Owing(m)'
      BY DEF Owed
  <2>1. m \in older \cap visible /\ Owing(m) /\ m \in Messages
        BY <1>1 DEF MessagesInv, MessagesTypeOK, Owed
  <2>2. CASE m \in lost \/ m[2] \in cut \/ stage[m[2]] \in {"keeping", "kept"}
        BY Named, <1>1, <2>2 DEF Owing, MessagesInv, MessagesTypeOK
  <2>3. CASE \E g \in Handlers : stage[g] \in {"clearing", "deleting"} /\ m \in ids[g]
        BY <1>1, <2>3 DEF Owing, MessagesInv, MessagesTypeOK
  <2>4. CASE /\ m[1] = "out" /\ kind[m[2]] \in {"turn", "notice"}
             /\ stage[m[2]] \in {"sent", "admitting"} /\ token[m[2]][2] < generation[2]
    <3>1. CASE m[2] = h
      <4>1. m = Out(h) /\ token[h][2] < generation[2]
            BY <2>1, <2>4, <3>1, Named
      <4> QED BY <1>1, <4>1, Named DEF Owing
    <3>2. CASE m[2] # h
          BY <1>1, <2>1, <2>4, <3>2, Named DEF Owing, MessagesInv, MessagesTypeOK
    <3> QED BY <3>1, <3>2
  <2> QED BY <2>1, <2>2, <2>3, <2>4 DEF Owing
<1>9. Answered'
  <2>1. \A g \in Handlers \ {h} :
           kind'[g] = kind[g] /\ stage'[g] = stage[g] /\ ids'[g] = ids[g]
        BY <1>1 DEF MessagesInv, MessagesTypeOK
  <2>2. \A m \in visible' : \/ m \in Tracked' \cup trees' \cup lost' \cup crossed'
                            \/ Holds(h, m)' \/ (m \in InHand /\ ~Holds(h, m))
        BY <1>1 DEF MessagesInv, Silent, Answered, Holds
  <2> QED BY <1>2, <2>1, <2>2, Answering
<1> QED BY <1>2, <1>3, <1>4, <1>5, <1>6, <1>7, <1>8, <1>9 DEF MessagesInv

\* The branch that leaves the trees is with the /clear.
LEMMA ClearReplyKeeps ==
    ASSUME MessagesInv, NEW h \in Handlers, ClearReply(h)
    PROVE  MessagesInv'
<1>1. /\ clearing = 0 /\ kind[h] = "reply" /\ stage[h] = "received"
      /\ stage'[h] \in {"sending", "deleting"} /\ stage' = [stage EXCEPT ![h] = stage'[h]]
      /\ ids' = [ids EXCEPT ![h] = ids'[h]] /\ ids'[h] \subseteq Messages
      /\ trees' \subseteq trees
      /\ \/ trees \subseteq trees'
         \/ stage'[h] = "deleting" /\ trees \subseteq trees' \cup ids'[h]
      /\ UNCHANGED <<kind, token, visible, log, cap, generation, clearing, older, crossed,
                     lost, cut>>
      /\ UNCHANGED Tracked
  <2>1. CASE Goes(h, "received", "sending") /\ UNCHANGED <<ids, trees>>
        BY <2>1 DEF ClearReply, Goes, Unlocked, Tracked, history, MessagesInv,
           MessagesTypeOK
  <2>2. CASE \E r \in trees : /\ Goes(h, "received", "deleting")
                              /\ ids' = [ids EXCEPT ![h] = Subtree(r) \cup {In(h)}]
                              /\ trees' = trees \ Subtree(r)
    <3>1. PICK r \in trees : /\ Goes(h, "received", "deleting")
                             /\ ids' = [ids EXCEPT ![h] = Subtree(r) \cup {In(h)}]
                             /\ trees' = trees \ Subtree(r)
          BY <2>2
    <3>2. \A set : Replies(set) \subseteq trees
          BY DEF Replies
    <3>3. Subtree(r) \subseteq trees
          BY <3>2 DEF Subtree
    <3> QED BY <3>1, <3>3, Named DEF ClearReply, Goes, Unlocked, Tracked, history,
               MessagesInv, MessagesTypeOK
  <2> QED BY <2>1, <2>2 DEF ClearReply
<1>2. MessagesTypeOK'
  <2>1. kind' \in [Handlers -> Kinds] /\ ids' \in [Handlers -> SUBSET Messages]
        BY <1>1 DEF MessagesInv, MessagesTypeOK
  <2>2. /\ stage' = [stage EXCEPT ![h] = stage'[h]]
        /\ stage'[h] \in {"sending", "sent", "admitting", "clearing", "deleting", "failing",
                          "over"}
        BY <1>1
  <2>3. /\ visible' \cup trees' \cup older' \cup crossed' \cup lost' \cup Tracked'
              \subseteq Messages
        /\ IsInjective(log') /\ (cap' = 0 \/ Len(log') <= cap')
        /\ clearing' \in Handlers \cup {0}
        BY <1>1, Named DEF MessagesInv, MessagesTypeOK
  <2> QED BY <2>1, <2>2, <2>3 DEF MessagesInv, MessagesTypeOK
<1>3. LogTypeOK'
      BY <1>1 DEF MessagesInv, LogTypeOK
<1>4. Arrived'
  <2> SUFFICES ASSUME NEW m \in visible \cup older
               PROVE  /\ m[1] = "in" => stage'[m[2]] # "new"
                      /\ m[1] = "out" => stage'[m[2]] \notin {"new", "received", "sending"}
      BY <1>1 DEF Arrived
  <2>1. m[2] \in Handlers
        BY Named DEF MessagesInv, MessagesTypeOK
  <2> QED BY <1>1, <2>1 DEF MessagesInv, MessagesTypeOK, Arrived
<1>5. Silent'
      BY <1>1 DEF MessagesInv, MessagesTypeOK, Silent
<1>6. Deleting'
      BY <1>1 DEF MessagesInv, MessagesTypeOK, Deleting
<1>7. Draining'
      BY <1>1 DEF MessagesInv, MessagesTypeOK, Draining
<1>8. Owed'
  <2>1. \A m \in older' \cap visible' :
           m \in older \cap visible /\ Owing(m) /\ m \in Messages
        BY <1>1 DEF MessagesInv, MessagesTypeOK, Owed
  <2>2. \A g \in Handlers : g = h \/ (stage'[g] = stage[g] /\ ids'[g] = ids[g])
        BY <1>1 DEF MessagesInv, MessagesTypeOK
  <2>3. stage[h] = "received"
        BY <1>1 DEF MessagesInv, MessagesTypeOK
  <2>4. \A m \in Messages : m[2] \in Handlers
        BY Named
  <2> QED BY <1>1, <2>1, <2>2, <2>3, <2>4 DEF Owed, Owing
<1>9. Answered'
  <2>1. \A g \in Handlers \ {h} :
           kind'[g] = kind[g] /\ stage'[g] = stage[g] /\ ids'[g] = ids[g]
        BY <1>1 DEF MessagesInv, MessagesTypeOK
  <2>2. \A m \in visible' : \/ m \in Tracked' \cup trees' \cup lost' \cup crossed'
                            \/ Holds(h, m)' \/ (m \in InHand /\ ~Holds(h, m))
        BY <1>1 DEF MessagesInv, Answered, Holds
  <2> QED BY <1>2, <2>1, <2>2, Answering
<1> QED BY <1>2, <1>3, <1>4, <1>5, <1>6, <1>7, <1>8, <1>9 DEF MessagesInv

\* A /clear has all that is tracked, and voids what is not recorded yet.
LEMMA CollectKeeps ==
    ASSUME MessagesInv, NEW h \in Handlers, Collect(h)
    PROVE  MessagesInv'
<1>1. /\ clearing = 0 /\ stage[h] = "received" /\ kind[h] = "clear"
      /\ stage' = [stage EXCEPT ![h] = "clearing"]
      /\ ids' = [ids EXCEPT ![h] = Tracked \cup trees]
      /\ generation' = <<generation[1], generation[2] + 1>>
      /\ clearing' = h /\ trees' = {}
      /\ older' = (Tracked \cup trees \cup Provisional) \cap visible
      /\ UNCHANGED <<kind, token, visible, log, cap, lost, crossed, cut>>
      /\ UNCHANGED Tracked
      BY DEF Collect, Goes, Unlocked, Deletable, Tracked
<1>2. MessagesTypeOK'
      BY <1>1 DEF MessagesInv, MessagesTypeOK
<1>3. LogTypeOK'
      BY <1>1 DEF MessagesInv, LogTypeOK
<1>4. Arrived'
      BY <1>1 DEF MessagesInv, Arrived
<1>5. Silent'
      BY <1>1 DEF MessagesInv, Silent
<1>6. Deleting'
      BY <1>1 DEF MessagesInv, Deleting
<1>7. Draining'
      BY <1>1 DEF MessagesInv, MessagesTypeOK, Draining
<1>8. Owed'
      BY Named, <1>1 DEF Provisional, MessagesInv, MessagesTypeOK, LogTypeOK, Owed, Owing
<1>9. Answered'
  <2>2. InHand \subseteq InHand' /\ trees \subseteq InHand'
        BY <1>1 DEF Holds, InHand, MessagesInv, MessagesTypeOK
  <2> QED BY <1>1, <2>2 DEF MessagesInv, Answered
<1> QED BY <1>2, <1>3, <1>4, <1>5, <1>6, <1>7, <1>8, <1>9 DEF MessagesInv

\* What is erased from the log is with the /clear, lost, or crossed it.
LEMMA EraseKeeps ==
    ASSUME MessagesInv, NEW h \in Handlers, Erase(h)
    PROVE  MessagesInv'
<1>1. PICK to \in {"deleting", "failing"}, set \in SUBSET Messages :
        /\ clearing = h /\ clearing' = 0 /\ log' = <<>>
        /\ stage[h] = "clearing" /\ stage' = [stage EXCEPT ![h] = to]
        /\ ids' = [ids EXCEPT ![h] = set]
        /\ lost \subseteq lost' /\ lost' \subseteq Messages
        /\ to = "deleting" => ids[h] \cup {In(h)} \subseteq set
        /\ to = "failing" => ids[h] \subseteq lost'
        /\ UNCHANGED <<kind, token, visible, cap, trees, generation, older, crossed, cut>>
        /\ Tracked' = {}
  <2> USE DEF Goes, MessagesInv, MessagesTypeOK
  <2>1. /\ clearing = h /\ clearing' = 0 /\ log' = <<>> /\ Tracked' = {}
        /\ UNCHANGED <<kind, token, visible, cap, trees, generation, older, crossed, cut>>
        BY DEF Erase, Tracked, Range
  <2>2. CASE /\ Goes(h, "clearing", "deleting")
             /\ ids' = [ids EXCEPT ![h] = @ \cup {In(h)}] /\ UNCHANGED lost
    <3>1. ids' = [ids EXCEPT ![h] = ids[h] \cup {In(h)}]
          BY <2>2
    <3>2. ids[h] \cup {In(h)} \in SUBSET Messages
          BY Named
    <3> QED BY <2>1, <2>2, <3>1, <3>2
  <2>3. CASE Goes(h, "clearing", "failing") /\ lost' = lost \cup ids[h] /\ UNCHANGED ids
    <3>1. ids' = [ids EXCEPT ![h] = ids[h]] /\ ids[h] \in SUBSET Messages
          BY <2>3
    <3> QED BY <2>1, <2>3, <3>1
  <2> QED BY <2>2, <2>3 DEF Erase
<1>2. MessagesTypeOK'
      BY <1>1 DEF MessagesInv, MessagesTypeOK, LogTypeOK, IsInjective
<1>3. LogTypeOK'
      BY <1>1 DEF MessagesInv, LogTypeOK
<1>4. Arrived'
      BY <1>1 DEF MessagesInv, Arrived
<1>5. Silent'
      BY <1>1 DEF MessagesInv, Silent
<1>6. Deleting'
      BY <1>1 DEF MessagesInv, MessagesTypeOK, Deleting
<1>7. Draining'
      BY <1>1 DEF MessagesInv, MessagesTypeOK, Draining
<1>8. Owed'
  <2>1. \A m \in older' \cap visible' :
           m \in older \cap visible /\ Owing(m) /\ m \in Messages
        BY <1>1 DEF MessagesInv, MessagesTypeOK, Owed
  <2> QED BY <1>1, <2>1 DEF Owed, Owing
<1>9. Answered'
  <2>1. \A g \in Handlers \ {h} :
           kind'[g] = kind[g] /\ stage'[g] = stage[g] /\ ids'[g] = ids[g]
        BY <1>1 DEF MessagesInv, MessagesTypeOK
  <2>2. \A m \in visible' : \/ m \in Tracked' \cup trees' \cup lost' \cup crossed'
                            \/ Holds(h, m)' \/ (m \in InHand /\ ~Holds(h, m))
        BY Named, <1>1 DEF MessagesInv, Draining, Answered, Holds
  <2> QED BY <1>2, <2>1, <2>2, Answering
<1> QED BY <1>2, <1>3, <1>4, <1>5, <1>6, <1>7, <1>8, <1>9 DEF MessagesInv

\* A /clear that raises is logged.
LEMMA FailingKeeps ==
    ASSUME MessagesInv, NEW h \in Handlers, Failing(h)
    PROVE  MessagesInv'
<1>1. /\ clearing = 0 /\ stage[h] = "failing" /\ stage' = [stage EXCEPT ![h] = "over"]
      /\ LogKept({}) /\ lost \subseteq lost' /\ In(h) \in Tracked'
      /\ UNCHANGED <<kind, token, ids, visible, cap, trees, generation, clearing, older, cut>>
      BY Named, Recording DEF Failing, Goes, Unlocked, LogKept, MessagesInv
<1>2. MessagesTypeOK'
      BY <1>1 DEF LogKept, MessagesInv, MessagesTypeOK
<1>3. LogTypeOK'
      BY <1>1 DEF LogKept, MessagesInv, LogTypeOK
<1>4. Arrived'
      BY <1>1 DEF MessagesInv, Arrived
<1>5. Silent'
      BY <1>1 DEF MessagesInv, Silent
<1>6. Deleting'
      BY <1>1 DEF MessagesInv, Deleting
<1>7. Draining'
      BY <1>1 DEF MessagesInv, Draining
<1>8. Owed'
  <2>1. \A m \in older' \cap visible' :
           m \in older \cap visible /\ Owing(m) /\ m \in Messages
        BY <1>1 DEF MessagesInv, MessagesTypeOK, Owed
  <2> QED BY <1>1, <2>1 DEF Owed, Owing
<1>9. Answered'
  <2>1. \A g \in Handlers \ {h} :
           kind'[g] = kind[g] /\ stage'[g] = stage[g] /\ ids'[g] = ids[g]
        BY <1>1 DEF MessagesInv, MessagesTypeOK
  <2>2. \A m \in visible' : \/ m \in Tracked' \cup trees' \cup lost' \cup crossed'
                            \/ Holds(h, m)' \/ (m \in InHand /\ ~Holds(h, m))
        BY <1>1 DEF LogKept, MessagesInv, Answered, Holds
  <2> QED BY <1>2, <2>1, <2>2, Answering
<1> QED BY <1>2, <1>3, <1>4, <1>5, <1>6, <1>7, <1>8, <1>9 DEF MessagesInv

\* What is not deleted is given up.
LEMMA DeleteKeeps ==
    ASSUME MessagesInv, NEW h \in Handlers, Delete(h)
    PROVE  MessagesInv'
<1>1. PICK deleted \in SUBSET ids[h] :
        /\ kind[h] # "notice" /\ stage[h] = "deleting"
        /\ stage' = [stage EXCEPT ![h] = "over"]
        /\ visible' = visible \ deleted /\ lost' = lost \cup (ids[h] \ deleted)
        /\ LogKept(ids[h]) /\ ids[h] \subseteq Messages
        /\ UNCHANGED <<kind, token, ids, cap, trees, generation, clearing, older, crossed, cut>>
  <2>1. PICK deleted \in SUBSET ids[h] :
              visible' = visible \ deleted /\ lost' = lost \cup (ids[h] \ deleted)
        BY DEF Delete
  <2>2. ids[h] \subseteq Messages /\ lost \subseteq lost' /\ lost' \subseteq Messages
        BY <2>1 DEF MessagesInv, MessagesTypeOK
  <2>3. LogKept({}) => LogKept(ids[h])
        BY DEF LogKept
  <2>4. LogKept(ids[h])
        BY <2>2, <2>3, Keeping DEF Delete, MessagesInv
  <2> QED BY <2>1, <2>2, <2>4 DEF Delete, Goes
<1>2. MessagesTypeOK'
      BY <1>1 DEF LogKept, MessagesInv, MessagesTypeOK
<1>3. LogTypeOK'
      BY <1>1 DEF LogKept, MessagesInv, LogTypeOK
<1>4. Arrived'
      BY <1>1 DEF MessagesInv, Arrived
<1>5. Silent'
      BY <1>1 DEF MessagesInv, Silent
<1>6. Deleting'
      BY <1>1 DEF MessagesInv, Deleting
<1>7. Draining'
      BY <1>1 DEF LogKept, MessagesInv, Draining
<1>8. Owed'
  <2>1. \A m \in older' \cap visible' :
           m \in older \cap visible /\ Owing(m) /\ m \in Messages
        BY <1>1 DEF MessagesInv, MessagesTypeOK, Owed
  <2> QED BY <1>1, <2>1 DEF Owed, Owing
<1>9. Answered'
  <2>1. \A g \in Handlers \ {h} :
           kind'[g] = kind[g] /\ stage'[g] = stage[g] /\ ids'[g] = ids[g]
        BY <1>1 DEF MessagesInv, MessagesTypeOK
  <2>2. \A m \in visible' : \/ m \in Tracked' \cup trees' \cup lost' \cup crossed'
                            \/ Holds(h, m)' \/ (m \in InHand /\ ~Holds(h, m))
        BY <1>1 DEF LogKept, MessagesInv, Deleting, Answered, Holds
  <2> QED BY <1>2, <2>1, <2>2, Answering
<1> QED BY <1>2, <1>3, <1>4, <1>5, <1>6, <1>7, <1>8, <1>9 DEF MessagesInv

\* A notice from before a /clear is to be deleted.
LEMMA FinalizeKeeps ==
    ASSUME MessagesInv, NEW h \in Handlers, Finalize(h)
    PROVE  MessagesInv'
<1>1. PICK to \in {"deleting", "over"}, set \in SUBSET Messages :
        /\ clearing = 0 /\ kind[h] = "notice" /\ stage[h] = "sent"
        /\ stage' = [stage EXCEPT ![h] = to] /\ ids' = [ids EXCEPT ![h] = set]
        /\ to = "deleting" => set = {Out(h)}
        /\ to = "over" => token[h][2] = generation[2] /\ Out(h) \in Tracked'
        /\ LogKept({}) /\ lost \subseteq lost'
        /\ UNCHANGED <<kind, token, visible, cap, trees, generation, clearing, older, cut>>
  <2> USE DEF Finalize, Goes, LogKept, Unlocked, MessagesInv, MessagesTypeOK
  <2>1. CASE Unwanted(h)
    <3>1. LogKept({}) /\ lost \subseteq lost'
          BY <2>1, Keeping
    <3> QED BY <2>1, <3>1, Named
  <2>2. CASE ~Unwanted(h)
    <3>1. LogKept({}) /\ lost \subseteq lost' /\ Out(h) \in Tracked'
          BY <2>2, Named, Recording
    <3>2. ids' = [ids EXCEPT ![h] = ids[h]] /\ ids[h] \in SUBSET Messages
          BY <2>2
    <3> QED BY <2>2, <3>1, <3>2 DEF Unwanted
  <2> QED BY <2>1, <2>2
<1>2. MessagesTypeOK'
      BY <1>1 DEF LogKept, MessagesInv, MessagesTypeOK
<1>3. LogTypeOK'
      BY <1>1 DEF LogKept, MessagesInv, LogTypeOK
<1>4. Arrived'
      BY <1>1 DEF MessagesInv, Arrived
<1>5. Silent'
      BY <1>1 DEF MessagesInv, Silent
<1>6. Deleting'
      BY <1>1 DEF MessagesInv, MessagesTypeOK, Deleting
<1>7. Draining'
      BY <1>1 DEF MessagesInv, Draining
<1>8. Owed'
  <2> SUFFICES ASSUME NEW m \in older' \cap visible'
               PROVE  Owing(m)'
      BY DEF Owed
  <2>1. m \in older \cap visible /\ Owing(m) /\ m \in Messages
        BY <1>1 DEF MessagesInv, MessagesTypeOK, Owed
  <2>2. CASE m \in lost \/ m[2] \in cut \/ stage[m[2]] \in {"keeping", "kept"}
        BY <1>1, <2>2 DEF Owing
  <2>3. CASE \E g \in Handlers : stage[g] \in {"clearing", "deleting"} /\ m \in ids[g]
        BY <1>1, <2>3 DEF Owing
  <2>4. CASE /\ m[1] = "out" /\ kind[m[2]] \in {"turn", "notice"}
             /\ stage[m[2]] \in {"sent", "admitting"} /\ token[m[2]][2] < generation[2]
        BY Named, <1>1, <2>1 DEF Owing, MessagesInv, MessagesTypeOK, LogTypeOK
  <2> QED BY <2>1, <2>2, <2>3, <2>4 DEF Owing
<1>9. Answered'
  <2>1. \A g \in Handlers \ {h} :
           kind'[g] = kind[g] /\ stage'[g] = stage[g] /\ ids'[g] = ids[g]
        BY <1>1 DEF MessagesInv, MessagesTypeOK
  <2>2. \A m \in visible' : \/ m \in Tracked' \cup trees' \cup lost' \cup crossed'
                            \/ Holds(h, m)' \/ (m \in InHand /\ ~Holds(h, m))
        BY <1>1 DEF LogKept, MessagesInv, MessagesTypeOK, Answered, Holds
  <2> QED BY <1>2, <2>1, <2>2, Answering
<1> QED BY <1>2, <1>3, <1>4, <1>5, <1>6, <1>7, <1>8, <1>9 DEF MessagesInv

\* A notice that stays in the chat is kept in hand, or given up.
LEMMA DeleteNoticeKeeps ==
    ASSUME MessagesInv, NEW h \in Handlers, DeleteNotice(h)
    PROVE  MessagesInv'
<1>1. PICK to \in {"forgetting", "keeping"} :
        /\ kind[h] = "notice" /\ stage[h] = "deleting" /\ stage' = [stage EXCEPT ![h] = to]
        /\ visible' \subseteq visible /\ lost \subseteq lost' /\ lost' \subseteq Messages
        /\ visible \subseteq visible' \cup {Out(h)}
        /\ to = "forgetting" => Out(h) \notin visible' \/ Out(h) \in lost'
        /\ UNCHANGED <<kind, token, ids, log, cap, trees, generation, clearing, older, crossed,
                       cut>>
        /\ UNCHANGED Tracked
      BY Named DEF DeleteNotice, Goes, Tracked, MessagesInv, MessagesTypeOK
<1>2. MessagesTypeOK'
      BY <1>1 DEF MessagesInv, MessagesTypeOK
<1>3. LogTypeOK'
      BY <1>1 DEF MessagesInv, LogTypeOK
<1>4. Arrived'
      BY <1>1 DEF MessagesInv, Arrived
<1>5. Silent'
      BY <1>1 DEF MessagesInv, Silent
<1>6. Deleting'
      BY <1>1 DEF MessagesInv, Deleting
<1>7. Draining'
      BY <1>1 DEF MessagesInv, Draining
<1>8. Owed'
  <2> SUFFICES ASSUME NEW m \in older' \cap visible'
               PROVE  Owing(m)'
      BY DEF Owed
  <2>1. m \in older \cap visible /\ Owing(m) /\ m \in Messages
        BY <1>1 DEF MessagesInv, MessagesTypeOK, Owed
  <2>2. CASE m \in lost \/ m[2] \in cut \/ stage[m[2]] \in {"keeping", "kept"}
        BY <1>1, <2>2 DEF Owing
  <2>3. CASE \E g \in Handlers : stage[g] \in {"clearing", "deleting"} /\ m \in ids[g]
        BY Named, <1>1, <2>1 DEF Owing, MessagesInv, Deleting
  <2>4. CASE /\ m[1] = "out" /\ kind[m[2]] \in {"turn", "notice"}
             /\ stage[m[2]] \in {"sent", "admitting"} /\ token[m[2]][2] < generation[2]
        BY <1>1, <2>4 DEF Owing
  <2> QED BY <2>1, <2>2, <2>3, <2>4 DEF Owing
<1>9. Answered'
  <2>1. \A g \in Handlers \ {h} :
           kind'[g] = kind[g] /\ stage'[g] = stage[g] /\ ids'[g] = ids[g]
        BY <1>1 DEF MessagesInv, MessagesTypeOK
  <2>2. \A m \in visible' : \/ m \in Tracked' \cup trees' \cup lost' \cup crossed'
                            \/ Holds(h, m)' \/ (m \in InHand /\ ~Holds(h, m))
        BY <1>1 DEF MessagesInv, Deleting, Answered, Holds
  <2> QED BY <1>2, <2>1, <2>2, Answering
<1> QED BY <1>2, <1>3, <1>4, <1>5, <1>6, <1>7, <1>8, <1>9 DEF MessagesInv

\* What is kept is logged again.
LEMMA SettleKeeps ==
    ASSUME MessagesInv, NEW h \in Handlers, Settle(h)
    PROVE  MessagesInv'
<1>1. /\ clearing = 0
      /\ UNCHANGED <<kind, token, ids, visible, cap, trees, generation, clearing, older, cut>>
      /\ \/ /\ stage[h] = "keeping" /\ stage' = [stage EXCEPT ![h] = "kept"]
            /\ LogKept({}) /\ lost \subseteq lost' /\ Out(h) \in Tracked'
         \/ /\ stage[h] = "forgetting" /\ stage' = [stage EXCEPT ![h] = "over"]
            /\ LogKept({Out(h)}) /\ UNCHANGED lost
  <2> USE DEF Settle, Goes, LogKept, Unlocked, MessagesInv, MessagesTypeOK
  <2>1. CASE Goes(h, "keeping", "kept") /\ Records(Out(h))
        BY <2>1, Named, Recording
  <2>2. CASE /\ Goes(h, "forgetting", "over") /\ log' = Without({Out(h)})
             /\ UNCHANGED <<lost, crossed>>
        BY <2>2, Keeping
  <2> QED BY <2>1, <2>2
<1>2. MessagesTypeOK'
      BY <1>1 DEF LogKept, MessagesInv, MessagesTypeOK
<1>3. LogTypeOK'
      BY <1>1 DEF LogKept, MessagesInv, LogTypeOK
<1>4. Arrived'
  <2>1. stage[h] # "new" /\ stage'[h] \in {"kept", "over"}
        BY <1>1 DEF MessagesInv, MessagesTypeOK
  <2>2. \A g \in Handlers : stage'[g] = stage[g] \/ g = h
        BY <1>1 DEF MessagesInv, MessagesTypeOK
  <2>3. \A m \in visible \cup older : m[2] \in Handlers
        BY Named DEF MessagesInv, MessagesTypeOK
  <2> QED BY <1>1, <2>1, <2>2, <2>3 DEF MessagesInv, Arrived
<1>5. Silent'
  <2>1. kind[h] # "clear" \/ stage'[h] = "over"
        BY <1>1 DEF MessagesInv, Silent
  <2>2. \A g \in Handlers : stage'[g] = stage[g] \/ g = h
        BY <1>1 DEF MessagesInv, MessagesTypeOK
  <2> QED BY <1>1, <2>1, <2>2 DEF MessagesInv, Silent
<1>6. Deleting'
      BY <1>1 DEF MessagesInv, MessagesTypeOK, Deleting
<1>7. Draining'
      BY <1>1 DEF MessagesInv, MessagesTypeOK, Draining
<1>8. Owed'
  <2>1. \A m \in older' \cap visible' :
           m \in older \cap visible /\ Owing(m) /\ m \in Messages
        BY <1>1 DEF MessagesInv, MessagesTypeOK, Owed
  <2>2. \A g \in Handlers : g = h \/ (stage'[g] = stage[g] /\ ids'[g] = ids[g])
        BY <1>1 DEF MessagesInv, MessagesTypeOK
  <2>3. \/ stage[h] = "keeping" /\ stage'[h] = "kept"
        \/ stage[h] = "forgetting"
        BY <1>1 DEF MessagesInv, MessagesTypeOK
  <2>4. \A m \in Messages : m[2] \in Handlers
        BY Named
  <2> QED BY <1>1, <2>1, <2>2, <2>3, <2>4 DEF Owed, Owing
<1>9. Answered'
  <2>1. \A g \in Handlers \ {h} :
           kind'[g] = kind[g] /\ stage'[g] = stage[g] /\ ids'[g] = ids[g]
        BY <1>1 DEF MessagesInv, MessagesTypeOK
  <2>2. \A m \in visible' : \/ m \in Tracked' \cup trees' \cup lost' \cup crossed'
                            \/ Holds(h, m)' \/ (m \in InHand /\ ~Holds(h, m))
        BY <1>1 DEF LogKept, MessagesInv, Silent, Deleting, Answered, Holds
  <2> QED BY <1>2, <2>1, <2>2, Answering
<1> QED BY <1>2, <1>3, <1>4, <1>5, <1>6, <1>7, <1>8, <1>9 DEF MessagesInv

\* Who is cancelled gives up what it has in hand.
LEMMA InterruptKeeps ==
    ASSUME MessagesInv, NEW h \in Handlers, Interrupt(h)
    PROVE  MessagesInv'
<1>1. /\ cut' = cut \cup {h} /\ stage' = [stage EXCEPT ![h] = stage'[h]]
      /\ \/ stage'[h] = stage[h] /\ stage[h] \in {"sent", "admitting", "clearing"}
         \/ stage'[h] = "over" /\ stage[h] \in {"sending", "sent"}
         \/ /\ stage'[h] = IF kind[h] = "clear" THEN "failing" ELSE "over"
            /\ stage[h] = "received" \/ (stage[h] = "deleting" /\ kind[h] # "notice")
      /\ stage[h] = "sent" /\ stage'[h] = "over" => Out(h) \in lost'
      /\ stage[h] = "deleting" => ids[h] \cap visible' \subseteq lost'
      /\ \/ visible' \subseteq visible
         \/ stage[h] = "sending" /\ visible' = visible \cup {Out(h)} /\ Out(h) \in lost'
      /\ lost \subseteq lost' /\ lost' \subseteq Messages
      /\ UNCHANGED <<kind, token, ids, log, cap, trees, generation, clearing, older, crossed>>
      /\ UNCHANGED Tracked
  <2> USE DEF Goes, MessagesInv, MessagesTypeOK
  <2>1. /\ cut' = cut \cup {h} /\ UNCHANGED Tracked
        /\ UNCHANGED <<kind, token, ids, log, cap, trees, generation, clearing, older, crossed>>
        BY DEF Interrupt, Tracked
  <2>2. CASE Goes(h, "sending", "over") /\ UNCHANGED <<visible, lost>>
        BY <2>1, <2>2
  <2>3. CASE /\ Goes(h, "sending", "over")
             /\ visible' = visible \cup {Out(h)} /\ lost' = lost \cup {Out(h)}
        BY <2>1, <2>3, Named
  <2>4. CASE Goes(h, "sent", "over") /\ lost' = lost \cup {Out(h)} /\ UNCHANGED visible
        BY <2>1, <2>4, Named
  <2>5. CASE /\ stage[h] \in {"sent", "admitting", "clearing"}
             /\ UNCHANGED <<stage, visible, lost>>
        BY <2>1, <2>5
  <2>6. CASE /\ Goes(h, "received", IF kind[h] = "clear" THEN "failing" ELSE "over")
             /\ UNCHANGED <<visible, lost>>
        BY <2>1, <2>6
  <2>7. CASE /\ kind[h] # "notice"
             /\ Goes(h, "deleting", IF kind[h] = "clear" THEN "failing" ELSE "over")
             /\ \E deleted \in SUBSET ids[h] :
                   visible' = visible \ deleted /\ lost' = lost \cup (ids[h] \ deleted)
    <3>1. PICK deleted \in SUBSET ids[h] :
                visible' = visible \ deleted /\ lost' = lost \cup (ids[h] \ deleted)
          BY <2>7
    <3> QED BY <2>1, <2>7, <3>1
  <2> QED BY <2>2, <2>3, <2>4, <2>5, <2>6, <2>7 DEF Interrupt
<1>2. MessagesTypeOK'
  <2>1. kind' \in [Handlers -> Kinds] /\ ids' \in [Handlers -> SUBSET Messages]
        BY <1>1 DEF MessagesInv, MessagesTypeOK
  <2>2. /\ stage' = [stage EXCEPT ![h] = stage'[h]]
        /\ stage'[h] \in {"sending", "sent", "admitting", "clearing", "deleting", "failing",
                          "over"}
        BY <1>1
  <2>3. /\ visible' \cup trees' \cup older' \cup crossed' \cup lost' \cup Tracked'
              \subseteq Messages
        /\ IsInjective(log') /\ (cap' = 0 \/ Len(log') <= cap')
        /\ clearing' \in Handlers \cup {0}
        BY <1>1, Named DEF MessagesInv, MessagesTypeOK
  <2> QED BY <2>1, <2>2, <2>3 DEF MessagesInv, MessagesTypeOK
<1>3. LogTypeOK'
      BY <1>1 DEF MessagesInv, LogTypeOK
<1>4. Arrived'
      BY Named, <1>1 DEF MessagesInv, MessagesTypeOK, Arrived
<1>5. Silent'
      BY <1>1 DEF MessagesInv, MessagesTypeOK, Silent
<1>6. Deleting'
      BY <1>1 DEF MessagesInv, MessagesTypeOK, Deleting
<1>7. Draining'
      BY <1>1 DEF MessagesInv, MessagesTypeOK, Draining
<1>8. Owed'
      BY Named, <1>1 DEF Owed, Owing, MessagesInv, MessagesTypeOK
<1>9. Answered'
  <2>1. \A g \in Handlers \ {h} :
           kind'[g] = kind[g] /\ stage'[g] = stage[g] /\ ids'[g] = ids[g]
        BY <1>1 DEF MessagesInv, MessagesTypeOK
  <2>2. \A m \in visible' : \/ m \in Tracked' \cup trees' \cup lost' \cup crossed'
                            \/ Holds(h, m)' \/ (m \in InHand /\ ~Holds(h, m))
        BY <1>1 DEF MessagesInv, Silent, Answered, Holds
  <2> QED BY <1>2, <2>1, <2>2, Answering
<1> QED BY <1>2, <1>3, <1>4, <1>5, <1>6, <1>7, <1>8, <1>9 DEF MessagesInv

-----------------------------------------------------------------------------
(***************************************************************************)
(* Whatever the handlers, the cap of the log and the mishaps: everything   *)
(* in the chat is in the log, in a tree, with a handler or given up, and   *)
(* what a /clear found is still owed to it.                                *)
(***************************************************************************)
THEOREM MessagesAreSound == MessagesSpec => []MessagesInv
<1>1. MessagesInit => MessagesInv
  <2> SUFFICES ASSUME MessagesInit
               PROVE  MessagesInv
      OBVIOUS
  <2>1. log = <<>> /\ Tracked = {} /\ clearing = 0 /\ visible = {} /\ older = {}
        BY DEF MessagesInit, Tracked, Range
  <2>2. cap \in Nat
        BY MessagesAssumption DEF MessagesInit
  <2>3. MessagesTypeOK
        BY <2>1, <2>2 DEF MessagesInit, MessagesTypeOK, Kinds, IsInjective
  <2>4. LogTypeOK
        BY <2>1, <2>2 DEF MessagesInit, LogTypeOK
  <2>5. Silent /\ Deleting /\ Draining
        BY DEF MessagesInit, Silent, Deleting, Draining
  <2> QED BY <2>1, <2>3, <2>4, <2>5 DEF MessagesInv, Arrived, Owed, Answered
<1>2. MessagesInv /\ [MessagesNext]_messagesVars => MessagesInv'
  <2> SUFFICES ASSUME MessagesInv, [MessagesNext]_messagesVars
               PROVE  MessagesInv'
      OBVIOUS
  <2>1. CASE UNCHANGED messagesVars
        BY <2>1 DEF messagesVars, handlers, history, MessagesInv, MessagesTypeOK, LogTypeOK,
           Arrived, Silent, Deleting, Draining, Owed, Owing, Answered, InHand, Holds,
           Tracked
  <2>2. ASSUME NEW h \in Handlers,
               \/ Receive(h) \/ Resolve(h) \/ Command(h)
               \/ SendStatus(h) \/ StatusFails(h) \/ Record(h) \/ Admit(h)
               \/ ClearReply(h) \/ Collect(h) \/ Erase(h) \/ Failing(h)
               \/ Delete(h) \/ Finalize(h) \/ DeleteNotice(h) \/ Settle(h) \/ Interrupt(h)
        PROVE  MessagesInv'
        BY <2>2, ReceiveKeeps, ResolveKeeps, CommandKeeps, SendStatusKeeps,
           StatusFailsKeeps, RecordKeeps, AdmitKeeps, ClearReplyKeeps, CollectKeeps,
           EraseKeeps, FailingKeeps, DeleteKeeps, FinalizeKeeps, DeleteNoticeKeeps,
           SettleKeeps, InterruptKeeps
  <2> QED BY <2>1, <2>2 DEF MessagesNext, ChatAtRest
<1> QED BY <1>1, <1>2, PTL DEF MessagesSpec

(***************************************************************************)
(* MessagesKept: somebody answers for every message in the chat, and when  *)
(* all have ended nothing that a /clear found is left of it, but what was  *)
(* given up, cancelled, or could not be deleted.                           *)
(***************************************************************************)
THEOREM MessagesHold == MessagesSpec => []MessagesKept
<1>1. MessagesInv => MessagesKept
  <2> SUFFICES ASSUME MessagesInv
               PROVE  ClearIsFinal
      BY DEF MessagesInv, MessagesKept
  <2> SUFFICES ASSUME AllOver, NEW m \in older \cap visible
               PROVE  m \in lost \/ m[2] \in cut \/ stage[m[2]] = "kept"
      BY DEF ClearIsFinal
  <2>1. m[2] \in Handlers
        BY Named DEF MessagesInv, MessagesTypeOK
  <2>2. \A h \in Handlers : stage[h] \in {"over", "kept"}
        BY DEF AllOver
  <2>3. Owing(m)
        BY DEF MessagesInv, Owed
  <2> QED BY <2>1, <2>2, <2>3 DEF Owing
<1> QED BY <1>1, MessagesAreSound, PTL
-----------------------------------------------------------------------------
(***************************************************************************)
(* ChatStream. A ledger is Sound while the turn is undecided: the client's *)
(* automaton, run on all that it has been sent, has exactly the ledger's   *)
(* blocks (Wired); every open block belongs to the text, the thinking or   *)
(* one tool, so that what closes those closes all (Owned); and arguments   *)
(* are put out whole, and once (Faithful). Each operation of the ledger is *)
(* shown to keep these once, and the actions are compositions of them.     *)
(***************************************************************************)
BlockTypes == {"text", "thinking", "tool_use", "redacted_thinking"}
Seen == {"none", "blank", "some"}
Block == [type : BlockTypes, open : BOOLEAN, args : Seq(Nat)]
Tool == [named : BOOLEAN, block : Nat, buffer : Seq(Nat), pre : Seq(Nat),
         emitted : BOOLEAN]
Wire == [begun : BOOLEAN, open : SUBSET Nat, seen : SUBSET Nat, tools : SUBSET Nat,
         whole : SUBSET Nat, visible : BOOLEAN, ended : BOOLEAN, bad : BOOLEAN]
Ledger == [blocks : Seq(Block), text : Nat, thinking : Nat, shown : Seen,
           thought : BOOLEAN, tools : [Tools -> Tool], wire : Wire]

\* The client has been sent what the ledger's blocks tell, and nothing wrong.
Wired(L) ==
    /\ L \in Ledger
    /\ L.wire.begun /\ ~L.wire.ended /\ ~L.wire.bad
    /\ L.wire.seen = DOMAIN L.blocks
    /\ L.wire.open = Opened(L)
    /\ NeedsVisible(L) \/ L.wire.visible

\* A block that is open is the text's, the thinking's or one tool's.
Owned(L) ==
    /\ L.thinking # 0 => L.thinking \in Opened(L) /\ L.blocks[L.thinking].type = "thinking"
    /\ L.text # 0 => L.text \in Opened(L) /\ L.blocks[L.text].type = "text"
    /\ \A t \in Started(L) :
          L.tools[t].block \in Opened(L) /\ L.blocks[L.tools[t].block].type = "tool_use"
    /\ \A t, u \in Started(L) : L.tools[t].block = L.tools[u].block => t = u
    /\ \A t \in Tools \ Started(L) : L.tools[t].buffer = <<>>
    /\ Opened(L) \subseteq {L.text, L.thinking} \cup BlocksOf(L, Started(L))

\* Arguments are put out whole, and once.
Faithful(L) ==
    /\ \A i \in DOMAIN L.blocks : L.blocks[i].args \in {<<>>, Whole}
    /\ L.wire.whole = {i \in DOMAIN L.blocks : L.blocks[i].args = Whole}
    /\ \A t \in Tools :
          L.tools[t].emitted <=> t \in Started(L) /\ L.blocks[L.tools[t].block].args = Whole

Sound(L) == Wired(L) /\ Owned(L) /\ Faithful(L)

\* The inductive invariant. A turn that is over is judged by its client alone.
Undecided == phase \in {"opening", "reading"}
ChatInv ==
    /\ names \subseteq Tools /\ pieces \in [Tools -> Nat]
    /\ committed \in BOOLEAN
    /\ phase \in {"opening", "reading", "completed", "failed"}
    /\ Undecided => Sound(ledger)
    /\ Undecided /\ committed => client = ledger.wire
    /\ ~committed => client = NothingSent
    /\ phase = "completed" =>
          client.ended /\ ~client.bad /\ client.open = {} /\ client.visible
    /\ phase = "failed" => ~client.ended /\ ~client.bad /\ client.open = {}

\* Something to see stays.
Shows(L, M) == NeedsVisible(M) => NeedsVisible(L)

\* The arguments of a block, and the whole ones, when some have been added.
ArgsWith(L, blocks, args, i) ==
    IF i \in blocks THEN L.blocks[i].args \o args ELSE L.blocks[i].args
WholeWith(L, blocks, args) ==
    IF args = Whole THEN L.wire.whole \cup blocks ELSE L.wire.whole

\* What a start makes of a ledger.
Gains(L, M, new, type) ==
    /\ Wired(M)
    /\ DOMAIN M.blocks = DOMAIN L.blocks \cup new
    /\ Opened(M) = Opened(L) \cup new
    /\ \A i \in DOMAIN L.blocks : M.blocks[i] = L.blocks[i]
    /\ \A i \in new : M.blocks[i].type = type /\ M.blocks[i].args = <<>>
    /\ M.tools = L.tools /\ M.text = L.text /\ M.thinking = L.thinking
    /\ M.shown = L.shown
    /\ M.wire.whole = L.wire.whole
    /\ Shows(L, M)

\* What a delta makes of a ledger.
Adds(L, M, blocks, what, args) ==
    /\ Wired(M)
    /\ Len(M.blocks) = Len(L.blocks) /\ Opened(M) = Opened(L)
    /\ \A i \in DOMAIN L.blocks :
          /\ M.blocks[i].type = L.blocks[i].type
          /\ M.blocks[i].args = ArgsWith(L, blocks, args, i)
    /\ M.tools = L.tools /\ M.text = L.text /\ M.thinking = L.thinking
    /\ M.shown = L.shown
    /\ M.wire.whole = WholeWith(L, blocks, args)
    /\ Shows(L, M)
    /\ blocks # {} /\ what = "some" => M.wire.visible

\* A ledger that has come of another keeps the contract when that does.
Later(L, M) == Wired(M) /\ Owned(M) /\ (Faithful(L) => Faithful(M)) /\ Shows(L, M)

\* A ledger that is changed in one field has the others as they were.
LEMMA WithBlocks ==
    ASSUME NEW L \in Ledger, NEW x \in Seq(Block)
    PROVE  LET M == [L EXCEPT !.blocks = x]
           IN  /\ M \in Ledger /\ M.blocks = x
               /\ M.text = L.text /\ M.thinking = L.thinking /\ M.shown = L.shown
               /\ M.thought = L.thought /\ M.tools = L.tools /\ M.wire = L.wire
  BY DEF Ledger

LEMMA WithText ==
    ASSUME NEW L \in Ledger, NEW x \in Nat
    PROVE  LET M == [L EXCEPT !.text = x]
           IN  /\ M \in Ledger /\ M.text = x
               /\ M.blocks = L.blocks /\ M.thinking = L.thinking /\ M.shown = L.shown
               /\ M.thought = L.thought /\ M.tools = L.tools /\ M.wire = L.wire
  BY DEF Ledger

LEMMA WithThinking ==
    ASSUME NEW L \in Ledger, NEW x \in Nat
    PROVE  LET M == [L EXCEPT !.thinking = x]
           IN  /\ M \in Ledger /\ M.thinking = x
               /\ M.blocks = L.blocks /\ M.text = L.text /\ M.shown = L.shown
               /\ M.thought = L.thought /\ M.tools = L.tools /\ M.wire = L.wire
  BY DEF Ledger

LEMMA WithShown ==
    ASSUME NEW L \in Ledger, NEW x \in Seen
    PROVE  LET M == [L EXCEPT !.shown = x]
           IN  /\ M \in Ledger /\ M.shown = x
               /\ M.blocks = L.blocks /\ M.text = L.text /\ M.thinking = L.thinking
               /\ M.thought = L.thought /\ M.tools = L.tools /\ M.wire = L.wire
  BY DEF Ledger

LEMMA WithThought ==
    ASSUME NEW L \in Ledger, NEW x \in BOOLEAN
    PROVE  LET M == [L EXCEPT !.thought = x]
           IN  /\ M \in Ledger /\ M.thought = x
               /\ M.blocks = L.blocks /\ M.text = L.text /\ M.thinking = L.thinking
               /\ M.shown = L.shown /\ M.tools = L.tools /\ M.wire = L.wire
  BY DEF Ledger

LEMMA WithTools ==
    ASSUME NEW L \in Ledger, NEW x \in [Tools -> Tool]
    PROVE  LET M == [L EXCEPT !.tools = x]
           IN  /\ M \in Ledger /\ M.tools = x
               /\ M.blocks = L.blocks /\ M.text = L.text /\ M.thinking = L.thinking
               /\ M.shown = L.shown /\ M.thought = L.thought /\ M.wire = L.wire
  BY DEF Ledger

LEMMA WithWire ==
    ASSUME NEW L \in Ledger, NEW x \in Wire
    PROVE  LET M == [L EXCEPT !.wire = x]
           IN  /\ M \in Ledger /\ M.wire = x
               /\ M.blocks = L.blocks /\ M.text = L.text /\ M.thinking = L.thinking
               /\ M.shown = L.shown /\ M.thought = L.thought /\ M.tools = L.tools
  BY DEF Ledger

\* Arguments are sequences of pieces.
LEMMA AppendsArgs ==
    ASSUME NEW a \in Seq(Nat), NEW b \in Seq(Nat)
    PROVE  a \o b \in Seq(Nat)
  OBVIOUS

\* The blocks of a ledger and their fields.
LEMMA Lengths ==
    ASSUME NEW L \in Ledger
    PROVE  /\ DOMAIN L.blocks = 1..Len(L.blocks) /\ Len(L.blocks) \in Nat
           /\ L.blocks \in Seq(Block)
           /\ \A i \in DOMAIN L.blocks :
                 /\ L.blocks[i] \in Block /\ L.blocks[i].open \in BOOLEAN
                 /\ L.blocks[i].type \in BlockTypes /\ L.blocks[i].args \in Seq(Nat)
  <1>1. L.blocks \in Seq(Block)
    BY DEF Ledger
  <1>2. \A i \in DOMAIN L.blocks : L.blocks[i] \in Block
    BY <1>1
  <1> QED BY <1>1, <1>2 DEF Block

\* New blocks, all of a type, are the last of the ledger, open and empty.
LEMMA Starting ==
    ASSUME NEW L, Wired(L), NEW n \in Nat, NEW type \in BlockTypes
    PROVE  LET new == Len(L.blocks) + 1 .. Len(L.blocks) + n
           IN  Gains(L, StartBlocks(L, n, type), new, type)
<1> DEFINE new == Len(L.blocks) + 1 .. Len(L.blocks) + n
           block == [type |-> type, open |-> TRUE, args |-> <<>>]
           added == [i \in 1..n |-> block]
           x == L.blocks \o added
           K == [L EXCEPT !.blocks = x]
           w == Receives(L.wire, "start", new, type, <<>>)
           M == StartBlocks(L, n, type)
<1>1. L \in Ledger /\ L.wire \in Wire
  BY DEF Wired, Ledger
<1>2. block \in Block /\ block.open /\ block.type = type /\ block.args = <<>>
  BY DEF Block
<1>3. new # {} => M = [K EXCEPT !.wire = w]
  BY <1>1 DEF StartBlocks, Emit, Ledger
<1>4. new = {} => M = K
  BY DEF StartBlocks, Emit
<1> HIDE DEF block
<1>5. added \in Seq(Block) /\ Len(added) = n /\ \A i \in 1..n : added[i] = block
  BY <1>2
<1> HIDE DEF added
<1>6. /\ x \in Seq(Block) /\ Len(x) = Len(L.blocks) + n
      /\ \A i \in DOMAIN L.blocks : x[i] = L.blocks[i]
      /\ \A i \in new : x[i] = block
  <2>1. L.blocks \in Seq(Block) /\ DOMAIN L.blocks = 1..Len(L.blocks) /\ Len(L.blocks) \in Nat
    BY <1>1, Lengths
  <2>2. x \in Seq(Block) /\ Len(x) = Len(L.blocks) + n
    BY <2>1, <1>5
  <2>3. \A i \in DOMAIN L.blocks : x[i] = L.blocks[i]
    BY <2>1, <1>5
  <2>4. \A i \in new : x[i] = added[i - Len(L.blocks)] /\ i - Len(L.blocks) \in 1..n
    BY <2>1, <1>5
  <2> QED BY <2>2, <2>3, <2>4, <1>5
<1> HIDE DEF x
<1>7. DOMAIN x = DOMAIN L.blocks \cup new /\ DOMAIN L.blocks \cap new = {} /\ new \subseteq Nat
  <2>1. DOMAIN L.blocks = 1..Len(L.blocks) /\ Len(L.blocks) \in Nat
    BY <1>1, Lengths
  <2>2. DOMAIN x = 1..Len(x)
    BY <1>6
  <2> QED BY <2>1, <2>2, <1>6
<1> HIDE DEF new
<1>8. /\ K \in Ledger /\ K.blocks = x /\ K.text = L.text /\ K.thinking = L.thinking
      /\ K.shown = L.shown /\ K.tools = L.tools /\ K.wire = L.wire
  BY <1>1, <1>6, WithBlocks
<1>9. /\ w \in Wire /\ w.begun /\ ~w.ended
      /\ w.seen = L.wire.seen \cup new /\ w.open = L.wire.open \cup new
      /\ w.whole = L.wire.whole
      /\ w.visible <=> L.wire.visible \/ type = "tool_use"
      /\ L.wire.begun /\ ~L.wire.ended /\ ~L.wire.bad /\ new \cap L.wire.seen = {} => ~w.bad
  BY <1>1, <1>7 DEF Receives, Wire
<1> HIDE DEF K, w, M
<1>10. /\ M \in Ledger /\ M.blocks = x /\ M.text = L.text /\ M.thinking = L.thinking
       /\ M.shown = L.shown /\ M.tools = L.tools
       /\ M.wire = IF new = {} THEN L.wire ELSE w
  <2>1. CASE new = {}
    BY <2>1, <1>4, <1>8
  <2>2. CASE new # {}
    <3>1. LET N == [K EXCEPT !.wire = w]
          IN  /\ N \in Ledger /\ N.blocks = K.blocks /\ N.text = K.text
              /\ N.thinking = K.thinking /\ N.shown = K.shown /\ N.tools = K.tools
              /\ N.wire = w
      BY <1>8, <1>9, WithWire
    <3> QED BY <3>1, <2>2, <1>3, <1>8
  <2> QED BY <2>1, <2>2
<1>11. /\ M.wire.begun /\ ~M.wire.ended /\ ~M.wire.bad
       /\ M.wire.seen = L.wire.seen \cup new /\ M.wire.open = L.wire.open \cup new
       /\ M.wire.whole = L.wire.whole
       /\ M.wire.visible <=> L.wire.visible \/ (new # {} /\ type = "tool_use")
  <2>1. CASE new = {}
    BY <2>1, <1>10 DEF Wired
  <2>2. CASE new # {}
    <3>1. new \cap L.wire.seen = {}
      BY <1>7 DEF Wired
    <3> QED BY <3>1, <2>2, <1>9, <1>10 DEF Wired
  <2> QED BY <2>1, <2>2
<1>12. /\ Opened(M) = Opened(L) \cup new
       /\ HasTool(M) <=> HasTool(L) \/ (new # {} /\ type = "tool_use")
  BY <1>2, <1>6, <1>7, <1>10 DEF Opened, HasTool
<1>13. Wired(M) /\ Shows(L, M)
  BY <1>7, <1>10, <1>11, <1>12 DEF Wired, Shows, NeedsVisible
<1>14. \A i \in new : M.blocks[i].type = type /\ M.blocks[i].args = <<>>
  BY <1>2, <1>6, <1>10
<1> QED BY <1>6, <1>7, <1>10, <1>11, <1>12, <1>13, <1>14 DEF M, new, Gains

\* A delta adds its arguments to blocks that are open.
LEMMA Delta ==
    ASSUME NEW L, Wired(L), NEW blocks \in SUBSET Opened(L), NEW what,
           NEW args \in Seq(Nat)
    PROVE  Adds(L, DeltaBlocks(L, blocks, what, args), blocks, what, args)
<1> DEFINE x == [i \in DOMAIN L.blocks |->
                    IF i \in blocks THEN [L.blocks[i] EXCEPT !.args = @ \o args]
                    ELSE L.blocks[i]]
           K == [L EXCEPT !.blocks = x]
           w == Receives(L.wire, "delta", blocks, what, args)
           M == DeltaBlocks(L, blocks, what, args)
<1>1. /\ L \in Ledger /\ L.wire \in Wire
      /\ Opened(L) \subseteq DOMAIN L.blocks /\ \A i \in Opened(L) : L.blocks[i].open
      /\ blocks \subseteq Nat /\ blocks \subseteq DOMAIN L.blocks
  BY Lengths DEF Wired, Ledger, Opened
<1>2. blocks # {} => M = [K EXCEPT !.wire = w]
  <2>1. K.wire = L.wire
    BY <1>1 DEF Ledger
  <2>2. M = Emit(K, "delta", blocks, what, args)
    BY DEF DeltaBlocks
  <2> HIDE DEF K, M
  <2> QED BY <2>1, <2>2 DEF Emit
<1>3. blocks = {} => M = K
  BY DEF DeltaBlocks, Emit
<1>4. \A i \in DOMAIN L.blocks :
         /\ x[i] \in Block
         /\ x[i].type = L.blocks[i].type
         /\ x[i].args = IF i \in blocks THEN L.blocks[i].args \o args
                                           ELSE L.blocks[i].args
         /\ x[i].open <=> L.blocks[i].open
  <2> TAKE i \in DOMAIN L.blocks
  <2> DEFINE b == L.blocks[i]
  <2>1. b \in Block
    BY <1>1, Lengths
  <2>2. x[i] = IF i \in blocks THEN [b EXCEPT !.args = @ \o args] ELSE b
    OBVIOUS
  <2> HIDE DEF b
  <2>3. [b EXCEPT !.args = @ \o args] \in Block
    BY <2>1, AppendsArgs DEF Block
  <2>4. x[i] \in Block /\ x[i].type = b.type
    BY <2>1, <2>2, <2>3 DEF Block
  <2>5. x[i].args = IF i \in blocks THEN b.args \o args
                                           ELSE b.args
    BY <2>1, <2>2 DEF Block
  <2>6. x[i].open <=> b.open
    BY <2>1, <2>2 DEF Block
  <2> QED BY <2>4, <2>5, <2>6 DEF b
<1>5. DOMAIN x = DOMAIN L.blocks
  OBVIOUS
<1> HIDE DEF x
<1>6. x \in Seq(Block)
  <2>1. DOMAIN x = 1..Len(L.blocks) /\ x = [i \in DOMAIN x |-> x[i]]
    BY <1>1, <1>5, Lengths DEF x
  <2>2. Len(L.blocks) \in Nat /\ \A i \in DOMAIN x : x[i] \in Block
    BY <1>1, <1>4, <1>5, Lengths
  <2> QED BY <2>1, <2>2
<1>7. /\ K \in Ledger /\ K.blocks = x /\ K.text = L.text /\ K.thinking = L.thinking
      /\ K.shown = L.shown /\ K.tools = L.tools /\ K.wire = L.wire
  BY <1>1, <1>6, WithBlocks
<1>8. /\ w \in Wire /\ w.begun /\ ~w.ended
      /\ w.seen = L.wire.seen /\ w.open = L.wire.open
      /\ (args = Whole => w.whole = L.wire.whole \cup blocks)
               /\ (args # Whole => w.whole = L.wire.whole)
      /\ L.wire.visible => w.visible
      /\ what = "some" => w.visible
      /\ L.wire.begun /\ ~L.wire.ended /\ ~L.wire.bad /\ blocks \subseteq L.wire.open => ~w.bad
  <2> DEFINE c == L.wire
             d == Receives(c, "delta", blocks, what, args)
  <2>1. c \in Wire /\ blocks \in SUBSET Nat
    BY <1>1
  <2> HIDE DEF c, w, K, M
  <2>2. /\ d \in Wire /\ d.begun /\ ~d.ended
        /\ d.seen = c.seen /\ d.open = c.open
        /\ (args = Whole => d.whole = c.whole \cup blocks)
               /\ (args # Whole => d.whole = c.whole)
        /\ d.visible <=> c.visible \/ what = "some"
        /\ c.begun /\ ~c.ended /\ ~c.bad /\ blocks \subseteq c.open => ~d.bad
    BY <2>1 DEF Receives, Wire
  <2> QED BY <2>2 DEF c, w
<1> HIDE DEF K, w, M
<1>9. /\ M \in Ledger /\ M.blocks = x /\ M.text = L.text /\ M.thinking = L.thinking
      /\ M.shown = L.shown /\ M.tools = L.tools
      /\ M.wire = IF blocks = {} THEN L.wire ELSE w
  <2>1. CASE blocks = {}
    BY <2>1, <1>3, <1>7
  <2>2. CASE blocks # {}
    <3>1. LET N == [K EXCEPT !.wire = w]
          IN  /\ N \in Ledger /\ N.blocks = K.blocks /\ N.text = K.text
              /\ N.thinking = K.thinking /\ N.shown = K.shown /\ N.tools = K.tools
              /\ N.wire = w
      BY <1>7, <1>8, WithWire
    <3> QED BY <3>1, <2>2, <1>2, <1>7
  <2> QED BY <2>1, <2>2
<1>10. /\ M.wire.begun /\ ~M.wire.ended /\ ~M.wire.bad
       /\ M.wire.seen = L.wire.seen /\ M.wire.open = L.wire.open
       /\ (args = Whole => M.wire.whole = L.wire.whole \cup blocks)
               /\ (args # Whole => M.wire.whole = L.wire.whole)
       /\ L.wire.visible => M.wire.visible
       /\ blocks # {} /\ what = "some" => M.wire.visible
  <2>1. CASE blocks = {}
    BY <2>1, <1>9 DEF Wired
  <2>2. CASE blocks # {}
    BY <2>2, <1>8, <1>9 DEF Wired
  <2> QED BY <2>1, <2>2
<1>11. Opened(M) = Opened(L) /\ (HasTool(M) <=> HasTool(L))
  BY <1>1, <1>4, <1>5, <1>9 DEF Opened, HasTool
<1>12. Wired(M) /\ Shows(L, M)
  BY <1>5, <1>9, <1>10, <1>11 DEF Wired, Shows, NeedsVisible
<1>13. /\ M.wire.whole = WholeWith(L, blocks, args)
       /\ \A i \in DOMAIN L.blocks : M.blocks[i].args = ArgsWith(L, blocks, args, i)
  BY <1>4, <1>9, <1>10 DEF ArgsWith, WholeWith
<1>14. Len(M.blocks) = Len(L.blocks)
  BY <1>1, <1>5, <1>9, Lengths
<1> QED BY <1>4, <1>9, <1>10, <1>11, <1>12, <1>13, <1>14 DEF M, Adds

\* Blocks that are open are stopped.
LEMMA Stopping ==
    ASSUME NEW L, Wired(L), NEW blocks \in SUBSET Opened(L)
    PROVE  LET M == StopBlocks(L, blocks)
           IN  /\ Wired(M)
               /\ DOMAIN M.blocks = DOMAIN L.blocks /\ Opened(M) = Opened(L) \ blocks
               /\ \A i \in DOMAIN L.blocks :
                     /\ M.blocks[i].type = L.blocks[i].type
                     /\ M.blocks[i].args = L.blocks[i].args
               /\ M.tools = L.tools /\ M.text = L.text /\ M.thinking = L.thinking
               /\ M.shown = L.shown
               /\ M.wire.whole = L.wire.whole
               /\ Shows(L, M)
<1> DEFINE x == [i \in DOMAIN L.blocks |->
                    IF i \in blocks THEN [L.blocks[i] EXCEPT !.open = FALSE]
                    ELSE L.blocks[i]]
           K == [L EXCEPT !.blocks = x]
           w == Receives(L.wire, "stop", blocks, "", <<>>)
           M == StopBlocks(L, blocks)
<1>1. /\ L \in Ledger /\ L.wire \in Wire
      /\ Opened(L) \subseteq DOMAIN L.blocks /\ \A i \in Opened(L) : L.blocks[i].open
      /\ blocks \subseteq Nat /\ blocks \subseteq DOMAIN L.blocks
  BY Lengths DEF Wired, Ledger, Opened
<1>2. blocks # {} => M = [K EXCEPT !.wire = w]
  <2>1. K.wire = L.wire
    BY <1>1 DEF Ledger
  <2>2. M = Emit(K, "stop", blocks, "", <<>>)
    BY DEF StopBlocks
  <2> HIDE DEF K, M
  <2> QED BY <2>1, <2>2 DEF Emit
<1>3. blocks = {} => M = K
  BY DEF StopBlocks, Emit
<1>4. \A i \in DOMAIN L.blocks :
         /\ x[i] \in Block
         /\ x[i].type = L.blocks[i].type
         /\ x[i].args = L.blocks[i].args
         /\ x[i].open <=> L.blocks[i].open /\ i \notin blocks
  <2> TAKE i \in DOMAIN L.blocks
  <2> DEFINE b == L.blocks[i]
  <2>1. b \in Block
    BY <1>1, Lengths
  <2>2. x[i] = IF i \in blocks THEN [b EXCEPT !.open = FALSE] ELSE b
    OBVIOUS
  <2> HIDE DEF b
  <2>3. [b EXCEPT !.open = FALSE] \in Block
    BY <2>1 DEF Block
  <2>4. x[i] \in Block /\ x[i].type = b.type
    BY <2>1, <2>2, <2>3 DEF Block
  <2>5. x[i].args = b.args
    BY <2>1, <2>2 DEF Block
  <2>6. x[i].open <=> b.open /\ i \notin blocks
    BY <2>1, <2>2 DEF Block
  <2> QED BY <2>4, <2>5, <2>6 DEF b
<1>5. DOMAIN x = DOMAIN L.blocks
  OBVIOUS
<1> HIDE DEF x
<1>6. x \in Seq(Block)
  <2>1. DOMAIN x = 1..Len(L.blocks) /\ x = [i \in DOMAIN x |-> x[i]]
    BY <1>1, <1>5, Lengths DEF x
  <2>2. Len(L.blocks) \in Nat /\ \A i \in DOMAIN x : x[i] \in Block
    BY <1>1, <1>4, <1>5, Lengths
  <2> QED BY <2>1, <2>2
<1>7. /\ K \in Ledger /\ K.blocks = x /\ K.text = L.text /\ K.thinking = L.thinking
      /\ K.shown = L.shown /\ K.tools = L.tools /\ K.wire = L.wire
  BY <1>1, <1>6, WithBlocks
<1>8. /\ w \in Wire /\ w.begun /\ ~w.ended
      /\ w.seen = L.wire.seen /\ w.open = L.wire.open \ blocks
      /\ w.whole = L.wire.whole
      /\ L.wire.visible => w.visible
      /\ L.wire.begun /\ ~L.wire.ended /\ ~L.wire.bad /\ blocks \subseteq L.wire.open => ~w.bad
  <2> DEFINE c == L.wire
             d == Receives(c, "stop", blocks, "", <<>>)
  <2>1. c \in Wire /\ blocks \in SUBSET Nat
    BY <1>1
  <2> HIDE DEF c, w, K, M
  <2>2. /\ d \in Wire /\ d.begun /\ ~d.ended
        /\ d.seen = c.seen /\ d.open = c.open \ blocks
        /\ d.whole = c.whole
        /\ d.visible = c.visible
        /\ c.begun /\ ~c.ended /\ ~c.bad /\ blocks \subseteq c.open => ~d.bad
    BY <2>1 DEF Receives, Wire
  <2> QED BY <2>2 DEF c, w
<1> HIDE DEF K, w, M
<1>9. /\ M \in Ledger /\ M.blocks = x /\ M.text = L.text /\ M.thinking = L.thinking
      /\ M.shown = L.shown /\ M.tools = L.tools
      /\ M.wire = IF blocks = {} THEN L.wire ELSE w
  <2>1. CASE blocks = {}
    BY <2>1, <1>3, <1>7
  <2>2. CASE blocks # {}
    <3>1. LET N == [K EXCEPT !.wire = w]
          IN  /\ N \in Ledger /\ N.blocks = K.blocks /\ N.text = K.text
              /\ N.thinking = K.thinking /\ N.shown = K.shown /\ N.tools = K.tools
              /\ N.wire = w
      BY <1>7, <1>8, WithWire
    <3> QED BY <3>1, <2>2, <1>2, <1>7
  <2> QED BY <2>1, <2>2
<1>10. /\ M.wire.begun /\ ~M.wire.ended /\ ~M.wire.bad
       /\ M.wire.seen = L.wire.seen /\ M.wire.open = L.wire.open \ blocks
       /\ M.wire.whole = L.wire.whole
       /\ L.wire.visible => M.wire.visible
  <2>1. CASE blocks = {}
    BY <2>1, <1>9 DEF Wired
  <2>2. CASE blocks # {}
    BY <2>2, <1>8, <1>9 DEF Wired
  <2> QED BY <2>1, <2>2
<1>11. Opened(M) = Opened(L) \ blocks /\ (HasTool(M) <=> HasTool(L))
  BY <1>1, <1>4, <1>5, <1>9 DEF Opened, HasTool
<1>12. Wired(M) /\ Shows(L, M)
  BY <1>5, <1>9, <1>10, <1>11 DEF Wired, Shows, NeedsVisible
<1> QED BY <1>4, <1>5, <1>9, <1>10, <1>11, <1>12 DEF M

\* What is said in text and thinking leaves the tools as they were.
Content(L, M) ==
    /\ Wired(M) /\ Owned(M)
    /\ Faithful(L) => Faithful(M)
    /\ M.tools = L.tools
    /\ Shows(L, M)

\* Arguments that are as they were are what the client has.
LEMMA Still ==
    ASSUME NEW L, NEW M, Wired(L), Wired(M), Owned(L), Faithful(L), M.tools = L.tools,
           DOMAIN L.blocks \subseteq DOMAIN M.blocks,
           \A i \in DOMAIN L.blocks : M.blocks[i].args = L.blocks[i].args,
           \A i \in DOMAIN M.blocks \ DOMAIN L.blocks : M.blocks[i].args = <<>>,
           M.wire.whole = L.wire.whole
    PROVE  Faithful(M)
<1>1. <<>> # Whole
  BY DEF Whole
<1>2. \A i \in DOMAIN M.blocks : M.blocks[i].args \in {<<>>, Whole}
  BY DEF Faithful
<1>3. M.wire.whole = {i \in DOMAIN M.blocks : M.blocks[i].args = Whole}
  BY <1>1 DEF Faithful
<1>4. \A t \in Started(L) : L.tools[t].block \in DOMAIN L.blocks
  BY DEF Owned, Opened
<1>5. \A t \in Tools :
         L.tools[t].emitted <=> t \in Started(L) /\ M.blocks[L.tools[t].block].args = Whole
  BY <1>4 DEF Faithful
<1> QED BY <1>2, <1>3, <1>5 DEF Faithful, Started

\* The fields of a ledger that is wired.
LEMMA Fields ==
    ASSUME NEW L, Wired(L)
    PROVE  /\ L \in Ledger /\ L.text \in Nat /\ L.thinking \in Nat
           /\ Opened(L) \subseteq DOMAIN L.blocks
           /\ DOMAIN L.blocks = 1..Len(L.blocks) /\ Len(L.blocks) \in Nat
           /\ L.tools \in [Tools -> Tool] /\ L.wire \in Wire
  BY Lengths DEF Wired, Ledger, Opened

\* A field that no event is about.
LEMMA Fielded ==
    ASSUME NEW L, Wired(L), NEW M, M \in Ledger, M.blocks = L.blocks, M.wire = L.wire,
           M.shown = L.shown
    PROVE  Wired(M) /\ Shows(L, M) /\ Opened(M) = Opened(L)
  BY DEF Wired, Opened, NeedsVisible, HasTool, Shows

\* The open block of thinking is closed, and its index forgotten.
LEMMA ClosesThinking ==
    ASSUME NEW L, Wired(L), Owned(L)
    PROVE  LET M == CloseThinking(L)
           IN  Content(L, M) /\ M.thinking = 0 /\ M.text = L.text
<1> DEFINE N == StopBlocks(L, {L.thinking})
           M == [N EXCEPT !.thinking = 0]
<1>1. CASE L.thinking = 0
  BY <1>1 DEF CloseThinking, Content, Shows
<1>2. CASE L.thinking # 0
  <2>1. {L.thinking} \in SUBSET Opened(L)
    BY <1>2 DEF Owned
  <2>2. /\ Wired(N)
        /\ DOMAIN N.blocks = DOMAIN L.blocks /\ Opened(N) = Opened(L) \ {L.thinking}
        /\ \A i \in DOMAIN L.blocks : /\ N.blocks[i].type = L.blocks[i].type
                                      /\ N.blocks[i].args = L.blocks[i].args
        /\ N.tools = L.tools /\ N.text = L.text /\ N.thinking = L.thinking
        /\ N.shown = L.shown
        /\ N.wire.whole = L.wire.whole
        /\ Shows(L, N)
    BY <2>1, Stopping
  <2>3. CloseThinking(L) = M
    BY <1>2 DEF CloseThinking
  <2> HIDE DEF N
  <2>4. M \in Ledger /\ M.blocks = N.blocks /\ M.text = N.text /\ M.thinking = 0
        /\ M.shown = N.shown /\ M.tools = N.tools /\ M.wire = N.wire
    BY <2>2, Fields, WithThinking
  <2> HIDE DEF M
  <2>5. Wired(M) /\ Shows(N, M) /\ Opened(M) = Opened(N)
    BY <2>2, <2>4, Fielded
  <2>6. Started(M) = Started(L) /\ BlocksOf(M, Started(M)) = BlocksOf(L, Started(L))
    BY <2>2, <2>4 DEF Started, BlocksOf
  <2>7. Opened(L) \subseteq DOMAIN L.blocks
    BY Fields
  <2>8. Owned(M)
    <3>1. M.text # 0 => M.text \in Opened(M) /\ M.blocks[M.text].type = "text"
      BY <1>2, <2>2, <2>4, <2>5, <2>7 DEF Owned
    <3>2. \A t \in Started(M) : /\ M.tools[t].block \in Opened(M)
                                /\ M.blocks[M.tools[t].block].type = "tool_use"
      BY <1>2, <2>2, <2>4, <2>5, <2>6, <2>7 DEF Owned
    <3>3. Opened(M) \subseteq {M.text, M.thinking} \cup BlocksOf(M, Started(M))
      BY <2>2, <2>4, <2>5, <2>6 DEF Owned
    <3> QED BY <3>1, <3>2, <3>3, <2>2, <2>4, <2>6 DEF Owned
  <2>9. Faithful(L) => Faithful(M)
    BY <2>2, <2>4, <2>5, Still
  <2> QED BY <2>2, <2>3, <2>4, <2>5, <2>8, <2>9 DEF Content, Shows
<1> QED BY <1>1, <1>2

\* The open block of text is closed, and its index forgotten.
LEMMA ClosesText ==
    ASSUME NEW L, Wired(L), Owned(L)
    PROVE  LET M == CloseText(L)
           IN  Content(L, M) /\ M.text = 0 /\ M.thinking = L.thinking
<1> DEFINE N == StopBlocks(L, {L.text})
           M == [N EXCEPT !.text = 0]
<1>1. CASE L.text = 0
  BY <1>1 DEF CloseText, Content, Shows
<1>2. CASE L.text # 0
  <2>1. {L.text} \in SUBSET Opened(L)
    BY <1>2 DEF Owned
  <2>2. /\ Wired(N)
        /\ DOMAIN N.blocks = DOMAIN L.blocks /\ Opened(N) = Opened(L) \ {L.text}
        /\ \A i \in DOMAIN L.blocks : /\ N.blocks[i].type = L.blocks[i].type
                                      /\ N.blocks[i].args = L.blocks[i].args
        /\ N.tools = L.tools /\ N.thinking = L.thinking /\ N.text = L.text
        /\ N.shown = L.shown
        /\ N.wire.whole = L.wire.whole
        /\ Shows(L, N)
    BY <2>1, Stopping
  <2>3. CloseText(L) = M
    BY <1>2 DEF CloseText
  <2> HIDE DEF N
  <2>4. M \in Ledger /\ M.blocks = N.blocks /\ M.thinking = N.thinking /\ M.text = 0
        /\ M.shown = N.shown /\ M.tools = N.tools /\ M.wire = N.wire
    BY <2>2, Fields, WithText
  <2> HIDE DEF M
  <2>5. Wired(M) /\ Shows(N, M) /\ Opened(M) = Opened(N)
    BY <2>2, <2>4, Fielded
  <2>6. Started(M) = Started(L) /\ BlocksOf(M, Started(M)) = BlocksOf(L, Started(L))
    BY <2>2, <2>4 DEF Started, BlocksOf
  <2>7. Opened(L) \subseteq DOMAIN L.blocks
    BY Fields
  <2>8. Owned(M)
    <3>1. M.thinking # 0 => M.thinking \in Opened(M) /\ M.blocks[M.thinking].type = "thinking"
      BY <1>2, <2>2, <2>4, <2>5, <2>7 DEF Owned
    <3>2. \A t \in Started(M) : /\ M.tools[t].block \in Opened(M)
                                /\ M.blocks[M.tools[t].block].type = "tool_use"
      BY <1>2, <2>2, <2>4, <2>5, <2>6, <2>7 DEF Owned
    <3>3. Opened(M) \subseteq {M.thinking, M.text} \cup BlocksOf(M, Started(M))
      BY <2>2, <2>4, <2>5, <2>6 DEF Owned
    <3> QED BY <3>1, <3>2, <3>3, <2>2, <2>4, <2>6 DEF Owned
  <2>9. Faithful(L) => Faithful(M)
    BY <2>2, <2>4, <2>5, Still
  <2> QED BY <2>2, <2>3, <2>4, <2>5, <2>8, <2>9 DEF Content, Shows
<1> QED BY <1>1, <1>2

\* After close_content_blocks neither is open.
LEMMA ClosesContent ==
    ASSUME NEW L, Wired(L), Owned(L)
    PROVE  LET M == CloseContent(L)
           IN  Content(L, M) /\ M.thinking = 0 /\ M.text = 0
<1> DEFINE N == CloseThinking(L)
<1>1. Content(L, N) /\ N.thinking = 0
  BY ClosesThinking
<1> HIDE DEF N
<1>2. LET M == CloseText(N) IN Content(N, M) /\ M.text = 0 /\ M.thinking = N.thinking
  BY <1>1, ClosesText DEF Content
<1> QED BY <1>1, <1>2 DEF CloseContent, N, Content, Shows

\* One new block is the last of the ledger.
LEMMA StartingOne ==
    ASSUME NEW L, Wired(L), NEW type \in BlockTypes
    PROVE  LET M == StartBlocks(L, 1, type)
               i == Len(L.blocks) + 1
           IN  /\ Wired(M)
               /\ Len(M.blocks) = i
               /\ DOMAIN M.blocks = DOMAIN L.blocks \cup {i} /\ i \notin DOMAIN L.blocks
               /\ Opened(M) = Opened(L) \cup {i}
               /\ \A j \in DOMAIN L.blocks : M.blocks[j] = L.blocks[j]
               /\ M.blocks[i].type = type /\ M.blocks[i].args = <<>>
               /\ M.tools = L.tools /\ M.text = L.text /\ M.thinking = L.thinking
               /\ M.shown = L.shown
               /\ M.wire.whole = L.wire.whole
               /\ Shows(L, M)
<1> DEFINE M == StartBlocks(L, 1, type)
           i == Len(L.blocks) + 1
           new == Len(L.blocks) + 1 .. Len(L.blocks) + 1
<1>1. Len(L.blocks) \in Nat /\ DOMAIN L.blocks = 1..Len(L.blocks)
  BY Fields
<1>2. new = {i} /\ i \notin DOMAIN L.blocks /\ 1 \in Nat
  BY <1>1
<1>3. /\ Wired(M)
      /\ DOMAIN M.blocks = DOMAIN L.blocks \cup new
      /\ Opened(M) = Opened(L) \cup new
      /\ \A j \in DOMAIN L.blocks : M.blocks[j] = L.blocks[j]
      /\ \A j \in new : M.blocks[j].type = type /\ M.blocks[j].args = <<>>
      /\ M.tools = L.tools /\ M.text = L.text /\ M.thinking = L.thinking
      /\ M.shown = L.shown
      /\ M.wire.whole = L.wire.whole
      /\ Shows(L, M)
  <2>1. Gains(L, M, new, type)
    BY <1>2, Starting
  <2> HIDE DEF M, new
  <2> QED BY <2>1 DEF Gains
<1> HIDE DEF M, new
<1>4. M.blocks[i].type = type /\ M.blocks[i].args = <<>>
  BY <1>2, <1>3
<1>5. Len(M.blocks) = i
  <2>1. DOMAIN M.blocks = 1..Len(M.blocks) /\ Len(M.blocks) \in Nat
    BY <1>3, Fields
  <2>2. i \in 1..Len(M.blocks)
    BY <1>2, <1>3, <2>1
  <2>3. Len(M.blocks) \in 1..Len(L.blocks) \cup {i}
    BY <1>1, <1>2, <1>3, <2>1, <2>2
  <2> QED BY <1>1, <2>1, <2>2, <2>3
<1> HIDE DEF i
<1> QED BY <1>2, <1>3, <1>4, <1>5 DEF M, i

\* Nothing that is added, and to nothing.
LEMMA AppendsNothing ==
    ASSUME NEW a \in Seq(Nat)
    PROVE  a \o <<>> = a
  OBVIOUS

\* ensure_thinking_block: text is closed, and one block of thinking is open.
LEMMA EnsuresThinking ==
    ASSUME NEW L, Wired(L), Owned(L)
    PROVE  LET M == EnsureThinking(L)
           IN  Content(L, M) /\ M.thinking \in Opened(M)
<1> DEFINE M == CloseText(L)
           new == {Len(M.blocks) + 1}
           N == StartBlocks(M, 1, "thinking")
           P == [N EXCEPT !.thinking = Len(M.blocks) + 1]
<1>1. Content(L, M) /\ M.text = 0
  BY ClosesText
<1> HIDE DEF M
<1>2. CASE M.thinking # 0
  <2>1. EnsureThinking(L) = M
    BY <1>2 DEF EnsureThinking, M
  <2>2. M.thinking \in Opened(M)
    BY <1>1, <1>2 DEF Content, Owned
  <2> QED BY <2>1, <2>2, <1>1
<1>3. CASE M.thinking = 0
  <2>1. EnsureThinking(L) = P
    BY <1>3 DEF EnsureThinking, M
  <2>2. /\ Wired(N) /\ DOMAIN N.blocks = DOMAIN M.blocks \cup new
        /\ Opened(N) = Opened(M) \cup new
        /\ \A i \in DOMAIN M.blocks : N.blocks[i] = M.blocks[i]
        /\ \A i \in new : N.blocks[i].type = "thinking" /\ N.blocks[i].args = <<>>
        /\ N.tools = M.tools /\ N.text = M.text /\ N.shown = M.shown
        /\ N.wire.whole = M.wire.whole /\ Shows(M, N)
    <3>1. Wired(M)
      BY <1>1 DEF Content
    <3>2. "thinking" \in BlockTypes
      BY DEF BlockTypes
    <3> QED BY <3>1, <3>2, StartingOne
  <2>3. Len(M.blocks) + 1 \in Nat /\ Opened(M) \subseteq DOMAIN M.blocks
    BY <1>1, Fields DEF Content
  <2> HIDE DEF N
  <2>4. P \in Ledger /\ P.blocks = N.blocks /\ P.text = N.text /\ P.thinking = Len(M.blocks) + 1
        /\ P.shown = N.shown /\ P.tools = N.tools /\ P.wire = N.wire
    BY <2>2, <2>3, Fields, WithThinking
  <2> HIDE DEF P
  <2>5. Wired(P) /\ Shows(N, P) /\ Opened(P) = Opened(N)
    BY <2>2, <2>4, Fielded
  <2>6. Started(P) = Started(M) /\ BlocksOf(P, Started(P)) = BlocksOf(M, Started(M))
    BY <2>2, <2>4 DEF Started, BlocksOf
  <2>7. Owned(P)
    <3>0. Owned(M)
      BY <1>1 DEF Content
    <3>1. P.thinking \in Opened(P) /\ P.blocks[P.thinking].type = "thinking" /\ P.text = 0
      BY <1>1, <2>2, <2>4, <2>5
    <3>2. \A t \in Started(P) : /\ P.tools[t].block \in Opened(P)
                                /\ P.blocks[P.tools[t].block].type = "tool_use"
      BY <3>0, <2>2, <2>3, <2>4, <2>5, <2>6 DEF Owned
    <3>3. Opened(P) \subseteq {P.text, P.thinking} \cup BlocksOf(P, Started(P))
      BY <3>0, <1>1, <1>3, <2>2, <2>4, <2>5, <2>6 DEF Owned
    <3> QED BY <3>0, <3>1, <3>2, <3>3, <2>2, <2>4, <2>6 DEF Owned
  <2>8. Faithful(M) => Faithful(P)
    BY <1>1, <2>2, <2>4, <2>5, Still DEF Content
  <2>9. M.tools = P.tools /\ Shows(M, P) /\ P.thinking \in Opened(P)
    BY <2>2, <2>4, <2>5 DEF Shows
  <2> QED BY <1>1, <2>1, <2>5, <2>7, <2>8, <2>9 DEF Content, Shows
<1> QED BY <1>2, <1>3

\* ensure_text_block: thinking is closed, and one block of text is open.
LEMMA EnsuresText ==
    ASSUME NEW L, Wired(L), Owned(L)
    PROVE  LET M == EnsureText(L)
           IN  Content(L, M) /\ M.text \in Opened(M)
<1> DEFINE M == CloseThinking(L)
           new == {Len(M.blocks) + 1}
           N == StartBlocks(M, 1, "text")
           P == [N EXCEPT !.text = Len(M.blocks) + 1]
<1>1. Content(L, M) /\ M.thinking = 0
  BY ClosesThinking
<1> HIDE DEF M
<1>2. CASE M.text # 0
  <2>1. EnsureText(L) = M
    BY <1>2 DEF EnsureText, M
  <2>2. M.text \in Opened(M)
    BY <1>1, <1>2 DEF Content, Owned
  <2> QED BY <2>1, <2>2, <1>1
<1>3. CASE M.text = 0
  <2>1. EnsureText(L) = P
    BY <1>3 DEF EnsureText, M
  <2>2. /\ Wired(N) /\ DOMAIN N.blocks = DOMAIN M.blocks \cup new
        /\ Opened(N) = Opened(M) \cup new
        /\ \A i \in DOMAIN M.blocks : N.blocks[i] = M.blocks[i]
        /\ \A i \in new : N.blocks[i].type = "text" /\ N.blocks[i].args = <<>>
        /\ N.tools = M.tools /\ N.thinking = M.thinking /\ N.shown = M.shown
        /\ N.wire.whole = M.wire.whole /\ Shows(M, N)
    <3>1. Wired(M)
      BY <1>1 DEF Content
    <3>2. "text" \in BlockTypes
      BY DEF BlockTypes
    <3> QED BY <3>1, <3>2, StartingOne
  <2>3. Len(M.blocks) + 1 \in Nat /\ Opened(M) \subseteq DOMAIN M.blocks
    BY <1>1, Fields DEF Content
  <2> HIDE DEF N
  <2>4. P \in Ledger /\ P.blocks = N.blocks /\ P.thinking = N.thinking /\ P.text = Len(M.blocks) + 1
        /\ P.shown = N.shown /\ P.tools = N.tools /\ P.wire = N.wire
    BY <2>2, <2>3, Fields, WithText
  <2> HIDE DEF P
  <2>5. Wired(P) /\ Shows(N, P) /\ Opened(P) = Opened(N)
    BY <2>2, <2>4, Fielded
  <2>6. Started(P) = Started(M) /\ BlocksOf(P, Started(P)) = BlocksOf(M, Started(M))
    BY <2>2, <2>4 DEF Started, BlocksOf
  <2>7. Owned(P)
    <3>0. Owned(M)
      BY <1>1 DEF Content
    <3>1. P.text \in Opened(P) /\ P.blocks[P.text].type = "text" /\ P.thinking = 0
      BY <1>1, <2>2, <2>4, <2>5
    <3>2. \A t \in Started(P) : /\ P.tools[t].block \in Opened(P)
                                /\ P.blocks[P.tools[t].block].type = "tool_use"
      BY <3>0, <2>2, <2>3, <2>4, <2>5, <2>6 DEF Owned
    <3>3. Opened(P) \subseteq {P.text, P.thinking} \cup BlocksOf(P, Started(P))
      BY <3>0, <1>1, <1>3, <2>2, <2>4, <2>5, <2>6 DEF Owned
    <3> QED BY <3>0, <3>1, <3>2, <3>3, <2>2, <2>4, <2>6 DEF Owned
  <2>8. Faithful(M) => Faithful(P)
    BY <1>1, <2>2, <2>4, <2>5, Still DEF Content
  <2>9. M.tools = P.tools /\ Shows(M, P) /\ P.text \in Opened(P)
    BY <2>2, <2>4, <2>5 DEF Shows
  <2> QED BY <1>1, <2>1, <2>5, <2>7, <2>8, <2>9 DEF Content, Shows
<1> QED BY <1>2, <1>3

\* Thinking that has been sent.
LEMMA EmitsThinking ==
    ASSUME NEW L, Wired(L), Owned(L)
    PROVE  LET M == EmitThinking(L)
           IN  Content(L, M)
<1> DEFINE M == EnsureThinking(L)
           N == DeltaBlocks(M, {M.thinking}, "", <<>>)
           P == [N EXCEPT !.thought = TRUE]
<1>1. EmitThinking(L) = P
  BY DEF EmitThinking
<1>2. Content(L, M) /\ {M.thinking} \in SUBSET Opened(M)
  BY EnsuresThinking
<1> HIDE DEF M
<1>3. /\ Wired(N) /\ DOMAIN N.blocks = DOMAIN M.blocks /\ Opened(N) = Opened(M)
      /\ \A i \in DOMAIN M.blocks : /\ N.blocks[i].type = M.blocks[i].type
                                    /\ N.blocks[i].args = M.blocks[i].args
      /\ N.tools = M.tools /\ N.text = M.text /\ N.thinking = M.thinking
      /\ N.shown = M.shown /\ N.wire.whole = M.wire.whole /\ Shows(M, N)
      
  <2>1. Wired(M) /\ M \in Ledger /\ <<>> \in Seq(Nat)
    BY <1>2, Fields DEF Content
  <2>2. <<>> # Whole
    BY DEF Whole
  <2>3. \A i \in DOMAIN M.blocks : M.blocks[i].args \o <<>> = M.blocks[i].args
    BY <2>1, Lengths, AppendsNothing
  <2> DEFINE nothing == <<>>
  <2>4. /\ nothing \in Seq(Nat) /\ N = DeltaBlocks(M, {M.thinking}, "", nothing)
        /\ WholeWith(M, {M.thinking}, nothing) = M.wire.whole
        /\ \A i \in DOMAIN M.blocks : ArgsWith(M, {M.thinking}, nothing, i) = M.blocks[i].args
    BY <2>1, <2>2, <2>3 DEF ArgsWith, WholeWith
  <2> HIDE DEF N, nothing
  <2>5. Adds(M, N, {M.thinking}, "", nothing)
    BY <1>2, <2>1, <2>4, Delta
  <2>6. Wired(N) /\ Len(N.blocks) = Len(M.blocks)
    BY <2>5 DEF Adds
  <2>7. DOMAIN N.blocks = DOMAIN M.blocks
    BY <2>1, <2>6, Fields
  <2> QED BY <2>4, <2>5, <2>7 DEF Adds
<1> HIDE DEF N
<1>4. P \in Ledger /\ P.blocks = N.blocks /\ P.text = N.text /\ P.thinking = N.thinking
      /\ P.shown = N.shown /\ P.tools = N.tools /\ P.wire = N.wire
  BY <1>3, Fields, WithThought
<1> HIDE DEF P
<1>5. Wired(P) /\ Shows(N, P) /\ Opened(P) = Opened(N)
  BY <1>3, <1>4, Fielded
<1>6. Started(P) = Started(M) /\ BlocksOf(P, Started(P)) = BlocksOf(M, Started(M))
  BY <1>3, <1>4 DEF Started, BlocksOf
<1>7. Owned(P)
  <2>1. Opened(M) \subseteq DOMAIN M.blocks /\ Owned(M)
    BY <1>2, Fields DEF Content
  <2> QED BY <2>1, <1>3, <1>4, <1>5, <1>6 DEF Owned
<1>8. Faithful(M) => Faithful(P)
  BY <1>2, <1>3, <1>4, <1>5, Still DEF Content
<1>9. M.tools = P.tools /\ Shows(M, P)
  BY <1>3, <1>4, <1>5 DEF Shows
<1> QED BY <1>1, <1>2, <1>5, <1>7, <1>8, <1>9 DEF Content, Shows

\* Text that has been sent; some of it is something to show.
LEMMA EmitsText ==
    ASSUME NEW L, Wired(L), Owned(L), NEW how \in Seen
    PROVE  LET M == EmitText(L, how)
           IN  Content(L, M) /\ (how = "some" => M.wire.visible /\ ~NeedsVisible(M))
<1> DEFINE M == EnsureText(L)
           N == DeltaBlocks(M, {M.text}, how, <<>>)
           P == [N EXCEPT !.shown = IF @ = "some" THEN @ ELSE how]
<1>1. EmitText(L, how) = P
  BY DEF EmitText
<1>2. Content(L, M) /\ {M.text} \in SUBSET Opened(M)
  BY EnsuresText
<1> HIDE DEF M
<1>3. /\ Wired(N) /\ DOMAIN N.blocks = DOMAIN M.blocks /\ Opened(N) = Opened(M)
      /\ \A i \in DOMAIN M.blocks : /\ N.blocks[i].type = M.blocks[i].type
                                    /\ N.blocks[i].args = M.blocks[i].args
      /\ N.tools = M.tools /\ N.text = M.text /\ N.thinking = M.thinking
      /\ N.shown = M.shown /\ N.wire.whole = M.wire.whole /\ Shows(M, N)
      /\ how = "some" => N.wire.visible
  <2>1. Wired(M) /\ M \in Ledger /\ <<>> \in Seq(Nat)
    BY <1>2, Fields DEF Content
  <2>2. <<>> # Whole
    BY DEF Whole
  <2>3. \A i \in DOMAIN M.blocks : M.blocks[i].args \o <<>> = M.blocks[i].args
    BY <2>1, Lengths, AppendsNothing
  <2> DEFINE nothing == <<>>
  <2>4. /\ nothing \in Seq(Nat) /\ N = DeltaBlocks(M, {M.text}, how, nothing)
        /\ WholeWith(M, {M.text}, nothing) = M.wire.whole
        /\ \A i \in DOMAIN M.blocks : ArgsWith(M, {M.text}, nothing, i) = M.blocks[i].args
    BY <2>1, <2>2, <2>3 DEF ArgsWith, WholeWith
  <2> HIDE DEF N, nothing
  <2>5. Adds(M, N, {M.text}, how, nothing)
    BY <1>2, <2>1, <2>4, Delta
  <2>6. Wired(N) /\ Len(N.blocks) = Len(M.blocks)
    BY <2>5 DEF Adds
  <2>7. DOMAIN N.blocks = DOMAIN M.blocks
    BY <2>1, <2>6, Fields
  <2> QED BY <2>4, <2>5, <2>7 DEF Adds
<1> HIDE DEF N
<1> DEFINE shown == IF N.shown = "some" THEN N.shown ELSE how
<1>4. /\ P \in Ledger /\ P.blocks = N.blocks /\ P.text = N.text /\ P.thinking = N.thinking
      /\ P.shown = shown /\ P.tools = N.tools /\ P.wire = N.wire
  <2>1. N \in Ledger /\ N.shown \in Seen
    BY <1>3, Fields DEF Ledger
  <2>2. P = [N EXCEPT !.shown = shown] /\ shown \in Seen
    BY <2>1
  <2> HIDE DEF P, shown
  <2> QED BY <2>1, <2>2, WithShown
<1> HIDE DEF P
<1>5. /\ Wired(P) /\ Shows(N, P) /\ Opened(P) = Opened(N)
      /\ how = "some" => P.wire.visible /\ ~NeedsVisible(P)
  BY <1>3, <1>4 DEF Wired, Opened, NeedsVisible, HasTool, Shows
<1> HIDE DEF shown
<1>6. Started(P) = Started(M) /\ BlocksOf(P, Started(P)) = BlocksOf(M, Started(M))
  BY <1>3, <1>4 DEF Started, BlocksOf
<1>7. Owned(P)
  <2>1. Opened(M) \subseteq DOMAIN M.blocks /\ Owned(M)
    BY <1>2, Fields DEF Content
  <2> QED BY <2>1, <1>3, <1>4, <1>5, <1>6 DEF Owned
<1>8. Faithful(M) => Faithful(P)
  BY <1>2, <1>3, <1>4, <1>5, Still DEF Content
<1>9. M.tools = P.tools /\ Shows(M, P)
  BY <1>3, <1>4, <1>5 DEF Shows
<1> QED BY <1>1, <1>2, <1>5, <1>7, <1>8, <1>9 DEF Content, Shows

\* What is sent after one thing is after what was before it.
LEMMA Laters ==
    ASSUME NEW L, NEW M, NEW N, Later(L, M), Later(M, N)
    PROVE  Later(L, N)
  BY DEF Later, Shows

\* Content is one such operation.
LEMMA ContentLater ==
    ASSUME NEW L, NEW M, Content(L, M)
    PROVE  Later(L, M)
  BY DEF Content, Later

\* A tool that is changed in one field has the others as they were.
LEMMA ToolFields ==
    ASSUME NEW L, Wired(L), NEW t \in Tools
    PROVE  /\ L.tools \in [Tools -> Tool] /\ L.tools[t] \in Tool
           /\ L.tools[t].named \in BOOLEAN /\ L.tools[t].block \in Nat
           /\ L.tools[t].buffer \in Seq(Nat) /\ L.tools[t].pre \in Seq(Nat)
           /\ L.tools[t].emitted \in BOOLEAN
  <1>1. L.tools \in [Tools -> Tool]
    BY Fields
  <1>2. L.tools[t] \in Tool
    BY <1>1
  <1> QED BY <1>1, <1>2 DEF Tool

\* Only the tools of a ledger are other: what the client has is as it was.
LEMMA Retooled ==
    ASSUME NEW L, Wired(L), NEW x \in [Tools -> Tool]
    PROVE  LET M == [L EXCEPT !.tools = x]
           IN  /\ Wired(M) /\ Opened(M) = Opened(L) /\ Shows(L, M)
               /\ M.tools = x /\ M.blocks = L.blocks /\ M.wire = L.wire
               /\ M.text = L.text /\ M.thinking = L.thinking /\ M.shown = L.shown
<1> DEFINE M == [L EXCEPT !.tools = x]
<1>1. /\ M \in Ledger /\ M.tools = x
      /\ M.blocks = L.blocks /\ M.text = L.text /\ M.thinking = L.thinking
      /\ M.shown = L.shown /\ M.wire = L.wire
  BY Fields, WithTools
<1> HIDE DEF M
<1>2. Wired(M) /\ Shows(L, M) /\ Opened(M) = Opened(L)
  BY <1>1, Fielded
<1> QED BY <1>1, <1>2 DEF M

LEMMA NothingFirst ==
    ASSUME NEW a \in Seq(Nat)
    PROVE  <<>> \o a = a
  OBVIOUS

\* The arguments that are whole are some.
LEMMA WholeArgs == Whole \in Seq(Nat) /\ Whole # <<>> /\ <<>> \in Seq(Nat)
  BY DEF Whole

\* Arguments are kept for tools that have been started, and put out when whole.
LEMMA Buffers ==
    ASSUME NEW L, Wired(L), Owned(L), NEW args \in [Tools -> Seq(Nat)],
           \A t \in Tools : args[t] # <<>> => t \in Started(L)
    PROVE  LET M == BufferArgs(L, args)
           IN  /\ Later(L, M)
               /\ M.text = L.text /\ M.thinking = L.thinking
               /\ \A t \in Tools : /\ M.tools[t].block = L.tools[t].block
                                   /\ M.tools[t].named = L.tools[t].named
<1> DEFINE buffer(t) == L.tools[t].buffer \o args[t]
           whole == {t \in Tools : /\ args[t] # <<>> /\ ~L.tools[t].emitted
                                   /\ buffer(t) = Whole}
           after == [t \in Tools |->
                        IF t \in whole
                        THEN [L.tools[t] EXCEPT !.buffer = <<>>, !.emitted = TRUE]
                        ELSE IF L.tools[t].emitted THEN L.tools[t]
                        ELSE [L.tools[t] EXCEPT !.buffer = buffer(t)]]
           N == [L EXCEPT !.tools = after]
           ended == BlocksOf(L, whole)
           M == DeltaBlocks(N, ended, "", Whole)
<1>1. BufferArgs(L, args) = M
  BY DEF BufferArgs
<1>2. \A t \in Tools :
         /\ after[t] \in Tool
         /\ after[t].block = L.tools[t].block /\ after[t].named = L.tools[t].named
         /\ after[t].emitted <=> L.tools[t].emitted \/ t \in whole
         /\ args[t] = <<>> /\ L.tools[t].buffer = <<>> => after[t].buffer = <<>>
  <2> TAKE t \in Tools
  <2> DEFINE tool == L.tools[t]
             b == buffer(t)
  <2>1. tool \in Tool /\ b \in Seq(Nat) /\ <<>> \in Seq(Nat) /\ tool.emitted \in BOOLEAN
    BY ToolFields, AppendsArgs
  <2>2. after[t] = IF t \in whole THEN [tool EXCEPT !.buffer = <<>>, !.emitted = TRUE]
                   ELSE IF tool.emitted THEN tool ELSE [tool EXCEPT !.buffer = b]
    OBVIOUS
  <2>3. args[t] = <<>> /\ tool.buffer = <<>> => b = <<>>
    BY NothingFirst, WholeArgs
  <2> HIDE DEF tool, b, whole, after
  <2>4. CASE t \in whole
    <3>1. [tool EXCEPT !.buffer = <<>>, !.emitted = TRUE] \in Tool
      BY <2>1 DEF Tool
    <3> QED BY <3>1, <2>1, <2>2, <2>4 DEF tool, Tool
  <2>5. CASE t \notin whole /\ tool.emitted
    BY <2>1, <2>2, <2>5 DEF tool
  <2>6. CASE t \notin whole /\ ~tool.emitted
    <3>1. [tool EXCEPT !.buffer = b] \in Tool
      BY <2>1 DEF Tool
    <3> QED BY <3>1, <2>1, <2>2, <2>3, <2>6 DEF tool, Tool
  <2> QED BY <2>4, <2>5, <2>6
<1>3. after \in [Tools -> Tool]
  BY <1>2
<1>4. whole \subseteq Started(L) /\ \A t \in whole : ~L.tools[t].emitted
  OBVIOUS
<1> HIDE DEF after, whole
<1>5. /\ Wired(N) /\ Opened(N) = Opened(L) /\ Shows(L, N)
      /\ N.tools = after /\ N.blocks = L.blocks /\ N.wire = L.wire
      /\ N.text = L.text /\ N.thinking = L.thinking /\ N.shown = L.shown
  BY <1>3, Retooled
<1> HIDE DEF N
<1>6. ended \in SUBSET Opened(N)
  BY <1>4, <1>5 DEF Owned, BlocksOf
<1>7. /\ DOMAIN L.blocks = 1..Len(L.blocks) /\ Opened(L) \subseteq DOMAIN L.blocks
      /\ \A i \in DOMAIN L.blocks : L.blocks[i].args \in Seq(Nat)
  BY Fields, Lengths
<1>8. \A t \in Started(L) : L.tools[t].block \in ended <=> t \in whole
  BY <1>4 DEF Owned, BlocksOf
<1> HIDE DEF ended, M
<1>9. Adds(N, M, ended, "", Whole)
  BY <1>5, <1>6, WholeArgs, Delta DEF M
<1>10. Wired(M) /\ DOMAIN M.blocks = DOMAIN L.blocks
  <2>1. Wired(M) /\ Len(M.blocks) = Len(N.blocks)
    BY <1>9 DEF Adds
  <2> QED BY <2>1, <1>5, <1>7, Fields
<1>11. /\ Opened(M) = Opened(L) /\ M.tools = after /\ M.text = L.text
       /\ M.thinking = L.thinking /\ Shows(L, M)
       /\ \A i \in DOMAIN L.blocks : M.blocks[i].type = L.blocks[i].type
  BY <1>5, <1>9 DEF Adds, Shows
<1>12. /\ \A i \in DOMAIN L.blocks : M.blocks[i].args = ArgsWith(L, ended, Whole, i)
       /\ M.wire.whole = L.wire.whole \cup ended
  <2>1. \A i : ArgsWith(N, ended, Whole, i) = ArgsWith(L, ended, Whole, i)
    BY <1>5 DEF ArgsWith
  <2>2. WholeWith(N, ended, Whole) = L.wire.whole \cup ended
    BY <1>5 DEF WholeWith
  <2> QED BY <1>5, <1>9, <2>1, <2>2 DEF Adds
<1>13. \A t \in Tools : /\ M.tools[t].block = L.tools[t].block
                        /\ M.tools[t].named = L.tools[t].named
                        /\ M.tools[t].emitted <=> L.tools[t].emitted \/ t \in whole
  BY <1>2, <1>11
<1>14. Started(M) = Started(L) /\ BlocksOf(M, Started(M)) = BlocksOf(L, Started(L))
  BY <1>13 DEF Started, BlocksOf
<1>15. Owned(M)
  <2>1. \A t \in Tools \ Started(M) : M.tools[t].buffer = <<>>
    BY <1>2, <1>11, <1>14 DEF Owned
  <2>2. \A t \in Started(M) : /\ M.tools[t].block \in Opened(M)
                              /\ M.blocks[M.tools[t].block].type = "tool_use"
    <3> TAKE t \in Started(M)
    <3>1. t \in Started(L) /\ t \in Tools
      BY <1>14 DEF Started
    <3>2. M.tools[t].block = L.tools[t].block
      BY <3>1, <1>13, Zenon
    <3>3. /\ L.tools[t].block \in Opened(L)
          /\ L.blocks[L.tools[t].block].type = "tool_use"
      BY <3>1 DEF Owned
    <3>4. L.tools[t].block \in Opened(M) /\ L.tools[t].block \in DOMAIN L.blocks
      BY <3>3, <1>7, <1>11, Zenon
    <3>5. M.blocks[L.tools[t].block].type = "tool_use"
      BY <3>3, <3>4, <1>11, Zenon
    <3> QED BY <3>2, <3>4, <3>5, Zenon
  <2>3. \A t, u \in Started(M) : M.tools[t].block = M.tools[u].block => t = u
    BY <1>13, <1>14 DEF Owned, Started
  <2>4. Opened(M) \subseteq {M.text, M.thinking} \cup BlocksOf(M, Started(M))
    BY <1>11, <1>14 DEF Owned
  <2> QED BY <2>1, <2>2, <2>3, <2>4, <1>7, <1>11 DEF Owned
<1>16. ASSUME Faithful(L) PROVE Faithful(M)
  <2>1. \A i \in ended : L.blocks[i].args = <<>> /\ i \in DOMAIN L.blocks
    <3> TAKE i \in ended
    <3>1. PICK t \in whole : i = L.tools[t].block
      BY DEF ended, BlocksOf
    <3>2. t \in Started(L) /\ t \in Tools /\ ~L.tools[t].emitted
      BY <1>4 DEF Started
    <3>3. i \in DOMAIN L.blocks
      BY <1>5, <1>6, <1>7
    <3>4. L.blocks[i].args # Whole
      BY <3>1, <3>2, <1>16 DEF Faithful
    <3> QED BY <3>3, <3>4, <1>16 DEF Faithful
  <2>2. \A i \in DOMAIN L.blocks :
           M.blocks[i].args = IF i \in ended THEN Whole ELSE L.blocks[i].args
    BY <2>1, <1>12, NothingFirst, WholeArgs DEF ArgsWith
  <2>3. \A i \in DOMAIN M.blocks : M.blocks[i].args \in {<<>>, Whole}
    BY <2>2, <1>10, <1>16 DEF Faithful
  <2>4. M.wire.whole = {i \in DOMAIN M.blocks : M.blocks[i].args = Whole}
    BY <2>1, <2>2, <1>10, <1>12, <1>16, WholeArgs DEF Faithful
  <2>5. \A t \in Tools :
           M.tools[t].emitted <=> t \in Started(M) /\ M.blocks[M.tools[t].block].args = Whole
    <3>1. \A t \in Started(L) : L.tools[t].block \in DOMAIN L.blocks
      BY <1>7 DEF Owned
    <3> QED BY <3>1, <2>2, <1>4, <1>8, <1>13, <1>14, <1>16 DEF Faithful
  <2> QED BY <2>3, <2>4, <2>5 DEF Faithful
<1>17. Later(L, M)
  BY <1>10, <1>11, <1>15, <1>16 DEF Later
<1> QED BY <1>1, <1>11, <1>13, <1>17

\* As many new indexes as tools can be given out, one to each.
LEMMA Indexed ==
    ASSUME NEW tools, IsFiniteSet(tools), NEW m \in Nat
    PROVE  LET n == Cardinality(tools)
           IN  n \in Nat /\ Bijection(tools, m + 1 .. m + n) # {}
<1> DEFINE n == Cardinality(tools)
<1>1. n \in Nat
  BY FS_CardinalityType
<1>2. IsFiniteSet(m + 1 .. m + n) /\ Cardinality(m + 1 .. m + n) = n
  <2>1. /\ IsFiniteSet(m + 1 .. m + n)
        /\ Cardinality(m + 1 .. m + n) = IF m + 1 > m + n THEN 0 ELSE (m + n) - (m + 1) + 1
    <3>1. m + 1 \in Int /\ m + n \in Int
      BY <1>1
    <3> HIDE DEF n
    <3> QED BY <3>1, FS_Interval
  <2> QED BY <2>1, <1>1
<1>3. ExistsBijection(tools, m + 1 .. m + n)
  BY <1>2, FS_SameCardinalityBij
<1> QED BY <1>1, <1>3 DEF ExistsBijection

\* Tools are started in blocks of their own, with the arguments kept for them.
LEMMA Starts ==
    ASSUME NEW L, Wired(L), Owned(L), NEW tools \in SUBSET Tools,
           \A t \in tools : L.tools[t].block = 0
    PROVE  LET M == StartTools(L, tools)
           IN  /\ Later(L, M)
               /\ \A t \in Tools : M.tools[t].named = L.tools[t].named
               /\ Started(M) = Started(L) \cup tools
               /\ tools # {} => ~NeedsVisible(M)
<1> DEFINE n == Cardinality(tools)
           new == Len(L.blocks) + 1 .. Len(L.blocks) + n
           index == CHOOSE f \in Bijection(tools, new) : TRUE
           after == [t \in Tools |->
                        IF t \in tools
                        THEN [L.tools[t] EXCEPT !.block = index[t], !.pre = <<>>]
                        ELSE L.tools[t]]
           args == [t \in Tools |-> IF t \in tools THEN L.tools[t].pre ELSE <<>>]
           N == StartBlocks(L, n, "tool_use")
           P == [N EXCEPT !.tools = after]
           M == BufferArgs(P, args)
<1>1. StartTools(L, tools) = M
  BY DEF StartTools
<1>2. /\ Len(L.blocks) \in Nat /\ DOMAIN L.blocks = 1..Len(L.blocks)
      /\ Opened(L) \subseteq DOMAIN L.blocks
  BY Fields
<1>3. IsFiniteSet(tools)
  BY ChatAssumption, FS_Subset
<1>4. n \in Nat /\ Bijection(tools, new) # {}
  BY <1>2, <1>3, Indexed
<1>5. index \in Bijection(tools, new)
  BY <1>4
<1> HIDE DEF index
<1>6. /\ index \in [tools -> new]
      /\ \A t, u \in tools : index[t] = index[u] => t = u
      /\ \A i \in new : \E t \in tools : index[t] = i
  BY <1>5 DEF Bijection, Injection, Surjection, IsInjective
<1>7. /\ new \subseteq Nat /\ 0 \notin new /\ new \cap DOMAIN L.blocks = {}
      /\ tools # {} => new # {}
  BY <1>2, <1>4, <1>6
<1>8. \A t \in Tools :
         /\ after[t] \in Tool
         /\ after[t].block = IF t \in tools THEN index[t] ELSE L.tools[t].block
         /\ after[t].named = L.tools[t].named /\ after[t].emitted = L.tools[t].emitted
         /\ after[t].buffer = L.tools[t].buffer
  <2> TAKE t \in Tools
  <2> DEFINE tool == L.tools[t]
             i == index[t]
  <2>1. tool \in Tool
    BY ToolFields
  <2>2. after[t] = IF t \in tools THEN [tool EXCEPT !.block = i, !.pre = <<>>] ELSE tool
    OBVIOUS
  <2>3. t \in tools => i \in Nat
    BY <1>6, <1>7
  <2> HIDE DEF tool, i, after
  <2>4. CASE t \in tools
    <3>1. [tool EXCEPT !.block = i, !.pre = <<>>] \in Tool
      BY <2>1, <2>3, <2>4, WholeArgs DEF Tool
    <3> QED BY <3>1, <2>1, <2>2, <2>4 DEF Tool, tool, i
  <2>5. CASE t \notin tools
    BY <2>1, <2>2, <2>5 DEF Tool, tool
  <2> QED BY <2>4, <2>5
<1>9. after \in [Tools -> Tool]
  BY <1>8
<1>10. args \in [Tools -> Seq(Nat)] /\ \A t \in Tools : args[t] # <<>> => t \in tools
  BY ToolFields, WholeArgs
<1> HIDE DEF after, args
<1>11. /\ Wired(N)
       /\ DOMAIN N.blocks = DOMAIN L.blocks \cup new
       /\ Opened(N) = Opened(L) \cup new
       /\ \A i \in DOMAIN L.blocks : N.blocks[i] = L.blocks[i]
       /\ \A i \in new : N.blocks[i].type = "tool_use" /\ N.blocks[i].args = <<>>
       /\ N.tools = L.tools /\ N.text = L.text /\ N.thinking = L.thinking
       /\ N.wire.whole = L.wire.whole
       /\ Shows(L, N)
  <2>1. "tool_use" \in BlockTypes
    BY DEF BlockTypes
  <2>2. Gains(L, N, new, "tool_use")
    BY <2>1, <1>4, Starting
  <2> HIDE DEF N, new
  <2> QED BY <2>2 DEF Gains
<1> HIDE DEF new, N
<1>12. /\ Wired(P) /\ Opened(P) = Opened(N) /\ Shows(N, P)
       /\ P.tools = after /\ P.blocks = N.blocks /\ P.wire = N.wire
       /\ P.text = N.text /\ P.thinking = N.thinking
  BY <1>9, <1>11, Retooled
<1> HIDE DEF P
<1>13. Started(P) = Started(L) \cup tools
  BY <1>6, <1>7, <1>8, <1>12 DEF Started
<1>14. Owned(P)
  <2>1. P.thinking # 0 => P.thinking \in Opened(P) /\ P.blocks[P.thinking].type = "thinking"
    BY <1>2, <1>11, <1>12 DEF Owned
  <2>2. P.text # 0 => P.text \in Opened(P) /\ P.blocks[P.text].type = "text"
    BY <1>2, <1>11, <1>12 DEF Owned
  <2>3. \A t \in Started(P) : /\ P.tools[t].block \in Opened(P)
                              /\ P.blocks[P.tools[t].block].type = "tool_use"
    <3> TAKE t \in Started(P)
    <3>1. CASE t \in tools
      BY <3>1, <1>6, <1>8, <1>11, <1>12
    <3>2. CASE t \notin tools
      BY <3>2, <1>2, <1>8, <1>11, <1>12, <1>13 DEF Owned, Started
    <3> QED BY <3>1, <3>2
  <2>4. \A t, u \in Started(P) : P.tools[t].block = P.tools[u].block => t = u
    <3> TAKE t, u \in Started(P)
    <3>1. \A v \in Started(P) :
             /\ v \in tools => P.tools[v].block = index[v] /\ index[v] \in new
             /\ v \notin tools => /\ v \in Started(L) /\ P.tools[v].block = L.tools[v].block
                                  /\ L.tools[v].block \in DOMAIN L.blocks
      BY <1>2, <1>6, <1>8, <1>12, <1>13 DEF Owned, Started
    <3> QED BY <3>1, <1>6, <1>7 DEF Owned
  <2>5. \A t \in Tools \ Started(P) : P.tools[t].buffer = <<>>
    BY <1>8, <1>12, <1>13 DEF Owned
  <2>6. Opened(P) \subseteq {P.text, P.thinking} \cup BlocksOf(P, Started(P))
    <3> SUFFICES ASSUME NEW i \in Opened(P), i # P.text, i # P.thinking
                 PROVE  \E t \in Started(P) : i = P.tools[t].block
      BY DEF BlocksOf
    <3>1. CASE i \in new
      BY <3>1, <1>6, <1>8, <1>12, <1>13
    <3>2. CASE i \in Opened(L)
      <4>1. PICK t \in Started(L) : i = L.tools[t].block
        BY <3>2, <1>11, <1>12 DEF Owned, BlocksOf
      <4>2. t \in Tools /\ t \notin tools
        BY DEF Started
      <4> QED BY <4>1, <4>2, <1>8, <1>12, <1>13
    <3> QED BY <3>1, <3>2, <1>11, <1>12
  <2> QED BY <2>1, <2>2, <2>3, <2>4, <2>5, <2>6 DEF Owned
<1>15. ASSUME Faithful(L) PROVE Faithful(P)
  <2>1. \A i \in DOMAIN P.blocks : P.blocks[i].args \in {<<>>, Whole}
    BY <1>11, <1>12, <1>15 DEF Faithful
  <2>2. P.wire.whole = {i \in DOMAIN P.blocks : P.blocks[i].args = Whole}
    <3>1. L.wire.whole = {i \in DOMAIN L.blocks : L.blocks[i].args = Whole}
      BY <1>15 DEF Faithful
    <3>2. \A i \in new : P.blocks[i].args # Whole
      BY <1>11, <1>12, WholeArgs
    <3> QED BY <3>1, <3>2, <1>11, <1>12
  <2>3. \A t \in Tools :
           P.tools[t].emitted <=> t \in Started(P) /\ P.blocks[P.tools[t].block].args = Whole
    <3> TAKE t \in Tools
    <3>1. CASE t \in tools
      <4>1. ~L.tools[t].emitted
        BY <3>1, <1>15 DEF Faithful, Started
      <4>2. P.blocks[P.tools[t].block].args = <<>>
        BY <3>1, <1>6, <1>8, <1>11, <1>12
      <4> QED BY <4>1, <4>2, <1>8, <1>12, WholeArgs
    <3>2. CASE t \notin tools
      <4>1. P.tools[t].emitted = L.tools[t].emitted /\ P.tools[t].block = L.tools[t].block
        BY <3>2, <1>8, <1>12
      <4>2. t \in Started(L) => L.tools[t].block \in DOMAIN L.blocks
        BY <1>2 DEF Owned
      <4> QED BY <3>2, <4>1, <4>2, <1>11, <1>12, <1>13, <1>15 DEF Faithful
    <3> QED BY <3>1, <3>2
  <2> QED BY <2>1, <2>2, <2>3 DEF Faithful
<1>16. Later(L, P)
  BY <1>11, <1>12, <1>14, <1>15 DEF Later, Shows
<1>17. /\ Later(P, M)
       /\ \A t \in Tools : /\ M.tools[t].block = P.tools[t].block
                           /\ M.tools[t].named = P.tools[t].named
  BY <1>10, <1>12, <1>13, <1>14, Buffers
<1>18. tools # {} => ~NeedsVisible(P)
  BY <1>7, <1>11, <1>12 DEF NeedsVisible, HasTool
<1> HIDE DEF M
<1>19. Later(L, M) /\ (tools # {} => ~NeedsVisible(M))
  BY <1>16, <1>17, <1>18, Laters DEF Later, Shows
<1>20. /\ \A t \in Tools : M.tools[t].named = L.tools[t].named
       /\ Started(M) = Started(L) \cup tools
  BY <1>8, <1>12, <1>13, <1>17 DEF Started
<1> QED BY <1>1, <1>19, <1>20

\* register_tool_name changes no block.
LEMMA Naming ==
    ASSUME NEW L, Wired(L), Owned(L), NEW tools \in SUBSET Tools
    PROVE  LET M == WithNames(L, tools)
           IN  /\ Later(L, M)
               /\ \A t \in Tools : /\ M.tools[t].block = L.tools[t].block
                                   /\ M.tools[t].named <=> L.tools[t].named \/ t \in tools
<1> DEFINE after == [t \in Tools |->
                        IF t \in tools THEN [L.tools[t] EXCEPT !.named = TRUE]
                        ELSE L.tools[t]]
           M == [L EXCEPT !.tools = after]
<1>1. WithNames(L, tools) = M
  BY DEF WithNames
<1>2. \A t \in Tools :
         /\ after[t] \in Tool
         /\ after[t].named <=> L.tools[t].named \/ t \in tools
         /\ after[t].block = L.tools[t].block /\ after[t].emitted = L.tools[t].emitted
         /\ after[t].buffer = L.tools[t].buffer
  <2> TAKE t \in Tools
  <2> DEFINE tool == L.tools[t]
  <2>1. tool \in Tool
    BY ToolFields
  <2>2. after[t] = IF t \in tools THEN [tool EXCEPT !.named = TRUE] ELSE tool
    OBVIOUS
  <2> HIDE DEF tool, after
  <2>3. CASE t \in tools
    BY <2>1, <2>2, <2>3 DEF Tool, tool
  <2>4. CASE t \notin tools
    BY <2>1, <2>2, <2>4 DEF Tool, tool
  <2> QED BY <2>3, <2>4
<1>3. after \in [Tools -> Tool]
  BY <1>2
<1> HIDE DEF after
<1>4. /\ Wired(M) /\ Opened(M) = Opened(L) /\ Shows(L, M)
      /\ M.tools = after /\ M.blocks = L.blocks /\ M.wire = L.wire
      /\ M.text = L.text /\ M.thinking = L.thinking /\ M.shown = L.shown
  BY <1>3, Retooled
<1> HIDE DEF M
<1>5. Started(M) = Started(L) /\ BlocksOf(M, Started(M)) = BlocksOf(L, Started(L))
  BY <1>2, <1>4 DEF Started, BlocksOf
<1>6. Owned(M)
  <2>1. \A t \in Started(M) : /\ M.tools[t].block \in Opened(M)
                              /\ M.blocks[M.tools[t].block].type = "tool_use"
    BY <1>2, <1>4, <1>5 DEF Owned, Started
  <2>2. \A t, u \in Started(M) : M.tools[t].block = M.tools[u].block => t = u
    BY <1>2, <1>4, <1>5 DEF Owned, Started
  <2>3. \A t \in Tools \ Started(M) : M.tools[t].buffer = <<>>
    BY <1>2, <1>4, <1>5 DEF Owned
  <2>4. Opened(M) \subseteq {M.text, M.thinking} \cup BlocksOf(M, Started(M))
    BY <1>4, <1>5 DEF Owned
  <2> QED BY <2>1, <2>2, <2>3, <2>4, <1>4 DEF Owned
<1>7. Faithful(L) => Faithful(M)
  BY <1>2, <1>4, <1>5 DEF Faithful
<1> QED BY <1>1, <1>2, <1>4, <1>6, <1>7 DEF Later

\* A delta of a tool call, with what remains of its name or without.
LEMMA ProcessesCalls ==
    ASSUME NEW L, Wired(L), Owned(L), NEW tools \in SUBSET Tools, NEW name \in BOOLEAN,
           NEW args \in Seq(Nat)
    PROVE  LET M == ProcessCalls(L, tools, name, args)
           IN  /\ Later(L, M)
               /\ name /\ tools # {} /\ Started(L) = {} => ~NeedsVisible(M)
<1> DEFINE M == IF name THEN WithNames(L, tools) ELSE L
           named == {t \in tools : M.tools[t].named /\ M.tools[t].block = 0}
           N == StartTools(M, named)
           early == {t \in tools : N.tools[t].block = 0}
           after == [t \in Tools |->
                        IF t \in early
                        THEN [N.tools[t] EXCEPT !.pre = N.tools[t].pre \o args]
                        ELSE N.tools[t]]
           P == [N EXCEPT !.tools = after]
           given == [t \in Tools |-> IF t \in tools \ early THEN args ELSE <<>>]
           Q == BufferArgs(P, given)
<1>1. ProcessCalls(L, tools, name, args) = Q
  BY DEF ProcessCalls
<1>2. /\ Later(L, M) /\ Started(M) = Started(L)
      /\ name => \A t \in tools : M.tools[t].named
  <2>1. CASE name
    <3> DEFINE K == WithNames(L, tools)
    <3>1. /\ Later(L, K)
          /\ \A t \in Tools : /\ K.tools[t].block = L.tools[t].block
                              /\ K.tools[t].named <=> L.tools[t].named \/ t \in tools
      BY Naming
    <3>2. M = K
      BY <2>1
    <3> HIDE DEF K, M
    <3> QED BY <3>1, <3>2 DEF Started
  <2>2. CASE ~name
    BY <2>2 DEF Later, Shows
  <2> QED BY <2>1, <2>2
<1> HIDE DEF M
<1>3. /\ Later(M, N) /\ named \in SUBSET Tools
      /\ Started(N) = Started(M) \cup named
      /\ named # {} => ~NeedsVisible(N)
  <2>1. Wired(M) /\ Owned(M)
    BY <1>2 DEF Later
  <2>2. named \in SUBSET Tools /\ \A t \in named : M.tools[t].block = 0
    OBVIOUS
  <2> HIDE DEF named
  <2> QED BY <2>1, <2>2, Starts
<1>4. name /\ tools # {} /\ Started(L) = {} => named # {}
  BY <1>2 DEF Started
<1> HIDE DEF named, N
<1>5. Wired(N) /\ Owned(N) /\ Later(L, N)
  BY <1>2, <1>3, Laters DEF Later
<1>6. \A t \in Tools :
         /\ after[t] \in Tool
         /\ after[t].block = N.tools[t].block /\ after[t].emitted = N.tools[t].emitted
         /\ after[t].buffer = N.tools[t].buffer
  <2> TAKE t \in Tools
  <2> DEFINE tool == N.tools[t]
             pre == tool.pre \o args
  <2>1. tool \in Tool /\ pre \in Seq(Nat)
    BY <1>5, ToolFields, AppendsArgs
  <2>2. after[t] = IF t \in early THEN [tool EXCEPT !.pre = pre] ELSE tool
    OBVIOUS
  <2> HIDE DEF tool, pre, after, early
  <2>3. CASE t \in early
    <3>1. [tool EXCEPT !.pre = pre] \in Tool
      BY <2>1 DEF Tool
    <3> QED BY <3>1, <2>1, <2>2, <2>3 DEF Tool, tool
  <2>4. CASE t \notin early
    BY <2>1, <2>2, <2>4 DEF Tool, tool
  <2> QED BY <2>3, <2>4
<1>7. after \in [Tools -> Tool]
  BY <1>6
<1> HIDE DEF after
<1>8. /\ Wired(P) /\ Opened(P) = Opened(N) /\ Shows(N, P)
      /\ P.tools = after /\ P.blocks = N.blocks /\ P.wire = N.wire
      /\ P.text = N.text /\ P.thinking = N.thinking /\ P.shown = N.shown
  BY <1>5, <1>7, Retooled
<1> HIDE DEF P
<1>9. Started(P) = Started(N) /\ BlocksOf(P, Started(P)) = BlocksOf(N, Started(N))
  BY <1>6, <1>8 DEF Started, BlocksOf
<1>10. Owned(P)
  <2>1. \A t \in Started(P) : /\ P.tools[t].block \in Opened(P)
                              /\ P.blocks[P.tools[t].block].type = "tool_use"
    BY <1>5, <1>6, <1>8, <1>9 DEF Owned, Started
  <2>2. \A t, u \in Started(P) : P.tools[t].block = P.tools[u].block => t = u
    BY <1>5, <1>6, <1>8, <1>9 DEF Owned, Started
  <2>3. \A t \in Tools \ Started(P) : P.tools[t].buffer = <<>>
    BY <1>5, <1>6, <1>8, <1>9 DEF Owned
  <2>4. Opened(P) \subseteq {P.text, P.thinking} \cup BlocksOf(P, Started(P))
    BY <1>5, <1>8, <1>9 DEF Owned
  <2> QED BY <2>1, <2>2, <2>3, <2>4, <1>5, <1>8 DEF Owned
<1>11. Faithful(N) => Faithful(P)
  BY <1>6, <1>8, <1>9 DEF Faithful
<1>12. Later(L, P) /\ Shows(N, P)
  BY <1>5, <1>8, <1>10, <1>11 DEF Later, Shows
<1>13. /\ given \in [Tools -> Seq(Nat)]
       /\ \A t \in Tools : given[t] # <<>> => t \in Started(P)
  <2>1. \A t \in tools \ early : t \in Started(P)
    BY <1>9 DEF Started
  <2>2. \A t \in Tools : given[t] = IF t \in tools \ early THEN args ELSE <<>>
    OBVIOUS
  <2> HIDE DEF early
  <2> QED BY <2>1, <2>2, WholeArgs
<1> HIDE DEF given
<1>14. Later(P, Q)
  BY <1>8, <1>10, <1>13, Buffers
<1> HIDE DEF Q
<1>15. Later(L, Q)
  BY <1>12, <1>14, Laters
<1>16. named # {} => ~NeedsVisible(Q)
  BY <1>3, <1>12, <1>14 DEF Later, Shows
<1> QED BY <1>1, <1>4, <1>15, <1>16

\* A block that is started and stopped at once, with nothing in it.
LEMMA Redacts ==
    ASSUME NEW L, Wired(L)
    PROVE  LET M == StartBlocks(L, 1, "redacted_thinking")
               N == StopBlocks(M, {Len(M.blocks)})
           IN  /\ Wired(N) /\ Opened(N) = Opened(L) /\ Shows(L, N)
               /\ DOMAIN L.blocks \subseteq DOMAIN N.blocks
               /\ \A i \in DOMAIN L.blocks : /\ N.blocks[i].type = L.blocks[i].type
                                             /\ N.blocks[i].args = L.blocks[i].args
               /\ \A i \in DOMAIN N.blocks \ DOMAIN L.blocks : N.blocks[i].args = <<>>
               /\ N.tools = L.tools /\ N.text = L.text /\ N.thinking = L.thinking
               /\ N.wire.whole = L.wire.whole
<1> DEFINE M == StartBlocks(L, 1, "redacted_thinking")
           i == Len(L.blocks) + 1
           N == StopBlocks(M, {Len(M.blocks)})
<1>1. "redacted_thinking" \in BlockTypes
  BY DEF BlockTypes
<1>2. /\ Wired(M) /\ Len(M.blocks) = i
      /\ DOMAIN M.blocks = DOMAIN L.blocks \cup {i} /\ i \notin DOMAIN L.blocks
      /\ Opened(M) = Opened(L) \cup {i}
      /\ \A j \in DOMAIN L.blocks : M.blocks[j] = L.blocks[j]
      /\ M.blocks[i].args = <<>>
      /\ M.tools = L.tools /\ M.text = L.text /\ M.thinking = L.thinking
      /\ M.wire.whole = L.wire.whole /\ Shows(L, M)
  BY <1>1, StartingOne
<1>3. Opened(L) \subseteq DOMAIN L.blocks
  BY Fields
<1> HIDE DEF M, i
<1>4. /\ Wired(N)
      /\ DOMAIN N.blocks = DOMAIN M.blocks /\ Opened(N) = Opened(M) \ {Len(M.blocks)}
      /\ \A j \in DOMAIN M.blocks : /\ N.blocks[j].type = M.blocks[j].type
                                    /\ N.blocks[j].args = M.blocks[j].args
      /\ N.tools = M.tools /\ N.text = M.text /\ N.thinking = M.thinking
      /\ N.wire.whole = M.wire.whole /\ Shows(M, N)
  <2>1. {Len(M.blocks)} \in SUBSET Opened(M)
    BY <1>2
  <2> QED BY <2>1, <1>2, Stopping
<1> HIDE DEF N
<1>5. Opened(N) = Opened(L) /\ Shows(L, N)
  BY <1>2, <1>3, <1>4 DEF Shows
<1> QED BY <1>2, <1>4, <1>5 DEF M, N

\* Whose blocks are open does not hang on blocks that are not.
LEMMA StillOwned ==
    ASSUME NEW L, NEW M, Wired(L), Owned(L), Opened(M) = Opened(L), M.tools = L.tools,
           M.text = L.text, M.thinking = L.thinking,
           \A i \in DOMAIN L.blocks : M.blocks[i].type = L.blocks[i].type
    PROVE  Owned(M)
<1>1. Opened(L) \subseteq DOMAIN L.blocks
  BY Fields
<1>2. Started(M) = Started(L) /\ BlocksOf(M, Started(M)) = BlocksOf(L, Started(L))
  BY DEF Started, BlocksOf
<1> QED BY <1>1, <1>2 DEF Owned

\* Opaque reasoning is put out in a block of its own, if there is any.
LEMMA FlushesOpaque ==
    ASSUME NEW L, Wired(L), Owned(L)
    PROVE  LET M == FlushOpaque(L)
           IN  Later(L, M) /\ Started(M) = Started(L)
<1>1. CASE ~opaque
  BY <1>1 DEF FlushOpaque, Later, Shows
<1>2. CASE opaque
  <2> DEFINE K == CloseContent(L)
             M == StartBlocks(K, 1, "redacted_thinking")
             N == StopBlocks(M, {Len(M.blocks)})
  <2>1. FlushOpaque(L) = N
    BY <1>2 DEF FlushOpaque
  <2>2. Content(L, K)
    BY ClosesContent
  <2> HIDE DEF K
  <2>3. Wired(K) /\ Owned(K) /\ K.tools = L.tools /\ Later(L, K)
    BY <2>2, ContentLater DEF Content
  <2>4. /\ Wired(N) /\ Opened(N) = Opened(K) /\ Shows(K, N)
        /\ DOMAIN K.blocks \subseteq DOMAIN N.blocks
        /\ \A i \in DOMAIN K.blocks : /\ N.blocks[i].type = K.blocks[i].type
                                      /\ N.blocks[i].args = K.blocks[i].args
        /\ \A i \in DOMAIN N.blocks \ DOMAIN K.blocks : N.blocks[i].args = <<>>
        /\ N.tools = K.tools /\ N.text = K.text /\ N.thinking = K.thinking
        /\ N.wire.whole = K.wire.whole
    BY <2>3, Redacts
  <2> HIDE DEF N
  <2>5. Owned(N)
    BY <2>3, <2>4, StillOwned
  <2>6. Faithful(K) => Faithful(N)
    BY <2>3, <2>4, Still
  <2>7. Later(K, N) /\ Started(N) = Started(L)
    BY <2>3, <2>4, <2>5, <2>6 DEF Later, Started
  <2> QED BY <2>1, <2>3, <2>7, Laters
<1> QED BY <1>1, <1>2

\* After all blocks have been closed there is none to close.
LEMMA FlushesClosed ==
    ASSUME NEW L, Wired(L), L.text = 0, L.thinking = 0
    PROVE  LET M == FlushOpaque(L)
           IN  Wired(M) /\ Opened(M) = Opened(L) /\ Shows(L, M)
<1>1. CASE ~opaque
  BY <1>1 DEF FlushOpaque, Shows
<1>2. CASE opaque
  <2>1. CloseContent(L) = L
    BY DEF CloseContent, CloseThinking, CloseText
  <2>2. FlushOpaque(L) = LET M == StartBlocks(L, 1, "redacted_thinking")
                         IN  StopBlocks(M, {Len(M.blocks)})
    BY <1>2, <2>1 DEF FlushOpaque
  <2> QED BY <2>2, Redacts
<1> QED BY <1>1, <1>2

\* A call that is found in the text is a block that is whole.
LEMMA Heuristic ==
    ASSUME NEW L, Wired(L), Owned(L)
    PROVE  LET M == HeuristicCall(L)
           IN  Later(L, M) /\ Started(M) = Started(L) /\ ~NeedsVisible(M)
<1> DEFINE K == CloseContent(L)
           i == Len(K.blocks) + 1
           M == StartBlocks(K, 1, "tool_use")
           N == DeltaBlocks(M, {Len(M.blocks)}, "", Whole)
           P == StopBlocks(N, {Len(M.blocks)})
<1>1. HeuristicCall(L) = P
  BY DEF HeuristicCall
<1>2. Content(L, K)
  BY ClosesContent
<1> HIDE DEF K
<1>3. Wired(K) /\ Owned(K) /\ K.tools = L.tools /\ Later(L, K)
  BY <1>2, ContentLater DEF Content
<1>4. "tool_use" \in BlockTypes
  BY DEF BlockTypes
<1>5. /\ Wired(M) /\ Len(M.blocks) = i
      /\ DOMAIN M.blocks = DOMAIN K.blocks \cup {i} /\ i \notin DOMAIN K.blocks
      /\ Opened(M) = Opened(K) \cup {i}
      /\ \A j \in DOMAIN K.blocks : M.blocks[j] = K.blocks[j]
      /\ M.blocks[i].type = "tool_use" /\ M.blocks[i].args = <<>>
      /\ M.tools = K.tools /\ M.text = K.text /\ M.thinking = K.thinking
      /\ M.wire.whole = K.wire.whole /\ Shows(K, M)
  BY <1>3, <1>4, StartingOne
<1>6. Opened(K) \subseteq DOMAIN K.blocks
  BY <1>3, Fields
<1> HIDE DEF M, i
<1>7. Adds(M, N, {i}, "", Whole)
  <2>1. {i} \in SUBSET Opened(M)
    BY <1>5
  <2> QED BY <2>1, <1>5, WholeArgs, Delta
<1>8. /\ \A j \in DOMAIN K.blocks : ArgsWith(M, {i}, Whole, j) = K.blocks[j].args
      /\ ArgsWith(M, {i}, Whole, i) = Whole
      /\ WholeWith(M, {i}, Whole) = K.wire.whole \cup {i}
  BY <1>5, NothingFirst, WholeArgs DEF ArgsWith, WholeWith
<1> HIDE DEF N
<1>9. /\ Wired(N) /\ DOMAIN N.blocks = DOMAIN M.blocks
  <2>1. Wired(N) /\ Len(N.blocks) = Len(M.blocks)
    BY <1>7 DEF Adds
  <2> QED BY <2>1, <1>5, Fields
<1>10. /\ Opened(N) = Opened(M) /\ N.tools = K.tools
       /\ N.text = K.text /\ N.thinking = K.thinking /\ Shows(K, N)
       /\ N.wire.whole = K.wire.whole \cup {i} /\ N.blocks[i].args = Whole
       /\ N.blocks[i].type = "tool_use"
       /\ \A j \in DOMAIN K.blocks : /\ N.blocks[j].type = K.blocks[j].type
                                     /\ N.blocks[j].args = K.blocks[j].args
  BY <1>5, <1>7, <1>8 DEF Adds, Shows
<1>11. /\ Wired(P)
       /\ DOMAIN P.blocks = DOMAIN N.blocks /\ Opened(P) = Opened(N) \ {i}
       /\ \A j \in DOMAIN N.blocks : /\ P.blocks[j].type = N.blocks[j].type
                                     /\ P.blocks[j].args = N.blocks[j].args
       /\ P.tools = N.tools /\ P.text = N.text /\ P.thinking = N.thinking
       /\ P.wire.whole = N.wire.whole /\ Shows(N, P)
  <2>1. {i} \in SUBSET Opened(N) /\ P = StopBlocks(N, {i})
    BY <1>5, <1>10
  <2> HIDE DEF P
  <2> QED BY <2>1, <1>9, Stopping
<1> HIDE DEF P
<1>12. Opened(P) = Opened(K) /\ Shows(K, P) /\ ~NeedsVisible(P)
  BY <1>5, <1>6, <1>9, <1>10, <1>11 DEF Shows, NeedsVisible, HasTool
<1>13. Owned(P)
  BY <1>3, <1>5, <1>9, <1>10, <1>11, <1>12, StillOwned
<1>14. ASSUME Faithful(K) PROVE Faithful(P)
  <2>1. \A j \in DOMAIN P.blocks : P.blocks[j].args \in {<<>>, Whole}
    BY <1>5, <1>9, <1>10, <1>11, <1>14 DEF Faithful
  <2>2. P.wire.whole = {j \in DOMAIN P.blocks : P.blocks[j].args = Whole}
    BY <1>5, <1>9, <1>10, <1>11, <1>14 DEF Faithful
  <2>3. \A t \in Tools :
           P.tools[t].emitted <=> t \in Started(P) /\ P.blocks[P.tools[t].block].args = Whole
    <3>1. \A t \in Started(K) : K.tools[t].block \in DOMAIN K.blocks
      BY <1>3, <1>6 DEF Owned
    <3> QED BY <3>1, <1>5, <1>9, <1>10, <1>11, <1>14 DEF Faithful, Started
  <2> QED BY <2>1, <2>2, <2>3 DEF Faithful
<1>15. Later(K, P) /\ Started(P) = Started(L)
  BY <1>3, <1>10, <1>11, <1>12, <1>13, <1>14 DEF Later, Started
<1> QED BY <1>1, <1>3, <1>12, <1>15, Laters

\* Arguments that are put out at last need not be whole: the client has what
\* the ledger has all the same.
LEMMA AddsOwned ==
    ASSUME NEW L, NEW M, Wired(L), Owned(L), NEW blocks, NEW args,
           Adds(L, M, blocks, "", args)
    PROVE  Wired(M) /\ Owned(M) /\ Shows(L, M)
<1>1. /\ Wired(M) /\ Shows(L, M) /\ Opened(M) = Opened(L) /\ M.tools = L.tools
      /\ M.text = L.text /\ M.thinking = L.thinking
      /\ \A i \in DOMAIN L.blocks : M.blocks[i].type = L.blocks[i].type
  BY DEF Adds
<1> QED BY <1>1, StillOwned

\* flush_tool_arg_buffers puts out what was kept, of tools that were started.
LEMMA FlushesArgs ==
    ASSUME NEW L, Wired(L), Owned(L)
    PROVE  LET M == FlushArgs(L)
           IN  Wired(M) /\ Owned(M) /\ Shows(L, M)
<1> DEFINE kept == {t \in Tools : L.tools[t].buffer # <<>>}
           after == [t \in Tools |-> [L.tools[t] EXCEPT !.buffer = <<>>]]
           N == [L EXCEPT !.tools = after]
           blocks == BlocksOf(L, kept)
           M == DeltaBlocks(N, blocks, "", Empty)
<1>1. FlushArgs(L) = M
  BY DEF FlushArgs
<1>2. \A t \in Tools :
         /\ after[t] \in Tool
         /\ after[t].block = L.tools[t].block /\ after[t].buffer = <<>>
  <2> TAKE t \in Tools
  <2> DEFINE tool == L.tools[t]
  <2>1. tool \in Tool
    BY ToolFields
  <2>2. after[t] = [tool EXCEPT !.buffer = <<>>]
    OBVIOUS
  <2> HIDE DEF tool, after
  <2>3. [tool EXCEPT !.buffer = <<>>] \in Tool
    BY <2>1, WholeArgs DEF Tool
  <2> QED BY <2>1, <2>2, <2>3 DEF Tool, tool
<1>3. after \in [Tools -> Tool] /\ kept \subseteq Started(L)
  BY <1>2 DEF Owned, Started
<1> HIDE DEF after, kept
<1>4. /\ Wired(N) /\ Opened(N) = Opened(L) /\ Shows(L, N)
      /\ N.tools = after /\ N.blocks = L.blocks
      /\ N.text = L.text /\ N.thinking = L.thinking
  BY <1>3, Retooled
<1> HIDE DEF N
<1>5. Started(N) = Started(L) /\ BlocksOf(N, Started(N)) = BlocksOf(L, Started(L))
  BY <1>2, <1>4 DEF Started, BlocksOf
<1>6. Owned(N)
  <2>1. \A t \in Started(N) : /\ N.tools[t].block \in Opened(N)
                              /\ N.blocks[N.tools[t].block].type = "tool_use"
    BY <1>2, <1>4, <1>5 DEF Owned, Started
  <2>2. \A t, u \in Started(N) : N.tools[t].block = N.tools[u].block => t = u
    BY <1>2, <1>4, <1>5 DEF Owned, Started
  <2>3. \A t \in Tools \ Started(N) : N.tools[t].buffer = <<>>
    BY <1>2, <1>4
  <2>4. Opened(N) \subseteq {N.text, N.thinking} \cup BlocksOf(N, Started(N))
    BY <1>4, <1>5 DEF Owned
  <2> QED BY <2>1, <2>2, <2>3, <2>4, <1>4 DEF Owned
<1>7. blocks \in SUBSET Opened(N) /\ Empty \in Seq(Nat)
  BY <1>3, <1>4 DEF Owned, BlocksOf, Empty
<1> HIDE DEF blocks
<1>8. Adds(N, M, blocks, "", Empty)
  BY <1>4, <1>7, Delta
<1> HIDE DEF M
<1>9. Wired(M) /\ Owned(M) /\ Shows(N, M)
  BY <1>4, <1>6, <1>8, AddsOwned
<1> QED BY <1>1, <1>4, <1>9 DEF Shows

\* A repair adds to the calls that are not whole.
LEMMA Repairs ==
    ASSUME NEW L, Wired(L), Owned(L)
    PROVE  LET M == Repaired(L)
           IN  Wired(M) /\ Owned(M) /\ Shows(L, M)
<1> DEFINE blocks == BlocksOf(L, Incomplete(L))
           M == DeltaBlocks(L, blocks, "", Whole)
<1>1. Repaired(L) = M
  BY DEF Repaired
<1>2. blocks \in SUBSET Opened(L)
  BY DEF Owned, BlocksOf, Incomplete
<1> HIDE DEF blocks
<1>3. Adds(L, M, blocks, "", Whole)
  BY <1>2, WholeArgs, Delta
<1> HIDE DEF M
<1> QED BY <1>1, <1>3, AddsOwned

\* close_all_blocks leaves no block open.
LEMMA ClosesAll ==
    ASSUME NEW L, Wired(L), Owned(L)
    PROVE  LET M == CloseAll(L)
           IN  /\ Wired(M) /\ Opened(M) = {} /\ M.text = 0 /\ M.thinking = 0
               /\ Shows(L, M)
<1> DEFINE K == CloseContent(L)
           blocks == BlocksOf(L, Started(L))
           M == StopBlocks(K, blocks)
<1>1. CloseAll(L) = M
  BY DEF CloseAll
<1>2. Content(L, K) /\ K.text = 0 /\ K.thinking = 0
  BY ClosesContent
<1> HIDE DEF K
<1>3. Wired(K) /\ Owned(K) /\ K.tools = L.tools /\ Shows(L, K)
  BY <1>2 DEF Content
<1>4. blocks = BlocksOf(K, Started(K))
  BY <1>3 DEF BlocksOf, Started
<1> HIDE DEF blocks
<1>5. blocks = Opened(K) /\ blocks \in SUBSET Opened(K)
  <2>1. 0 \notin Opened(K)
    BY <1>3, Fields
  <2>2. blocks \subseteq Opened(K)
    BY <1>3, <1>4 DEF Owned, BlocksOf
  <2>3. Opened(K) \subseteq blocks
    BY <2>1, <1>2, <1>3, <1>4 DEF Owned
  <2> QED BY <2>2, <2>3
<1>6. /\ Wired(M) /\ Opened(M) = Opened(K) \ blocks
      /\ M.text = K.text /\ M.thinking = K.thinking /\ Shows(K, M)
  BY <1>3, <1>5, Stopping
<1> HIDE DEF M
<1> QED BY <1>1, <1>2, <1>3, <1>5, <1>6 DEF Shows

\* close_unclosed_blocks leaves no block open.
LEMMA ClosesUnclosed ==
    ASSUME NEW L, Wired(L)
    PROVE  LET M == CloseUnclosed(L)
           IN  Wired(M) /\ Opened(M) = {}
<1> DEFINE blocks == Opened(L)
           M == StopBlocks(L, blocks)
<1>1. blocks \in SUBSET Opened(L)
  OBVIOUS
<1>2. Wired(M) /\ Opened(M) = Opened(L) \ blocks
  BY <1>1, Stopping
<1> QED BY <1>2 DEF CloseUnclosed

\* The message is stopped when all its blocks have been and something shows.
LEMMA Stops ==
    ASSUME NEW L, Wired(L), Opened(L) = {}
    PROVE  LET w == Terminal(L).wire
           IN  /\ w.ended /\ ~w.bad /\ w.open = {}
               /\ ~NeedsVisible(L) => w.visible
<1> DEFINE c == L.wire
           d == Receives(c, "message_stop", {0}, "", <<>>)
<1>1. L \in Ledger /\ c \in Wire
  BY Fields
<1>2. Terminal(L).wire = d
  <2>1. Terminal(L) = [L EXCEPT !.wire = d]
    BY DEF Terminal, EmitMessage, Emit
  <2> HIDE DEF d
  <2> QED BY <2>1, <1>1 DEF Ledger
<1>3. c.begun /\ ~c.ended /\ ~c.bad /\ c.open = {} /\ (~NeedsVisible(L) => c.visible)
  BY DEF Wired
<1> HIDE DEF c
<1>4. d.ended /\ ~d.bad /\ d.open = {} /\ (c.visible => d.visible)
  BY <1>1, <1>3 DEF Receives, Wire
<1> HIDE DEF d
<1> QED BY <1>2, <1>3, <1>4

LEMMA SameWire ==
    ASSUME NEW L \in Ledger
    PROVE  [L EXCEPT !.wire = L.wire] = L
  BY DEF Ledger

LEMMA NewLedgers == NewLedger \in Ledger /\ NewLedger.wire = NothingSent
<1> DEFINE tools == [t \in Tools |-> NewTool]
<1>1. NewTool \in Tool
  BY WholeArgs DEF NewTool, Tool
<1>2. tools \in [Tools -> Tool]
  BY <1>1
<1>3. NothingSent \in Wire /\ <<>> \in Seq(Block) /\ "none" \in Seen
  BY DEF NothingSent, Wire, Seen
<1>4. NewLedger = [blocks |-> <<>>, text |-> 0, thinking |-> 0, shown |-> "none",
                   thought |-> FALSE, tools |-> tools, wire |-> NothingSent]
  BY DEF NewLedger
<1> HIDE DEF tools
<1> QED BY <1>2, <1>3, <1>4 DEF Ledger

\* A message that begins is sound, on a wire that has nothing.
LEMMA Begins ==
    LET L == Begin(NewLedger) IN Sound(L) /\ Begin([NewLedger EXCEPT !.wire = NothingSent]) = L
<1> DEFINE d == Receives(NothingSent, "message_start", {0}, "", <<>>)
           L == Begin(NewLedger)
           tools == [t \in Tools |-> NewTool]
<1>1. /\ d \in Wire /\ d.begun /\ ~d.ended /\ ~d.bad /\ d.seen = {} /\ d.open = {}
      /\ d.whole = {}
  BY DEF Receives, NothingSent, Wire
<1>2. NewTool \in Tool /\ NewTool.block = 0 /\ NewTool.buffer = <<>> /\ ~NewTool.emitted
  BY WholeArgs DEF NewTool, Tool
<1>3. tools \in [Tools -> Tool] /\ \A t \in Tools : tools[t] = NewTool
  BY <1>2
<1>4. L = [NewLedger EXCEPT !.wire = d] /\ [NewLedger EXCEPT !.wire = NothingSent] = NewLedger
  <2>1. NewLedger.wire = NothingSent
    BY DEF NewLedger
  <2>2. [NewLedger EXCEPT !.wire = NothingSent] = NewLedger
    BY NewLedgers, SameWire
  <2>3. L = [NewLedger EXCEPT !.wire = Receives(@, "message_start", {0}, "", <<>>)]
    BY DEF Begin, EmitMessage, Emit
  <2> HIDE DEF L
  <2> QED BY <2>1, <2>2, <2>3
<1> HIDE DEF d, tools, L
<1>5. /\ L \in Ledger /\ L.blocks = <<>> /\ L.text = 0 /\ L.thinking = 0
      /\ L.shown = "none" /\ L.tools = tools /\ L.wire = d
  <2>1. NewLedger = [blocks |-> <<>>, text |-> 0, thinking |-> 0, shown |-> "none",
                     thought |-> FALSE, tools |-> tools, wire |-> NothingSent]
    BY DEF NewLedger, tools
  <2>2. L = [blocks |-> <<>>, text |-> 0, thinking |-> 0, shown |-> "none",
             thought |-> FALSE, tools |-> tools, wire |-> d]
    BY <2>1, <1>4
  <2>3. <<>> \in Seq(Block) /\ "none" \in Seen
    BY DEF Seen
  <2> QED BY <2>2, <2>3, <1>1, <1>3 DEF Ledger
<1>6. DOMAIN L.blocks = {}
  BY <1>5
<1>7. Started(L) = {} /\ Opened(L) = {} /\ NeedsVisible(L)
  BY <1>2, <1>3, <1>5, <1>6 DEF Started, Opened, NeedsVisible, HasTool
<1>8. Wired(L)
  BY <1>1, <1>5, <1>6, <1>7 DEF Wired
<1>9. Owned(L)
  BY <1>2, <1>3, <1>5, <1>7 DEF Owned
<1>10. Faithful(L)
  BY <1>1, <1>2, <1>3, <1>5, <1>6, <1>7 DEF Faithful
<1> QED BY <1>4, <1>8, <1>9, <1>10 DEF Sound, L

\* Sound is what comes of what is sound.
LEMMA LaterSound ==
    ASSUME NEW L, NEW M, Sound(L), Later(L, M)
    PROVE  Sound(M)
  BY DEF Sound, Later

\* What is pushed has been made of the ledger by operations that keep it sound.
LEMMA Pushed ==
    ASSUME ChatInv, Undecided, Undecided', phase' = phase, NEW M, Later(ledger, M),
           NEW now \in BOOLEAN, Push(M, now),
           names' \subseteq Tools, pieces' \in [Tools -> Nat]
    PROVE  ChatInv'
<1>1. Sound(ledger) /\ committed \in BOOLEAN /\ phase \in {"opening", "reading"}
  BY DEF ChatInv, Undecided
<1>2. Sound(M)
  BY <1>1, LaterSound
<1>3. /\ ledger' = M /\ committed' \in BOOLEAN /\ (committed => committed')
      /\ client' = IF committed' THEN M.wire ELSE client
  BY <1>1 DEF Push
<1>4. /\ committed' => client' = ledger'.wire
      /\ ~committed' => client' = NothingSent
  BY <1>3 DEF ChatInv
<1>5. Sound(ledger')
  BY <1>2, <1>3
<1>6. phase' \in {"opening", "reading"}
  BY DEF Undecided
<1> QED BY <1>3, <1>4, <1>5, <1>6 DEF ChatInv

\* One lemma for each action.
LEMMA ThinkingKept ==
    ASSUME ChatInv, NEW now \in BOOLEAN, ReadThinking(now)
    PROVE  ChatInv'
<1> DEFINE K == FlushOpaque(ledger)
           M == EmitThinking(K)
<1>1. Undecided /\ Undecided' /\ phase' = phase
  BY DEF ReadThinking, Chunk, UnchangedByChunk, Undecided
<1>2. Wired(ledger) /\ Owned(ledger)
  BY <1>1 DEF ChatInv, Sound
<1>3. Later(ledger, K)
  BY <1>2, FlushesOpaque
<1> HIDE DEF K
<1>4. Content(K, M)
  BY <1>3, EmitsThinking DEF Later
<1>5. Push(M, now)
  BY DEF ReadThinking, K
<1> HIDE DEF M
<1>6. Later(ledger, M)
  BY <1>3, <1>4, ContentLater, Laters
<1>7. names' \subseteq Tools /\ pieces' \in [Tools -> Nat]
  BY DEF ReadThinking, ChatInv
<1> QED BY <1>1, <1>5, <1>6, <1>7, Pushed

LEMMA TextKept ==
    ASSUME ChatInv, NEW how \in {"blank", "some"}, NEW after, NEW now \in BOOLEAN,
           ReadText(how, after, now)
    PROVE  ChatInv'
<1> DEFINE K == FlushOpaque(ledger)
           M == EmitText(K, how)
           N == IF pendingTool = "call" THEN HeuristicCall(M) ELSE M
<1>1. Undecided /\ Undecided' /\ phase' = phase
  BY DEF ReadText, Chunk, UnchangedByChunk, Undecided
<1>2. Wired(ledger) /\ Owned(ledger)
  BY <1>1 DEF ChatInv, Sound
<1>3. Later(ledger, K)
  BY <1>2, FlushesOpaque
<1>4. Push(N, now)
  BY DEF ReadText
<1> HIDE DEF K
<1>5. Content(K, M)
  BY <1>3, EmitsText DEF Later, Seen
<1> HIDE DEF M
<1>6. Later(ledger, M)
  BY <1>3, <1>5, ContentLater, Laters
<1>7. Later(ledger, N)
  <2>1. CASE pendingTool = "call"
    <3>1. Later(M, HeuristicCall(M))
      BY <1>6, Heuristic DEF Later
    <3> QED BY <2>1, <3>1, <1>6, Laters
  <2>2. CASE pendingTool # "call"
    BY <2>2, <1>6
  <2> QED BY <2>1, <2>2
<1> HIDE DEF N
<1>8. names' \subseteq Tools /\ pieces' \in [Tools -> Nat]
  BY DEF ReadText, ChatInv
<1> QED BY <1>1, <1>4, <1>7, <1>8, Pushed

LEMMA CallKept ==
    ASSUME ChatInv, NEW t \in Tools, NEW name, NEW piece \in BOOLEAN,
           NEW now \in BOOLEAN, ReadCall(t, name, piece, now)
    PROVE  ChatInv'
<1> DEFINE K == FlushOpaque(ledger)
           M == CloseContent(K)
           args == IF piece THEN <<pieces[t] + 1>> ELSE <<>>
           whole == name = "whole"
           tools == {t}
           N == ProcessCalls(M, tools, whole, args)
<1>1. Undecided /\ Undecided' /\ phase' = phase
  BY DEF ReadCall, Chunk, UnchangedByChunk, Undecided
<1>2. Wired(ledger) /\ Owned(ledger) /\ names \subseteq Tools /\ pieces \in [Tools -> Nat]
  BY <1>1 DEF ChatInv, Sound
<1>3. Later(ledger, K)
  BY <1>2, FlushesOpaque
<1>4. Push(N, now)
  BY DEF ReadCall
<1> HIDE DEF K
<1>5. Content(K, M)
  BY <1>3, ClosesContent DEF Later
<1> HIDE DEF M
<1>6. Later(ledger, M)
  BY <1>3, <1>5, ContentLater, Laters
<1>7. args \in Seq(Nat) /\ whole \in BOOLEAN /\ tools \in SUBSET Tools
  <2>1. pieces[t] + 1 \in Nat
    BY <1>2
  <2>2. <<pieces[t] + 1>> \in Seq(Nat)
    BY <2>1
  <2> QED BY <2>2, WholeArgs
<1> HIDE DEF args, whole, tools
<1>8. Later(M, N)
  BY <1>6, <1>7, ProcessesCalls DEF Later
<1> HIDE DEF N
<1>9. Later(ledger, N)
  BY <1>6, <1>8, Laters
<1>10. names' \subseteq Tools /\ pieces' \in [Tools -> Nat]
  <2>1. names' \in {names, names \ {t}, names \cup {t}}
    BY DEF ReadCall
  <2>2. pieces' = IF piece THEN [pieces EXCEPT ![t] = @ + 1] ELSE pieces
    BY DEF ReadCall
  <2> QED BY <2>1, <2>2, <1>2
<1> QED BY <1>1, <1>4, <1>9, <1>10, Pushed

\* What leaves the ledger and the client alone.
LEMMA UndisturbedChat ==
    ASSUME ChatInv, Undecided, phase' \in {"opening", "reading"},
           names' \subseteq Tools, pieces' \in [Tools -> Nat],
           UNCHANGED <<ledger, committed, client>>
    PROVE  ChatInv'
<1>1. Sound(ledger) /\ Sound(ledger')
  BY DEF ChatInv
<1> QED BY <1>1 DEF ChatInv, Undecided

LEMMA ReadKept ==
    ASSUME ChatInv, ReadStream
    PROVE  ChatInv'
<1>1. CASE \E now \in BOOLEAN : ReadThinking(now)
  BY <1>1, ThinkingKept
<1>2. CASE \E now \in BOOLEAN, how \in {"blank", "some"}, after \in {"none", "bullet", "call"} :
              ReadText(how, after, now)
  BY <1>2, TextKept
<1>3. CASE \E now \in BOOLEAN, t \in Tools, name \in {"none", "prefix", "whole"},
              piece \in BOOLEAN : ReadCall(t, name, piece, now)
  BY <1>3, CallKept
<1>4. CASE ReadOpaque \/ ReadFinish
  <2>1. /\ UNCHANGED <<ledger, committed, client, names, pieces, phase>>
        /\ phase = "reading"
    BY <1>4 DEF ReadOpaque, ReadFinish, Chunk, UnchangedByChunk
  <2>2. names \subseteq Tools /\ pieces \in [Tools -> Nat] /\ Undecided
    BY <2>1 DEF ChatInv, Undecided
  <2> QED BY <2>1, <2>2, UndisturbedChat
<1> QED BY <1>1, <1>2, <1>3, <1>4 DEF ReadStream

\* A turn that is completed was closed and has something to show.
LEMMA CompleteKept ==
    ASSUME ChatInv, Complete
    PROVE  ChatInv'
<1> DEFINE L == FlushOpaque(ledger)
           M == IF pendingTool = "call" THEN HeuristicCall(L) ELSE L
           N == FlushNames(M)
           O == IF NeedsVisible(N) THEN EmitText(N, "some") ELSE N
           P == FlushArgs(O)
           Q == CloseAll(P)
<1>1. Undecided /\ names \subseteq Tools /\ Wired(ledger) /\ Owned(ledger)
  BY DEF Complete, Undecided, ChatInv, Sound
<1>2. Push(Terminal(Q), TRUE) /\ phase' = "completed" /\ UNCHANGED ofAttempt
  BY DEF Complete
<1>3. Wired(L) /\ Owned(L)
  BY <1>1, FlushesOpaque DEF Later
<1> HIDE DEF L
<1>4. Wired(M) /\ Owned(M)
  BY <1>3, Heuristic DEF Later
<1> HIDE DEF M
<1>5. Wired(N) /\ Owned(N)
  <2>1. TRUE \in BOOLEAN /\ <<>> \in Seq(Nat) /\ names \in SUBSET Tools
    BY <1>1, WholeArgs
  <2>2. Later(M, ProcessCalls(M, names, TRUE, <<>>))
    <3> DEFINE name == TRUE
               nothing == <<>>
    <3>1. name \in BOOLEAN /\ nothing \in Seq(Nat)
      BY <2>1
    <3> HIDE DEF name, nothing
    <3>2. Later(M, ProcessCalls(M, names, name, nothing))
      BY <1>4, <2>1, <3>1, ProcessesCalls
    <3> QED BY <3>2 DEF name, nothing
  <2> QED BY <2>2 DEF Later, FlushNames
<1> HIDE DEF N
<1>6. Wired(O) /\ Owned(O) /\ ~NeedsVisible(O)
  <2>1. CASE NeedsVisible(N)
    <3>1. "some" \in Seen
      BY DEF Seen
    <3> DEFINE how == "some"
    <3>2. Content(N, EmitText(N, how)) /\ ~NeedsVisible(EmitText(N, how))
      BY <1>5, <3>1, EmitsText
    <3> QED BY <2>1, <3>2 DEF Content
  <2>2. CASE ~NeedsVisible(N)
    BY <1>5, <2>2
  <2> QED BY <2>1, <2>2
<1> HIDE DEF O
<1>7. Wired(P) /\ Owned(P) /\ ~NeedsVisible(P)
  BY <1>6, FlushesArgs DEF Shows
<1> HIDE DEF P
<1>8. Wired(Q) /\ Opened(Q) = {} /\ ~NeedsVisible(Q)
  BY <1>7, ClosesAll DEF Shows
<1> HIDE DEF Q
<1> DEFINE w == Terminal(Q).wire
<1>9. w.ended /\ ~w.bad /\ w.open = {} /\ w.visible
  BY <1>8, Stops
<1>10. client' = w /\ committed' = TRUE
  BY <1>2 DEF Push
<1> HIDE DEF w
<1>11. names' \subseteq Tools /\ pieces' \in [Tools -> Nat]
  BY <1>2 DEF ofAttempt, ChatInv
<1> QED BY <1>2, <1>9, <1>10, <1>11 DEF ChatInv, Undecided

LEMMA OpenKept ==
    ASSUME ChatInv, Open
    PROVE  ChatInv'
<1>1. /\ phase = "opening" /\ phase' = "reading"
      /\ UNCHANGED <<ledger, names, pieces, committed, client>>
  BY DEF Open, ofAttempt
<1>2. names \subseteq Tools /\ pieces \in [Tools -> Nat] /\ Undecided
  BY <1>1 DEF ChatInv, Undecided
<1> QED BY <1>1, <1>2, UndisturbedChat

\* Another attempt begins with nothing sent.
LEMMA RetryKept ==
    ASSUME ChatInv, Undecided, NEW opened, EarlyRetry(opened)
    PROVE  ChatInv'
<1>1. /\ ~committed /\ committed' = FALSE /\ phase' = "opening" /\ client' = client
      /\ names' = {} /\ pieces' = [t \in Tools |-> 0]
      /\ ledger' = Begin([NewLedger EXCEPT !.wire = client])
  BY DEF EarlyRetry, RetriesEarly, ResetReading
<1>2. client = NothingSent
  BY <1>1 DEF ChatInv
<1>3. ledger' = Begin(NewLedger)
  BY <1>1, <1>2, Begins
<1>4. Sound(ledger')
  BY <1>3, Begins
<1>5. pieces' \in [Tools -> Nat]
  BY <1>1
<1> QED BY <1>1, <1>2, <1>4, <1>5 DEF ChatInv, Undecided

\* What ends a turn that was recovered.
LEMMA FinishKept ==
    ASSUME ChatInv, NEW L, Wired(L), Owned(L), ~NeedsVisible(L), FinishRecovery(L)
    PROVE  ChatInv'
<1> DEFINE M == CloseAll(L)
           N == FlushOpaque(M)
           w == Terminal(N).wire
<1>1. /\ committed' = TRUE /\ client' = w /\ phase' = "completed"
      /\ UNCHANGED <<names, pieces>>
  BY DEF FinishRecovery, ofAttempt
<1>2. Wired(M) /\ Opened(M) = {} /\ M.text = 0 /\ M.thinking = 0 /\ ~NeedsVisible(M)
  BY ClosesAll DEF Shows
<1> HIDE DEF M
<1>3. Wired(N) /\ Opened(N) = {} /\ ~NeedsVisible(N)
  BY <1>2, FlushesClosed DEF Shows
<1> HIDE DEF N
<1>4. w.ended /\ ~w.bad /\ w.open = {} /\ w.visible
  BY <1>3, Stops
<1> HIDE DEF w
<1> QED BY <1>1, <1>4 DEF ChatInv, Undecided

LEMMA RepairKept ==
    ASSUME ChatInv, Undecided, Repair
    PROVE  ChatInv'
<1> DEFINE M == Repaired(ledger)
<1>1. Wired(ledger) /\ Owned(ledger)
  BY DEF ChatInv, Sound
<1>2. HasTool(ledger) /\ FinishRecovery(M)
  BY DEF Repair
<1>3. Wired(M) /\ Owned(M) /\ ~NeedsVisible(M)
  <2>1. ~NeedsVisible(ledger)
    BY <1>2 DEF NeedsVisible
  <2> QED BY <2>1, <1>1, Repairs DEF Shows
<1> HIDE DEF M
<1> QED BY <1>2, <1>3, FinishKept

LEMMA ContinueKept ==
    ASSUME ChatInv, Undecided, NEW thinking \in BOOLEAN,
           NEW text \in {"none", "blank", "some"}, NEW calls \in SUBSET Tools,
           Continue(thinking, text, calls)
    PROVE  ChatInv'
<1> DEFINE L == ledger
           M == IF thinking THEN EmitThinking(L) ELSE L
           N == IF text = "none" THEN M ELSE EmitText(M, text)
           O == CloseContent(N)
           P == ProcessCalls(O, calls, TRUE, Whole)
           Q == IF calls = {} THEN N ELSE P
<1>1. Wired(L) /\ Owned(L)
  BY DEF ChatInv, Sound
<1>2. /\ ~HasTool(L) /\ FinishRecovery(Q)
      /\ NeedsVisible(L) => text = "some" \/ calls # {}
  BY DEF Continue, Continued
<1>3. Started(L) = {}
  BY <1>1, <1>2, Fields DEF Owned, HasTool
<1> HIDE DEF L
<1>4. Wired(M) /\ Owned(M) /\ M.tools = L.tools /\ Shows(L, M)
  BY <1>1, EmitsThinking DEF Content, Shows
<1> HIDE DEF M
<1>5. /\ Wired(N) /\ Owned(N) /\ N.tools = L.tools /\ Shows(L, N)
      /\ text = "some" => ~NeedsVisible(N)
  <2>1. CASE text = "none"
    BY <2>1, <1>4
  <2>2. CASE text # "none"
    <3>1. /\ Content(M, EmitText(M, text))
          /\ text = "some" => ~NeedsVisible(EmitText(M, text))
      BY <1>4, EmitsText DEF Seen
    <3> QED BY <2>2, <3>1, <1>4 DEF Content, Shows
  <2> QED BY <2>1, <2>2
<1> HIDE DEF N
<1>6. Wired(O) /\ Owned(O) /\ Started(O) = {} /\ Shows(L, O)
  <2>1. Content(N, O)
    BY <1>5, ClosesContent
  <2> QED BY <2>1, <1>3, <1>5 DEF Content, Shows, Started
<1> HIDE DEF O
<1>7. Wired(P) /\ Owned(P) /\ (calls # {} => ~NeedsVisible(P))
  <2> DEFINE name == TRUE
  <2>1. name \in BOOLEAN /\ name
    OBVIOUS
  <2>2. P = ProcessCalls(O, calls, name, Whole)
    OBVIOUS
  <2> HIDE DEF name, P
  <2>3. Later(O, P) /\ (calls # {} => ~NeedsVisible(P))
    BY <1>6, <2>1, <2>2, WholeArgs, ProcessesCalls
  <2> QED BY <2>3 DEF Later
<1> HIDE DEF P
<1>8. Wired(Q) /\ Owned(Q) /\ ~NeedsVisible(Q)
  BY <1>2, <1>5, <1>7 DEF Shows
<1> HIDE DEF Q
<1> QED BY <1>2, <1>8, FinishKept

\* An error is raised when nothing was sent, or all that was has been closed.
LEMMA RaiseKept ==
    ASSUME ChatInv, Undecided, Raise
    PROVE  ChatInv'
<1>1. phase' = "failed" /\ UNCHANGED <<names, pieces>>
  BY DEF Raise, ofAttempt
<1>2. CASE committed \/ Salvageable(ledger)
  <2> DEFINE K == FlushOpaque(ledger)
             M == CloseUnclosed(K)
  <2>1. client' = M.wire /\ committed' = TRUE
    BY <1>2 DEF Raise
  <2>2. Wired(K)
    BY FlushesOpaque DEF ChatInv, Sound, Later
  <2> HIDE DEF K
  <2>3. Wired(M) /\ Opened(M) = {}
    BY <2>2, ClosesUnclosed
  <2>4. ~M.wire.ended /\ ~M.wire.bad /\ M.wire.open = {}
    BY <2>3 DEF Wired
  <2> HIDE DEF M
  <2> QED BY <1>1, <2>1, <2>4 DEF ChatInv, Undecided
<1>3. CASE ~(committed \/ Salvageable(ledger))
  <2>1. client' = client /\ committed' = committed /\ ~committed
    BY <1>3 DEF Raise
  <2>2. client = NothingSent
    BY <2>1 DEF ChatInv
  <2>3. ~client.ended /\ ~client.bad /\ client.open = {}
    BY <2>2 DEF NothingSent
  <2> QED BY <1>1, <2>1, <2>2, <2>3 DEF ChatInv, Undecided
<1> QED BY <1>2, <1>3

LEMMA FailsKept ==
    ASSUME ChatInv, Undecided, NEW retryable \in BOOLEAN, NEW opened, Fails(retryable, opened)
    PROVE  ChatInv'
<1>1. CASE EarlyRetry(opened)
  BY <1>1, RetryKept
<1>2. CASE Repair
  BY <1>2, RepairKept
<1>3. CASE \E thinking \in BOOLEAN, text \in {"none", "blank", "some"}, calls \in SUBSET Tools :
              Continue(thinking, text, calls)
  BY <1>3, ContinueKept
<1>4. CASE FinalError(retryable, opened)
  BY <1>4, RaiseKept DEF FinalError
<1> QED BY <1>1, <1>2, <1>3, <1>4 DEF Fails

(***************************************************************************)
(* Whatever arrives, in whichever order, and wherever it breaks off: the   *)
(* ledger is sound until the turn is decided, and the client has it.       *)
(***************************************************************************)
THEOREM ChatInvariant == ChatSpec => []ChatInv
<1>1. ASSUME ChatInit PROVE ChatInv
  <2>1. Sound(ledger)
    BY <1>1, Begins DEF ChatInit
  <2> QED BY <1>1, <2>1 DEF ChatInit, ChatInv, Undecided
<1>2. ASSUME ChatInv, [ChatNext]_chatVars PROVE ChatInv'
  <2>1. CASE ReadStream
    BY <1>2, <2>1, ReadKept
  <2>2. CASE Open
    BY <1>2, <2>2, OpenKept
  <2>3. CASE Complete
    BY <1>2, <2>3, CompleteKept
  <2>4. CASE \E retryable \in BOOLEAN : OpenFails(retryable) \/ StreamFails(retryable)
    BY <1>2, <2>4, FailsKept DEF OpenFails, StreamFails, Undecided
  <2>5. CASE ChatDone \/ UNCHANGED chatVars
    <3>1. UNCHANGED <<phase, ledger, names, pieces, committed, client>>
      BY <2>5 DEF ChatDone, chatVars, ofAttempt
    <3>2. Undecided /\ Sound(ledger) => Sound(ledger')
      BY <3>1
    <3> QED BY <1>2, <3>1, <3>2 DEF ChatInv, Undecided
  <2> QED BY <1>2, <2>1, <2>2, <2>3, <2>4, <2>5 DEF ChatNext, Progress
<1> QED BY <1>1, <1>2, PTL DEF ChatSpec

(***************************************************************************)
(* ContractKept of ChatStream: the events an answer was turned into keep   *)
(* the protocol of core/anthropic/stream_contracts.py, for every number of *)
(* tools, attempts and chunks.                                             *)
(***************************************************************************)
THEOREM ContractKeptHolds == ChatSpec => []ContractKept
<1>1. ASSUME ChatInv PROVE ContractKept
  <2>1. CASE Undecided
    <3>1. Wired(ledger) /\ Faithful(ledger)
      BY <1>1, <2>1 DEF ChatInv, Sound
    <3>2. /\ ~ledger.wire.bad /\ ledger.wire.seen = DOMAIN ledger.blocks
          /\ ledger.wire.open = {i \in ledger.wire.seen : ledger.blocks[i].open}
          /\ ledger.wire.whole = {i \in ledger.wire.seen : ledger.blocks[i].args = Whole}
      BY <3>1 DEF Wired, Faithful, Opened
    <3>3. committed => client = ledger.wire
      BY <1>1, <2>1 DEF ChatInv
    <3>4. ~committed => ~client.begun /\ ~client.bad
      BY <1>1 DEF ChatInv, NothingSent
    <3> QED BY <2>1, <3>2, <3>3, <3>4 DEF ContractKept, LedgerDelivered, Undecided
  <2>2. CASE ~Undecided
    <3>1. ~committed => ~client.begun
      BY <1>1 DEF ChatInv, NothingSent
    <3> QED BY <1>1, <2>2, <3>1 DEF ChatInv, ContractKept, LedgerDelivered, Undecided
  <2> QED BY <2>1, <2>2
<1> QED BY <1>1, ChatInvariant, PTL
-----------------------------------------------------------------------------
\* A plan is made in one step, of the configuration and the request.
RouteInv ==
    /\ settings \in Settings
    /\ plan # None => asked \in Asks(settings) /\ plan = PlanFor(settings, asked)

IsCandidate(c) == c = [ref |-> c.ref, reasoning |-> c.reasoning, images |-> c.images]

Fitting(c, r) == c.reasoning # Off => Fits(c.reasoning, r.max)

\* With an image route, what is left of the images is its provider's to see.
Sighted(s, c) ==
    s.image # None /\ c.images # {} => "current" \in c.images /\ c.ref[1] = s.image[1]

LEMMA PolicyFits ==
    ASSUME NEW r, NEW preference
    PROVE  Policy(r, preference) # Off => Fits(Policy(r, preference), r.max)
<1>1. DEFINE policy == CASE preference = "off" -> Off
                         [] preference = "client" -> ClientPolicy(r.thinking)
                         [] OTHER -> On(EffortBudget[preference])
<1>2. Policy(r, preference) = IF Fits(policy, r.max) THEN policy ELSE Off
  BY DEF Policy
<1> HIDE DEF policy
<1>3. QED BY <1>2

LEMMA CandidateMade ==
    ASSUME NEW s, NEW r, NEW name, NEW images
    PROVE  /\ IsCandidate(Candidate(s, r, name, images))
           /\ Fitting(Candidate(s, r, name, images), r)
           /\ Candidate(s, r, name, images).images = images
           /\ Candidate(s, r, name, images).ref = RouteOf(s, name).ref
           /\ Candidate(s, r, name, images).reasoning
                = Policy(r, RouteOf(s, name).preference)
  BY PolicyFits DEF Candidate, IsCandidate, Fitting

\* A configured model that is asked for by its name is what is asked.
LEMMA TargetFound ==
    ASSUME NEW s, NEW target \in Refs
    PROVE  RouteOf(s, RefName(target)).ref = target
  BY DEF RouteOf, Direct, RefName, Refs

LEMMA RerouteKeeps ==
    ASSUME NEW s, NEW r, NEW c, NEW target \in Refs, IsCandidate(c), Fitting(c, r)
    PROVE  /\ IsCandidate(Reroute(s, r, c, target))
           /\ Fitting(Reroute(s, r, c, target), r)
           /\ Reroute(s, r, c, target).ref = target
           /\ Reroute(s, r, c, target).images = c.images
  BY CandidateMade, TargetFound DEF Reroute

LEMMA ForClassifierKeeps ==
    ASSUME NEW s, NEW r, NEW c, s.classifier \in Refs \cup {None}, IsCandidate(c),
           Fitting(c, r)
    PROVE  /\ IsCandidate(ForClassifier(s, r, c))
           /\ Fitting(ForClassifier(s, r, c), r)
           /\ ForClassifier(s, r, c).images = c.images
           /\ ~Classifier(r) => ForClassifier(s, r, c) = c
<1>1. CASE s.classifier # None /\ Classifier(r)
  BY <1>1, RerouteKeeps DEF ForClassifier
<1>2. CASE ~(s.classifier # None /\ Classifier(r))
  BY <1>2 DEF ForClassifier
<1>3. QED BY <1>1, <1>2

LEMMA ForImagesKeeps ==
    ASSUME NEW s, NEW r, NEW c, s.image \in Refs \cup {None}, IsCandidate(c),
           Fitting(c, r)
    PROVE  /\ IsCandidate(ForImages(s, r, c))
           /\ Fitting(ForImages(s, r, c), r)
           /\ Sighted(s, ForImages(s, r, c))
           /\ s.image = None => ForImages(s, r, c) = c
<1>1. CASE s.image = None
  BY <1>1 DEF ForImages, Sighted
<1>2. CASE s.image # None /\ CurrentImage(c)
  BY <1>2, RerouteKeeps DEF ForImages, Sighted, CurrentImage
<1>3. CASE s.image # None /\ ~CurrentImage(c)
  BY <1>3 DEF ForImages, Sighted, Stripped, IsCandidate, Fitting
<1>4. QED BY <1>1, <1>2, <1>3

LEMMA PoliciesKeep ==
    ASSUME NEW s, NEW r, NEW c, IsCandidate(c), Fitting(c, r),
           {s.classifier, s.image} \subseteq Refs \cup {None}
    PROVE  /\ IsCandidate(Policies(s, r, c))
           /\ Fitting(Policies(s, r, c), r)
           /\ Sighted(s, Policies(s, r, c))
           /\ s.image = None /\ ~Classifier(r) => Policies(s, r, c) = c
<1> DEFINE e == ForClassifier(s, r, c)
           d == ForImages(s, r, e)
<1>1. IsCandidate(e) /\ Fitting(e, r) /\ (~Classifier(r) => e = c)
  BY ForClassifierKeeps
<1>2. /\ IsCandidate(d) /\ Fitting(d, r) /\ Sighted(s, d)
      /\ s.image = None => d = e
  BY <1>1, ForImagesKeeps
<1>3. Policies(s, r, c) = IF Classifier(r) THEN [d EXCEPT !.reasoning = Off] ELSE d
  BY DEF Policies
<1> HIDE DEF e, d
<1>4. CASE Classifier(r)
  <2>1. Policies(s, r, c) = [ref |-> d.ref, reasoning |-> Off, images |-> d.images]
    BY <1>2, <1>3, <1>4 DEF IsCandidate
  <2>2. QED BY <2>1, <1>2, <1>4 DEF IsCandidate, Fitting, Sighted
<1>5. CASE ~Classifier(r)
  BY <1>1, <1>2, <1>3, <1>5
<1>6. QED BY <1>4, <1>5

\* The primary of a request, and what it is when nothing reroutes it
Primary(s, r) == Policies(s, r, Candidate(s, r, r.name, r.images))

LEMMA PrimaryMade ==
    ASSUME NEW s, NEW r, {s.classifier, s.image} \subseteq Refs \cup {None}
    PROVE  /\ Fitting(Primary(s, r), r)
           /\ Sighted(s, Primary(s, r))
           /\ s.image = None /\ ~Classifier(r)
                => Primary(s, r) = Candidate(s, r, r.name, r.images)
  BY CandidateMade, PoliciesKeep DEF Primary

\* A fallback gets what the primary has, if it can see it.
LEMMA FallbackMade ==
    ASSUME NEW s, NEW r, NEW primary, Sighted(s, primary),
           NEW i \in DOMAIN Fallbacks(s, r, primary)
    PROVE  /\ Fitting(Fallbacks(s, r, primary)[i], r)
           /\ Sighted(s, Fallbacks(s, r, primary)[i])
<1>1. /\ Fallbacks(s, r, primary)[i] = Candidate(s, r, s.fallbacks[i], primary.images)
      /\ \/ primary.images = {}
         \/ s.image = None
         \/ RouteOf(s, s.fallbacks[i]).ref[1] = s.image[1]
  BY DEF Fallbacks
<1>2. QED BY <1>1, CandidateMade DEF Sighted

\* Whatever a request is planned to become, its candidates are these.
LEMMA Planning ==
    ASSUME NEW s, NEW r, NEW i \in DOMAIN PlanFor(s, r).candidates
    PROVE  \/ i = 0 /\ PlanFor(s, r).candidates[i] = Primary(s, r)
           \/ /\ i \in DOMAIN Fallbacks(s, r, Primary(s, r))
              /\ PlanFor(s, r).candidates[i] = Fallbacks(s, r, Primary(s, r))[i]
<1>1. DOMAIN NoCandidates = {}
  BY DEF NoCandidates
<1>2. CASE Unsupported(s, r) \/ r.tools = "forced" \/ Optimized(s, r)
  BY <1>1, <1>2 DEF PlanFor
<1>3. CASE ~(Unsupported(s, r) \/ r.tools = "forced" \/ Optimized(s, r))
  <2>1. PlanFor(s, r).candidates =
          [k \in {0} \cup DOMAIN Fallbacks(s, r, Primary(s, r)) |->
             IF k = 0 THEN Primary(s, r) ELSE Fallbacks(s, r, Primary(s, r))[k]]
    BY <1>3 DEF PlanFor, Primary
  <2>2. QED BY <2>1
<1>4. QED BY <1>2, <1>3

LEMMA PlannedWell ==
    ASSUME NEW s \in Settings, NEW r, NEW i \in DOMAIN PlanFor(s, r).candidates
    PROVE  /\ Fitting(PlanFor(s, r).candidates[i], r)
           /\ Sighted(s, PlanFor(s, r).candidates[i])
<1>1. Fitting(Primary(s, r), r) /\ Sighted(s, Primary(s, r))
  BY PrimaryMade, RoutingAssumption
<1>2. QED BY <1>1, Planning, FallbackMade

LEMMA SeenByVisionFollows == RouteInv => SeenByVision
<1> SUFFICES ASSUME RouteInv, settings.image # None, NEW c \in Candidates, c.images # {}
             PROVE  "current" \in c.images /\ c.ref[1] = settings.image[1]
  BY DEF SeenByVision
<1>1. PICK i \in DOMAIN plan.candidates : plan # None /\ c = plan.candidates[i]
  BY DEF Candidates
<1>2. plan = PlanFor(settings, asked) /\ settings \in Settings
  BY <1>1 DEF RouteInv
<1>3. Sighted(settings, c)
  BY <1>1, <1>2, PlannedWell
<1>4. QED BY <1>3 DEF Sighted

LEMMA ThinkingFitsFollows == RouteInv => ThinkingFits
<1> SUFFICES ASSUME RouteInv, NEW c \in Candidates
             PROVE  c.reasoning # Off => Fits(c.reasoning, asked.max)
  BY DEF ThinkingFits
<1>1. PICK i \in DOMAIN plan.candidates : plan # None /\ c = plan.candidates[i]
  BY DEF Candidates
<1>2. plan = PlanFor(settings, asked) /\ settings \in Settings
  BY <1>1 DEF RouteInv
<1>3. QED BY <1>1, <1>2, PlannedWell DEF Fitting

\* What the catalog advertises, form by form
LEMMA Advertised ==
    ASSUME NEW s \in Settings, NEW name \in Catalog(s)
    PROVE  \/ /\ name.form = "bare" /\ name.tier
              /\ name.oneM => s.tier # None /\ s.tier \in s.million
           \/ /\ name.form \in {"gateway", "no_thinking"}
              /\ name.ref \in Refs
              /\ name.oneM => name.ref \in s.million
<1>1. CASE name = Bare(TRUE)
  BY <1>1 DEF Bare
<1>2. CASE name = OneM(Bare(TRUE)) /\ s.tier # None /\ s.tier \in s.million
  BY <1>2 DEF Bare, OneM
<1>3. ASSUME NEW ref \in Configured(s) \cup s.discovered, name \in Variants(s, ref)
      PROVE  /\ name.form \in {"gateway", "no_thinking"}
             /\ name.ref \in Refs
             /\ name.oneM => name.ref \in s.million
  <2>1. ref \in Refs
    BY <1>3, RoutingAssumption DEF Configured
  <2>2. name \in {Gateway(ref), NoThinking(ref)} \/ (name = OneM(Gateway(ref)) /\ ref \in s.million)
    BY <1>3 DEF Variants
  <2>3. QED BY <2>1, <2>2 DEF Gateway, NoThinking, OneM, RefName
<1>4. \/ name = Bare(TRUE)
      \/ name = OneM(Bare(TRUE)) /\ s.tier # None /\ s.tier \in s.million
      \/ \E ref \in Configured(s) \cup s.discovered : name \in Variants(s, ref)
  <2> DEFINE offered == {Variants(s, ref) : ref \in Configured(s) \cup s.discovered}
             large == IF s.tier # None /\ s.tier \in s.million
                      THEN {OneM(Bare(TRUE))} ELSE {}
  <2>1. name \in (UNION offered) \cup large \cup {Bare(TRUE)}
    BY DEF Catalog
  <2>2. CASE name \in UNION offered
    <3>1. PICK variants \in offered : name \in variants
      BY <2>2
    <3>2. QED BY <3>1
  <2>3. CASE name \in large
    BY <2>3
  <2>4. QED BY <2>1, <2>2, <2>3
<1>5. QED BY <1>1, <1>2, <1>3, <1>4

LEMMA OffIsOff == ASSUME NEW r PROVE Policy(r, "off") = Off
  BY DEF Policy

LEMMA CatalogIsHonestFollows == RouteInv => CatalogIsHonest
<1> SUFFICES ASSUME RouteInv, plan # None, asked.name \in Catalog(settings),
                    0 \in DOMAIN plan.candidates, settings.image = None,
                    ~Classifier(asked)
             PROVE  LET first == plan.candidates[0] IN
                    /\ asked.name.form # "bare" => first.ref = asked.name.ref
                    /\ asked.name.oneM => first.ref \in settings.million
                    /\ asked.name.form = "no_thinking" => first.reasoning = Off
  BY DEF CatalogIsHonest
<1> DEFINE route == RouteOf(settings, asked.name)
<1>1. plan = PlanFor(settings, asked) /\ settings \in Settings
  BY DEF RouteInv
<1>2. plan.candidates[0] = Primary(settings, asked)
  <2>1. CASE 0 \notin DOMAIN Fallbacks(settings, asked, Primary(settings, asked))
    BY <2>1, <1>1, Planning
  <2>2. CASE 0 \in DOMAIN Fallbacks(settings, asked, Primary(settings, asked))
    BY <2>2, <1>1, Planning DEF PlanFor, Primary, NoCandidates
  <2>3. QED BY <2>1, <2>2
<1>3. Primary(settings, asked) = Candidate(settings, asked, asked.name, asked.images)
  BY <1>1, PrimaryMade, RoutingAssumption
<1>4. /\ plan.candidates[0].ref = route.ref
      /\ plan.candidates[0].reasoning = Policy(asked, route.preference)
  BY <1>2, <1>3, CandidateMade
<1>5. CASE asked.name.form = "bare" /\ asked.name.tier
           /\ (asked.name.oneM => settings.tier # None /\ settings.tier \in settings.million)
  BY <1>4, <1>5 DEF RouteOf, Direct
<1>6. CASE asked.name.form \in {"gateway", "no_thinking"} /\ asked.name.ref \in Refs
           /\ (asked.name.oneM => asked.name.ref \in settings.million)
  <2>1. Direct(asked.name)
    BY <1>6 DEF Direct, Refs
  <2>2. /\ route.ref = asked.name.ref
        /\ asked.name.form = "no_thinking" => route.preference = "off"
    BY <2>1 DEF RouteOf
  <2>3. QED BY <1>4, <1>6, <2>2, OffIsOff
<1>7. QED BY <1>1, <1>5, <1>6, Advertised

(***************************************************************************)
(* For every configuration and request: an image is seen by the model that *)
(* can see it and by no other, no model is asked to think more than its    *)
(* answer may be long, and an advertised model is the one that is asked    *)
(* (api/handlers/messages.py, application/routing.py, reasoning.py).       *)
(***************************************************************************)
THEOREM RoutedHolds == RouteSpec => []Routed
<1>1. RouteInit => RouteInv
  BY DEF RouteInit, RouteInv
<1>2. RouteInv /\ [RouteNext]_routingVars => RouteInv'
  <2> SUFFICES ASSUME RouteInv, [RouteNext]_routingVars PROVE RouteInv'
    OBVIOUS
  <2>1. CASE Ask
    BY <2>1 DEF Ask, RouteInv
  <2>2. CASE UNCHANGED routingVars
    BY <2>2 DEF routingVars, RouteInv
  <2>3. QED BY <2>1, <2>2 DEF RouteNext, Planned
<1>3. RouteInv => Routed
  BY SeenByVisionFollows, ThinkingFitsFollows, CatalogIsHonestFollows DEF Routed
<1>4. QED BY <1>1, <1>2, <1>3, PTL DEF RouteSpec
=============================================================================
