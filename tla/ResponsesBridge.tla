-------------------------- MODULE ResponsesBridge --------------------------
(***************************************************************************)
(* An answer of the Codex backend, an OpenAI Responses stream, on its way  *)
(* to a client: the attempts of the provider                               *)
(* (providers/openai_codex/provider.py), the adapter that makes Anthropic  *)
(* events of it (core/openai_responses/provider_stream.py, on the ledger   *)
(* of core/anthropic/streaming/ledger.py) and, for a Responses client, the *)
(* assembler that makes a Responses stream of these again                  *)
(* (core/openai_responses/stream.py, streaming/).                          *)
(*                                                                         *)
(* The arguments of a call are the pieces 1 and 2, whole only as <<1, 2>>. *)
(* Both adapters take the events one by one, so what the clients were sent *)
(* is kept with the blocks; it is theirs once the attempt is committed.    *)
(***************************************************************************)
EXTENDS Naturals, Sequences

CONSTANTS
    ItemKinds,      \* "message", "reasoning", "function", "custom"
    MaxItems, MaxAttempts,
    MaxBlocks       \* blocks when a delta comes

VARIABLES
    phase,          \* "opening", "reading", "over", "done" or "failed"
    attempts,       \* how many are left
    renewed,        \* authentication_recovered
    items,          \* the upstream's items, in this attempt
    upstream,       \* its terminal event: "", "completed" or "incomplete"
    bridge,         \* the ledger, the assembler, and what the clients were sent
    committed

bridgeVars == <<phase, attempts, renewed, items, upstream, bridge, committed>>

Whole == <<1, 2>>
Calls == {"function", "custom"}
-----------------------------------------------------------------------------
(* A Responses client, told of slots. *)
Untold == [created |-> FALSE, slots |-> <<>>, ended |-> "", bad |-> FALSE]
Awaited(c) == {i \in DOMAIN c.slots : ~c.slots[i].done}

Hears(c, ok) == [c EXCEPT !.bad = c.bad \/ ~ok \/ ~c.created \/ c.ended # ""]
HearsAdded(c, kind) ==
    [Hears(c, TRUE) EXCEPT
        !.slots = Append(c.slots, [kind |-> kind, done |-> FALSE, input |-> <<>>])]
HearsDelta(c, i) == Hears(c, i \in Awaited(c))
HearsDone(c, done, blocks) ==
    IF done = {} THEN c
    ELSE [Hears(c, done \subseteq Awaited(c)) EXCEPT
            !.slots = [i \in DOMAIN c.slots |->
                        IF i \in done
                        THEN [c.slots[i] EXCEPT !.done = TRUE, !.input = blocks[i].args]
                        ELSE c.slots[i]]]
HearsEnd(c, how) == [Hears(c, TRUE) EXCEPT !.ended = how]
-----------------------------------------------------------------------------
(* The assembler: a slot for each block, in their order. Several blocks at *)
(* once are stopped, or completed, one after another; what is done to one  *)
(* says nothing of the others.                                             *)
\* Mutant of InvalidCalls: the error is not kept.
InvalidCallsForgotten(b, xs) == b

(* _fail_invalid_function_call *)
InvalidCalls(b, xs) == [b EXCEPT !.provisional = b.provisional \/ xs # {}]

Invalid(block) == block.kind = "function" /\ block.args \notin {<<>>, Whole}

(* complete_block *)
CompleteBlocks(b, xs) ==
    LET invalid == {i \in xs : Invalid(b.blocks[i])} IN
    [InvalidCalls(b, invalid) EXCEPT
        !.active = b.active \ xs,
        !.client = HearsDone(b.client, xs \ invalid, b.blocks)]

(* _flush_active_blocks *)
Flush(b) == CompleteBlocks(b, b.active)

(* _finish_failed_response *)
FailResponse(b) == [b EXCEPT !.client = HearsEnd(b.client, "failed")]

(* finish_response *)
FinishResponse(b) ==
    LET c == Flush(b) IN
    IF c.provisional THEN FailResponse(c)
    ELSE [c EXCEPT !.client = HearsEnd(c.client,
            IF c.reason = "max_tokens" THEN "incomplete" ELSE "completed")]

(* fail_execution: nothing, after the end. *)
FailExecution(b) == IF b.client.ended # "" THEN b ELSE FailResponse(Flush(b))
-----------------------------------------------------------------------------
(* The ledger's events, each as the assembler takes it. *)
Open(b) == {i \in DOMAIN b.blocks : b.blocks[i].open}

StartBlock(b, kind) ==
    [b EXCEPT !.blocks = Append(b.blocks, [kind |-> kind, open |-> TRUE, args |-> <<>>]),
              !.active = b.active \cup {Len(b.blocks) + 1},
              !.client = HearsAdded(b.client, kind)]

TextDelta(b, i) ==
    [b EXCEPT !.bad = b.bad \/ i \notin Open(b), !.client = HearsDelta(b.client, i)]

(* The arguments are put together, and given when the block is complete.   *)
ToolDelta(b, i, args) ==
    [b EXCEPT !.bad = b.bad \/ i \notin Open(b),
              !.blocks[i].args = b.blocks[i].args \o args]

StopBlocks(b, xs) ==
    LET c == [b EXCEPT !.bad = b.bad \/ ~(xs \subseteq Open(b)),
                       !.blocks = [i \in DOMAIN b.blocks |->
                            IF i \in xs THEN [b.blocks[i] EXCEPT !.open = FALSE]
                            ELSE b.blocks[i]]]
    IN  CompleteBlocks(c, xs \cap b.active)
StopBlock(b, i) == StopBlocks(b, {i})

CloseThinking(b) ==
    IF b.thinking = 0 THEN b ELSE [StopBlock(b, b.thinking) EXCEPT !.thinking = 0]
CloseText(b) ==
    IF b.text = 0 THEN b ELSE [StopBlock(b, b.text) EXCEPT !.text = 0]
CloseContent(b) == CloseText(CloseThinking(b))

EnsureThinking(b) ==
    LET c == CloseText(b) IN
    IF c.thinking # 0 THEN c
    ELSE [StartBlock(c, "reasoning") EXCEPT !.thinking = Len(c.blocks) + 1]
EnsureText(b) ==
    LET c == CloseThinking(b) IN
    IF c.text # 0 THEN c
    ELSE [StartBlock(c, "message") EXCEPT !.text = Len(c.blocks) + 1]

EmitThinking(b) == LET c == EnsureThinking(b) IN TextDelta(c, c.thinking)
EmitText(b) ==
    LET c == EnsureText(b) IN [TextDelta(c, c.text) EXCEPT !.visible = TRUE]

HasCall(b) == \E i \in DOMAIN b.blocks : b.blocks[i].kind \in Calls

(* ensure_visible_content *)
Visible(b) == IF b.visible \/ HasCall(b) THEN b ELSE EmitText(b)

(* close_all_blocks: what is open besides content are calls not done.      *)
CloseAll(b) ==
    LET c == CloseContent(b) IN StopBlocks(c, Open(c))

(* close_unclosed_blocks *)
CloseUnclosed(b) == StopBlocks(b, Open(b))

(* message_delta, message_stop: a call is the reason, whatever was given.  *)
Terminal(b, reason) ==
    FinishResponse([b EXCEPT !.reason = IF HasCall(b) THEN "tool_use" ELSE reason,
                             !.stopped = TRUE])
-----------------------------------------------------------------------------
(* A new stream: message_start makes the assembler begin its response.     *)
NewBridge ==
    [blocks |-> <<>>, text |-> 0, thinking |-> 0, visible |-> FALSE, active |-> {},
     reason |-> "", provisional |-> FALSE, stopped |-> FALSE, error |-> FALSE,
     bad |-> FALSE, client |-> [Untold EXCEPT !.created = TRUE]]

NewAttempt ==
    /\ phase' = "opening"
    /\ items' = <<>> /\ upstream' = "" /\ bridge' = NewBridge

(* What is emitted passes the holdback buffer, which may open now.         *)
Push(b) == bridge' = b /\ \E now \in BOOLEAN : committed' = (committed \/ now)

Feeding == phase = "reading" /\ upstream = ""
SameAttempt == UNCHANGED <<phase, attempts, renewed>>

NewItem(kind) == [kind |-> kind, sent |-> 0, done |-> FALSE, block |-> 0]

(* _item_added: nothing is sent. *)
ItemAdded ==
    /\ Feeding /\ Len(items) < MaxItems
    /\ \E kind \in ItemKinds : items' = Append(items, NewItem(kind))
    /\ UNCHANGED <<upstream, bridge, committed>> /\ SameAttempt

(* _reasoning_delta, _text_delta *)
TextArrives(i) ==
    /\ items[i].kind \notin Calls
    /\ Push(IF items[i].kind = "reasoning" THEN EmitThinking(bridge)
            ELSE EmitText(bridge))
    /\ UNCHANGED items

(* _ensure_tool_started *)
StartCall(b, item) ==
    IF item.block # 0 THEN CloseContent(b) ELSE StartBlock(CloseContent(b), item.kind)
CallBlock(b, item) ==
    IF item.block # 0 THEN item.block ELSE Len(CloseContent(b).blocks) + 1

(* _tool_delta *)
ArgumentsArrive(i) ==
    LET at == CallBlock(bridge, items[i]) IN
    /\ items[i].kind \in Calls /\ items[i].sent < 2
    /\ items' = [items EXCEPT ![i].sent = items[i].sent + 1, ![i].block = at]
    /\ Push(ToolDelta(StartCall(bridge, items[i]), at, <<items[i].sent + 1>>))

DeltaArrives ==
    /\ Feeding /\ Len(bridge.blocks) <= MaxBlocks
    /\ \E i \in DOMAIN items :
        ~items[i].done /\ (TextArrives(i) \/ ArgumentsArrive(i))
    /\ UNCHANGED upstream /\ SameAttempt

(* _item_done, of a call: its arguments, if there were no deltas.          *)
CallDone(b, item) ==
    LET at == CallBlock(b, item)
        s == StartCall(b, item)
    IN  StopBlock(IF item.sent = 0 THEN ToolDelta(s, at, Whole) ELSE s, at)

(* _item_done, of reasoning that has encrypted content *)
Sealed(b) ==
    LET c == StartBlock(CloseContent(b), "reasoning") IN StopBlock(c, Len(c.blocks))

(* What an item that is done makes of the bridge. *)
DoneItems(b, item) ==
    CASE item.kind \in Calls -> {CallDone(b, item)}
      [] item.kind = "reasoning" -> {b, Sealed(b)}
      [] OTHER -> {b}

ItemDone ==
    /\ Feeding
    /\ \E i \in DOMAIN items :
        /\ ~items[i].done /\ (items[i].kind \in Calls => items[i].sent # 1)
        /\ items' = [items EXCEPT ![i].done = TRUE,
                                  ![i].block = IF items[i].kind \in Calls
                                               THEN CallBlock(bridge, items[i]) ELSE 0]
        /\ \E b \in DoneItems(bridge, items[i]) : Push(b)
    /\ UNCHANGED upstream /\ SameAttempt

(* An item the adapter has not heard of before. *)
ItemAtOnce ==
    /\ Feeding /\ Len(items) < MaxItems
    /\ \E kind \in ItemKinds :
        /\ items' = Append(items, [NewItem(kind) EXCEPT
                        !.done = TRUE,
                        !.block = IF kind \in Calls THEN CallBlock(bridge, NewItem(kind))
                                  ELSE 0])
        /\ \E b \in DoneItems(bridge, NewItem(kind)) : Push(b)
    /\ UNCHANGED upstream /\ SameAttempt

(* _finish: response.completed, or response.incomplete at any point.       *)
FinishUpstream ==
    /\ Feeding
    /\ \E how \in {"completed", "incomplete"} :
        /\ how = "completed" => \A i \in DOMAIN items : items[i].done
        /\ upstream' = how
        /\ Push(Terminal(CloseAll(Visible(bridge)),
                         IF how = "incomplete" THEN "max_tokens" ELSE "end_turn"))
    /\ UNCHANGED items /\ SameAttempt
-----------------------------------------------------------------------------
(* access, open_attempt, send *)
Connect ==
    /\ phase = "opening" /\ attempts > 0
    /\ phase' = "reading" /\ attempts' = attempts - 1
    /\ UNCHANGED <<renewed, items, upstream, bridge, committed>>

(* The failure is raised, after what is open at the client is closed; the  *)
(* egress makes an error of it, or the assembler its terminal event.       *)
Raise ==
    /\ phase' = "failed"
    /\ bridge' = IF ~committed THEN bridge
                 ELSE [FailExecution(CloseUnclosed(bridge)) EXCEPT !.error = TRUE]
    /\ UNCHANGED <<items, upstream, committed>>

(* Another attempt, if nothing is committed and there is one. *)
RetryOr(retryable, left) ==
    IF retryable /\ ~committed /\ left > 0
    THEN NewAttempt /\ UNCHANGED committed
    ELSE Raise

(* Without credentials no attempt is started, and none is used up.         *)
OpenFails ==
    /\ phase = "opening" /\ attempts > 0
    /\ attempts' \in {attempts, attempts - 1}
    /\ \E retryable \in BOOLEAN : RetryOr(retryable, attempts')
    /\ UNCHANGED renewed

(* A first 401: new credentials, and another attempt, if there is one.     *)
Unauthorized ==
    /\ phase = "opening" /\ attempts > 0
    /\ attempts' = attempts - 1
    /\ renewed' = TRUE
    /\ RetryOr(~renewed, attempts - 1)

(* An error event, a cut connection, malformed events, an end too early.   *)
StreamFails ==
    /\ phase = "reading"
    /\ \E retryable \in BOOLEAN : RetryOr(retryable, attempts)
    /\ UNCHANGED <<attempts, renewed>>

(* The stream ends behind its terminal event; what is held is given out.   *)
StreamEnds ==
    /\ phase = "reading" /\ upstream # ""
    /\ phase' = "done" /\ committed' = TRUE
    /\ UNCHANGED <<attempts, renewed, items, upstream, bridge>>

(* The assembler of a Responses client stops reading at its end. *)
Left ==
    /\ phase = "reading" /\ committed /\ bridge.client.ended # ""
    /\ phase' = "done"
    /\ UNCHANGED <<attempts, renewed, items, upstream, bridge, committed>>

Over == phase \in {"done", "failed"} /\ UNCHANGED bridgeVars

BridgeInit ==
    /\ phase = "opening" /\ attempts = MaxAttempts /\ renewed = FALSE
    /\ items = <<>> /\ upstream = "" /\ bridge = NewBridge
    /\ committed = FALSE

BridgeNext ==
    \/ ItemAdded \/ DeltaArrives \/ ItemDone \/ ItemAtOnce \/ FinishUpstream
    \/ Connect \/ OpenFails \/ Unauthorized \/ StreamFails \/ StreamEnds \/ Left
    \/ Over

BridgeSpec == BridgeInit /\ [][BridgeNext]_bridgeVars
-----------------------------------------------------------------------------
Client == IF committed THEN bridge.client ELSE Untold

(* Each of the upstream's calls is in a slot of its own, and no other. *)
EachCallGiven(c) ==
    LET calls == {i \in DOMAIN items : items[i].kind \in Calls} IN
    /\ \A i \in calls : /\ items[i].block \in DOMAIN c.slots
                        /\ c.slots[items[i].block].kind = items[i].kind
    /\ \A i, j \in calls : items[i].block = items[j].block => i = j
    /\ \A k \in DOMAIN c.slots :
        c.slots[k].kind \in Calls => \E i \in calls : items[i].block = k

(* What a Responses client is sent: no call it is told is done has less    *)
(* than its arguments, but a custom one of an answer that was cut; an      *)
(* answer that is completed has everything that the upstream's has, and    *)
(* no other ends as one.                                                   *)
ResponsesKept ==
    /\ ~bridge.bad /\ ~Client.bad
    /\ \A i \in DOMAIN Client.slots :
        LET s == Client.slots[i] IN
        s.done /\ s.kind \in Calls =>
            \/ s.input = Whole
            \/ s.kind = "custom" /\ (phase = "failed" \/ upstream = "incomplete")
    /\ phase = "done" => Client.ended # ""
    /\ phase = "failed" /\ committed /\ upstream = "" => Client.ended = "failed"
    /\ Client.ended = "completed" =>
        /\ upstream = "completed" \/ (upstream = "incomplete" /\ HasCall(bridge))
        /\ \A i \in DOMAIN Client.slots : Client.slots[i].done
    /\ Client.ended # "" /\ upstream = "completed" =>
        Client.ended = "completed" /\ EachCallGiven(Client)
    /\ Client.ended = "incomplete" => upstream = "incomplete"

(* ARCHITECTURE.md:976-977: completion reasons remain canonical until the  *)
(* assembler chooses the terminal event; an answer that was cut is told as *)
(* one.                                                                    *)
IncompleteTold == Client.ended # "" /\ upstream = "incomplete" => Client.ended = "incomplete"

(* A Messages client gets one ending: message_stop, or an error.           *)
OneEnding == committed => ~(bridge.stopped /\ bridge.error)
=============================================================================
