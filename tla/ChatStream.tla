----------------------------- MODULE ChatStream -----------------------------
(***************************************************************************)
(* One streamed answer of the OpenAI-chat adapter: the runner of           *)
(* providers/openai_chat/provider.py that turns an upstream stream into    *)
(* Anthropic events, the ledger of content blocks                          *)
(* (core/anthropic/streaming/ledger.py), tool calls that arrive in         *)
(* fragments (openai_chat/tool_calls.py), opaque reasoning                 *)
(* (reasoning_details.py), the holdback buffer and the choice between an   *)
(* invisible retry, a recovery and an error (providers/stream_recovery.py),*)
(* and the continuation and repair of what was cut off                     *)
(* (core/anthropic/streaming/recovery.py). Attempts are those of Admission.*)
(*                                                                         *)
(* The arguments of a tool call are the pieces 1 and 2, whole only as      *)
(* <<1, 2>>; text is "some" or "blank". The client is the automaton of     *)
(* core/anthropic/stream_contracts.py.                                     *)
(***************************************************************************)
EXTENDS Naturals, Sequences, FiniteSets, Functions

CONSTANTS Tools, MaxAttempts, MaxChunks

ASSUME ChatAssumption == IsFiniteSet(Tools)

VARIABLES
    phase,      \* "opening", "reading", "completed" or "failed"
    attempts,   \* attempts_remaining of the retry session
    ledger,     \* the ledger, with what its events amount to on the wire
    opaque,     \* _pending_preserved of the structured reasoning is not empty
    pendingTool,\* the heuristic parser: "none", "bullet" or "call"
    names,      \* tool_name_buffers: names that may be prefixes of an alias
    pieces,     \* pieces of each tool's arguments sent in this attempt
    finish,     \* finish_reason has been seen
    committed,  \* it has been flushed
    chunks,     \* chunks read in this attempt
    recovered,  \* the turn was ended by a recovery
    client      \* what has been delivered: see Deliver

ofAttempt == <<opaque, pendingTool, names, pieces, finish, chunks>>
chatVars == <<phase, attempts, ledger, ofAttempt, committed, recovered, client>>

Whole == <<1, 2>>
Empty == <<0>>     \* the arguments "{}"
-----------------------------------------------------------------------------
(* assert_anthropic_stream_contract. Blocks that get the same event get it *)
(* one after another, in an order that tells the client nothing.           *)
Receives(c, event, blocks, what, args) ==
    LET wrong == \/ c.ended
                 \/ c.begun = (event = "message_start")
                 \/ event = "start" /\ blocks \cap c.seen # {}
                 \/ event \in {"delta", "stop"} /\ ~(blocks \subseteq c.open)
        visible == \/ event = "start" /\ what = "tool_use"
                   \/ event = "delta" /\ what = "some"
    IN  [begun |-> TRUE,
         open |-> IF event = "start" THEN c.open \cup blocks
                  ELSE IF event = "stop" THEN c.open \ blocks ELSE c.open,
         seen |-> IF event = "start" THEN c.seen \cup blocks ELSE c.seen,
         tools |-> IF visible /\ event = "start" THEN c.tools \cup blocks ELSE c.tools,
         whole |-> IF event = "delta" /\ args = Whole THEN c.whole \cup blocks
                   ELSE c.whole,
         visible |-> c.visible \/ visible,
         ended |-> event = "message_stop",
         bad |-> c.bad \/ wrong]

NothingSent == [begun |-> FALSE, open |-> {}, seen |-> {}, tools |-> {}, whole |-> {},
           visible |-> FALSE, ended |-> FALSE, bad |-> FALSE]
-----------------------------------------------------------------------------
(* AnthropicStreamLedger: blocks by index; text and thinking are the index *)
(* of the open block, 0 for none.                                          *)
NewTool == [named |-> FALSE, block |-> 0, buffer |-> <<>>, pre |-> <<>>,
            emitted |-> FALSE]
NewLedger ==
    [blocks |-> <<>>, text |-> 0, thinking |-> 0, shown |-> "none",
     thought |-> FALSE, tools |-> [t \in Tools |-> NewTool], wire |-> NothingSent]

Emit(L, event, blocks, what, args) ==
    IF blocks = {} THEN L
    ELSE [L EXCEPT !.wire = Receives(@, event, blocks, what, args)]
EmitMessage(L, event) == Emit(L, event, {0}, "", <<>>)

StartBlocks(L, n, type) ==
    Emit([L EXCEPT !.blocks =
             @ \o [i \in 1..n |-> [type |-> type, open |-> TRUE, args |-> <<>>]]],
         "start", Len(L.blocks) + 1 .. Len(L.blocks) + n, type, <<>>)

DeltaBlocks(L, blocks, what, args) ==
    Emit([L EXCEPT !.blocks =
             [i \in DOMAIN L.blocks |->
                 IF i \in blocks THEN [L.blocks[i] EXCEPT !.args = @ \o args]
                 ELSE L.blocks[i]]],
         "delta", blocks, what, args)

StopBlocks(L, blocks) ==
    Emit([L EXCEPT !.blocks =
             [i \in DOMAIN L.blocks |->
                 IF i \in blocks THEN [L.blocks[i] EXCEPT !.open = FALSE]
                 ELSE L.blocks[i]]],
         "stop", blocks, "", <<>>)

CloseThinking(L) ==
    IF L.thinking = 0 THEN L ELSE [StopBlocks(L, {L.thinking}) EXCEPT !.thinking = 0]
CloseText(L) ==
    IF L.text = 0 THEN L ELSE [StopBlocks(L, {L.text}) EXCEPT !.text = 0]
CloseContent(L) == CloseText(CloseThinking(L))

EnsureThinking(L) ==
    LET M == CloseText(L) IN
    IF M.thinking # 0 THEN M
    ELSE [StartBlocks(M, 1, "thinking") EXCEPT !.thinking = Len(M.blocks) + 1]
EnsureText(L) ==
    LET M == CloseThinking(L) IN
    IF M.text # 0 THEN M
    ELSE [StartBlocks(M, 1, "text") EXCEPT !.text = Len(M.blocks) + 1]

EmitThinking(L) ==
    LET M == EnsureThinking(L) IN
    [DeltaBlocks(M, {M.thinking}, "", <<>>) EXCEPT !.thought = TRUE]
EmitText(L, how) ==
    LET M == EnsureText(L) IN
    [DeltaBlocks(M, {M.text}, how, <<>>) EXCEPT
        !.shown = IF @ = "some" THEN @ ELSE how]

HasTool(L) == \E i \in DOMAIN L.blocks : L.blocks[i].type = "tool_use"
NeedsVisible(L) == L.shown # "some" /\ ~HasTool(L)
Started(L) == {t \in Tools : L.tools[t].block # 0}
BlocksOf(L, tools) == {L.tools[t].block : t \in tools}
Opened(L) == {i \in DOMAIN L.blocks : L.blocks[i].open}

CloseAll(L) == StopBlocks(CloseContent(L), BlocksOf(L, Started(L)))

\* Mutant of CloseUnclosed: only text and thinking are closed.
CloseContentOnly(L) == CloseContent(L)

CloseUnclosed(L) == StopBlocks(L, Opened(L))
-----------------------------------------------------------------------------
(* buffer_tool_args: the arguments given to each are kept until they are   *)
(* whole.                                                                  *)
BufferArgs(L, args) ==
    LET buffer(t) == L.tools[t].buffer \o args[t]
        whole == {t \in Tools : /\ args[t] # <<>> /\ ~L.tools[t].emitted
                                /\ buffer(t) = Whole}
        after == [t \in Tools |->
                     IF t \in whole
                     THEN [L.tools[t] EXCEPT !.buffer = <<>>, !.emitted = TRUE]
                     ELSE IF L.tools[t].emitted THEN L.tools[t]
                     ELSE [L.tools[t] EXCEPT !.buffer = buffer(t)]]
    IN  DeltaBlocks([L EXCEPT !.tools = after], BlocksOf(L, whole), "", Whole)

(* start_tool_block, and the arguments that came before the names.         *)
StartTools(L, tools) ==
    LET n == Cardinality(tools)
        new == Len(L.blocks) + 1 .. Len(L.blocks) + n
        index == CHOOSE f \in Bijection(tools, new) : TRUE
        after == [t \in Tools |->
                     IF t \in tools
                     THEN [L.tools[t] EXCEPT !.block = index[t], !.pre = <<>>]
                     ELSE L.tools[t]]
    IN  BufferArgs([StartBlocks(L, n, "tool_use") EXCEPT !.tools = after],
                   [t \in Tools |-> IF t \in tools THEN L.tools[t].pre ELSE <<>>])

(* register_tool_name *)
WithNames(L, tools) ==
    [L EXCEPT !.tools = [t \in Tools |->
        IF t \in tools THEN [L.tools[t] EXCEPT !.named = TRUE] ELSE L.tools[t]]]

(* process_tool_call, for tools whose delta has the rest of the name, or   *)
(* has none; in whichever order they come.                                 *)
ProcessCalls(L, tools, name, args) ==
    LET M == IF name THEN WithNames(L, tools) ELSE L
        N == StartTools(M, {t \in tools : M.tools[t].named /\ M.tools[t].block = 0})
        early == {t \in tools : N.tools[t].block = 0}
        after == [t \in Tools |->
                     IF t \in early
                     THEN [N.tools[t] EXCEPT !.pre = N.tools[t].pre \o args]
                     ELSE N.tools[t]]
    IN  BufferArgs([N EXCEPT !.tools = after],
                   [t \in Tools |-> IF t \in tools \ early THEN args ELSE <<>>])

(* iter_heuristic_tool_use_sse: a call found in the text is whole. *)
HeuristicCall(L) ==
    LET M == StartBlocks(CloseContent(L), 1, "tool_use")
        i == {Len(M.blocks)}
    IN  StopBlocks(DeltaBlocks(M, i, "", Whole), i)

(* StructuredReasoningStream.flush *)
FlushOpaque(L) ==
    IF ~opaque THEN L
    ELSE LET M == StartBlocks(CloseContent(L), 1, "redacted_thinking")
         IN  StopBlocks(M, {Len(M.blocks)})

(* flush_tool_name_buffers and flush_tool_arg_buffers, at the end. *)
FlushNames(L) == ProcessCalls(L, names, TRUE, <<>>)
FlushArgs(L) ==
    LET kept == {t \in Tools : L.tools[t].buffer # <<>>} IN
    DeltaBlocks([L EXCEPT !.tools =
                    [t \in Tools |-> [L.tools[t] EXCEPT !.buffer = <<>>]]],
                BlocksOf(L, kept), "", Empty)

Terminal(L) == EmitMessage(L, "message_stop")
-----------------------------------------------------------------------------
(***************************************************************************)
(* RecoveryHoldbackBuffer: events are held until it has been flushed; the  *)
(* time or the size at which it is may come with any event.                *)
(***************************************************************************)
Push(L, now) ==
    /\ committed' = (committed \/ now)
    /\ client' = IF committed' THEN L.wire ELSE client
    /\ ledger' = L

ResetReading ==
    /\ opaque' = FALSE
    /\ pendingTool' = "none"
    /\ names' = {}
    /\ pieces' = [t \in Tools |-> 0]
    /\ finish' = FALSE
    /\ chunks' = 0

(* _create_stream: a request that is rejected may be sent again, changed. *)
Open ==
    /\ phase = "opening"
    /\ \E n \in 1..attempts : attempts' = attempts - n
    /\ phase' = "reading"
    /\ UNCHANGED <<ledger, ofAttempt, committed, recovered, client>>
-----------------------------------------------------------------------------
Chunk == phase = "reading" /\ ~finish /\ chunks < MaxChunks /\ chunks' = chunks + 1
UnchangedByChunk == UNCHANGED <<phase, attempts, recovered>>

(* Reasoning, and opaque reasoning, which is kept until something follows. *)
ReadThinking(now) ==
    /\ Chunk
    /\ Push(EmitThinking(FlushOpaque(ledger)), now)
    /\ opaque' = FALSE
    /\ UNCHANGED <<pendingTool, names, pieces, finish>> /\ UnchangedByChunk

ReadOpaque ==
    /\ Chunk
    /\ opaque' = TRUE
    /\ UNCHANGED <<pendingTool, names, pieces, finish, ledger, committed,
                   client>>
    /\ UnchangedByChunk

(***************************************************************************)
(* Text goes through the two parsers: the heuristic one holds back what    *)
(* follows a bullet, until it is a call, or too long to be one.            *)
(***************************************************************************)
ReadText(how, after, now) ==
    /\ Chunk
    /\ LET L == FlushOpaque(ledger) IN
         Push(IF pendingTool = "call" THEN HeuristicCall(EmitText(L, how))
              ELSE EmitText(L, how), now)
    /\ opaque' = FALSE
    /\ pendingTool' = after
    /\ UNCHANGED <<names, pieces, finish>> /\ UnchangedByChunk

(* A tool-call delta: its name, or what may be a prefix of one; a piece. *)
ReadCall(t, name, piece, now) ==
    /\ Chunk
    /\ name = "none" => piece
    /\ name # "none" => ~ledger.tools[t].named
    /\ piece => pieces[t] < 2
    /\ pieces' = IF piece THEN [pieces EXCEPT ![t] = @ + 1] ELSE pieces
    /\ Push(ProcessCalls(CloseContent(FlushOpaque(ledger)), {t}, name = "whole",
                        IF piece THEN <<pieces[t] + 1>> ELSE <<>>), now)
    /\ names' = IF name = "whole" THEN names \ {t}
                ELSE IF name = "prefix" THEN names \cup {t} ELSE names
    /\ opaque' = FALSE
    /\ UNCHANGED <<pendingTool, finish>> /\ UnchangedByChunk

ReadFinish ==
    /\ phase = "reading" /\ ~finish
    /\ finish' = TRUE
    /\ UNCHANGED <<opaque, pendingTool, names, pieces, chunks, ledger, committed,
                   client>>
    /\ UnchangedByChunk

(***************************************************************************)
(* The stream is over, has a finish_reason and something to show: all that *)
(* was kept is flushed, every block closed, the message stopped.           *)
(***************************************************************************)
Complete ==
    /\ phase = "reading" /\ finish
    /\ ~NeedsVisible(ledger) \/ pendingTool # "none"
    /\ LET L == FlushOpaque(ledger)
           M == IF pendingTool = "call" THEN HeuristicCall(L) ELSE L
           N == FlushNames(M)
           O == IF NeedsVisible(N) THEN EmitText(N, "some") ELSE N
       IN  Push(Terminal(CloseAll(FlushArgs(O))), TRUE)
    /\ phase' = "completed"
    /\ UNCHANGED <<attempts, ofAttempt, recovered>>
-----------------------------------------------------------------------------
(* has_committed_sse_output, all_emitted_tools_complete *)
Generated(L) == \E i \in DOMAIN L.blocks : L.blocks[i].type # "redacted_thinking"
AllComplete(L) ==
    \A i \in DOMAIN L.blocks : L.blocks[i].type = "tool_use" => L.blocks[i].args = Whole
Salvageable(L) == HasTool(L) /\ AllComplete(L)

(* advance_failure, for an error that may be retried *)
RetriesEarly(opened) ==
    /\ opened /\ attempts > 0 /\ ~committed /\ ~Salvageable(ledger)
    /\ ~(Generated(ledger) /\ attempts = 1)

Recovers ==
    /\ Generated(ledger)
    /\ attempts > 0 \/ Salvageable(ledger)

Begin(L) == EmitMessage(L, "message_start")

(* A new ledger, parsers and buffer; the message starts anew. *)
EarlyRetry(opened) ==
    /\ RetriesEarly(opened)
    /\ ResetReading
    /\ committed' = FALSE
    /\ ledger' = Begin([NewLedger EXCEPT !.wire = client])
    /\ phase' = "opening"
    /\ UNCHANGED <<attempts, recovered, client>>

(***************************************************************************)
(* _recovery_events: with a tool call begun, its arguments are completed,  *)
(* at least one attempt for each; else text and thinking are continued,    *)
(* perhaps by tool calls, in one or more attempts. None but a visible turn *)
(* is accepted. The events are made before what is held is flushed.        *)
(***************************************************************************)
Incomplete(L) == {t \in Started(L) : L.blocks[L.tools[t].block].args # Whole}

Repaired(L) == DeltaBlocks(L, BlocksOf(L, Incomplete(L)), "", Whole)

Continued(L, thinking, text, calls) ==
    LET M == IF thinking THEN EmitThinking(L) ELSE L
        N == IF text = "none" THEN M ELSE EmitText(M, text)
    IN  IF calls = {} THEN N ELSE ProcessCalls(CloseContent(N), calls, TRUE, Whole)

FinishRecovery(L) ==
    /\ committed' = TRUE
    /\ ledger' = Terminal(FlushOpaque(CloseAll(L)))
    /\ client' = ledger'.wire
    /\ phase' = "completed"
    /\ recovered' = TRUE
    /\ UNCHANGED ofAttempt

Repair ==
    /\ Recovers /\ HasTool(ledger)
    /\ \E n \in Cardinality(Incomplete(ledger))..attempts : attempts' = attempts - n
    /\ FinishRecovery(Repaired(ledger))

Continue(thinking, text, calls) ==
    /\ Recovers /\ ~HasTool(ledger)
    /\ ledger.shown # "none" \/ ledger.thought
    /\ \E n \in 1..attempts : attempts' = attempts - n
    /\ NeedsVisible(ledger) => text = "some" \/ calls # {}
    /\ thinking \/ text # "none" \/ calls # {}
    /\ FinishRecovery(Continued(ledger, thinking, text, calls))

(***************************************************************************)
(* The error is raised: before anything was delivered, or else when all    *)
(* blocks have been closed. A recovery that failed spent its attempts.     *)
(***************************************************************************)
Raise ==
    /\ IF committed \/ Salvageable(ledger)
       THEN LET L == CloseUnclosed(FlushOpaque(ledger)) IN
              /\ client' = L.wire
              /\ ledger' = L
              /\ committed' = TRUE
       ELSE UNCHANGED <<client, ledger, committed>>
    /\ phase' = "failed"
    /\ UNCHANGED <<ofAttempt, recovered>>

FinalError(retryable, opened) ==
    /\ retryable => ~RetriesEarly(opened)
    /\ IF retryable /\ Recovers THEN \E n \in 0..attempts : attempts' = attempts - n
                                ELSE UNCHANGED attempts
    /\ Raise

Fails(retryable, opened) ==
    \/ retryable /\ EarlyRetry(opened)
    \/ /\ retryable /\ ~RetriesEarly(opened)
       /\ \/ Repair
          \/ \E thinking \in BOOLEAN, text \in {"none", "blank", "some"},
                calls \in SUBSET Tools : Continue(thinking, text, calls)
    \/ FinalError(retryable, opened)

(* No stream could be opened. *)
OpenFails(retryable) ==
    /\ phase = "opening"
    /\ Fails(retryable, FALSE)

(***************************************************************************)
(* The stream breaks off; or it ends without a finish_reason, with a name  *)
(* that is none, or with nothing to show: those are retryable.             *)
(***************************************************************************)
StreamFails(retryable) ==
    /\ phase = "reading"
    /\ \/ ~finish
       \/ finish /\ retryable /\ names # {}
       \/ finish /\ retryable /\ NeedsVisible(ledger) /\ pendingTool = "none"
    /\ Fails(retryable, TRUE)

ChatDone == phase \in {"completed", "failed"} /\ UNCHANGED chatVars
-----------------------------------------------------------------------------
ChatInit ==
    /\ phase = "opening"
    /\ attempts = MaxAttempts
    /\ ledger = Begin(NewLedger)
    /\ opaque = FALSE /\ pendingTool = "none" /\ names = {}
    /\ pieces = [t \in Tools |-> 0]
    /\ finish = FALSE
    /\ committed = FALSE
    /\ chunks = 0
    /\ recovered = FALSE
    /\ client = NothingSent

ReadStream ==
    \/ \E now \in BOOLEAN :
          \/ ReadThinking(now)
          \/ \E how \in {"blank", "some"}, after \in {"none", "bullet", "call"} :
                ReadText(how, after, now)
          \/ \E t \in Tools, name \in {"none", "prefix", "whole"}, piece \in BOOLEAN :
                ReadCall(t, name, piece, now)
    \/ ReadOpaque \/ ReadFinish

Progress ==
    Open \/ Complete \/ \E retryable \in BOOLEAN :
        OpenFails(retryable) \/ StreamFails(retryable)

ChatNext == ReadStream \/ Progress \/ ChatDone

ChatSpec == ChatInit /\ [][ChatNext]_chatVars
-----------------------------------------------------------------------------
(***************************************************************************)
(* Until it is committed an attempt is invisible; from then on the client  *)
(* has exactly the blocks of the ledger, those open that are open there,   *)
(* and the tool inputs that have been put out.                             *)
(***************************************************************************)
LedgerDelivered ==
    /\ ~committed => ~client.begun
    /\ committed /\ phase \in {"opening", "reading"} =>
          /\ client.seen = DOMAIN ledger.blocks
          /\ client.open = {i \in client.seen : ledger.blocks[i].open}
          /\ client.whole = {i \in client.seen : ledger.blocks[i].args = Whole}

(***************************************************************************)
(* What the client is sent keeps the protocol, whichever attempts and      *)
(* recoveries it was put together from: one message_start, no block        *)
(* started twice or after it was stopped, no delta of a block that is not  *)
(* open; a completed turn has every block closed and something to show, a  *)
(* failed one that was begun has every block closed. And it is sent what   *)
(* the ledger has.                                                         *)
(***************************************************************************)
ContractKept ==
    /\ ~client.bad /\ LedgerDelivered
    /\ phase = "completed" => client.ended /\ client.open = {} /\ client.visible
    /\ phase = "failed" => ~client.ended /\ client.open = {}

(***************************************************************************)
(* A turn that a recovery has ended has no tool call without its input:    *)
(* completed_calls, tool_calls.py:74, returns "complete schema-valid       *)
(* calls", and a repair is accepted only when it is whole.                 *)
(***************************************************************************)
RecoveredToolsWhole ==
    phase = "completed" /\ recovered => client.tools \subseteq client.whole
=============================================================================
