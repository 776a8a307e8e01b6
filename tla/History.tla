------------------------------ MODULE History ------------------------------
(***************************************************************************)
(* What becomes of a conversation on its way to a provider. The items of a *)
(* Responses request become Anthropic messages                             *)
(* (core/openai_responses/input.py); Anthropic messages, these or a        *)
(* Messages client's, become an OpenAI chat                                *)
(* (core/anthropic/conversion.py) or the items of a Responses backend      *)
(* (core/openai_responses/provider_input.py).                              *)
(*                                                                         *)
(* Contents are told apart by n, their place in the conversation; a call   *)
(* and its result share an id. Every result answers a call, once.          *)
(***************************************************************************)
EXTENDS Naturals, Sequences, SequencesExt, FiniteSetsExt

CONSTANTS
    MaxItems,       \* of a Responses request
    MaxMessages,    \* of a Messages client
    MaxBlocks       \* of one of its messages

VARIABLES
    source,         \* "responses" or "messages"
    given,          \* the items of the request, as they came
    messages,       \* the Anthropic messages
    pending,        \* _PendingReasoning: text, sealed
    quarantined,    \* calls whose arguments are no JSON
    chat,           \* the chat, or why there is none
    upstream        \* the items for a Responses backend

vars == <<source, given, messages, pending, quarantined, chat, upstream>>

Block(type, n) == [type |-> type, n |-> n]
Blocks(type, s) == [i \in DOMAIN s |-> Block(type, s[i])]
Message(role, content, reasoning) ==
    [role |-> role, content |-> content, reasoning |-> reasoning]
OfType(content, types) == SelectSeq(content, LAMBDA b : b.type \in types)
Ns(s) == [i \in DOMAIN s |-> s[i].n]
ReplaceLast(s, m) == Append(Front(s), m)
-----------------------------------------------------------------------------
(* Items of a Responses request. *)
NoReasoning == [text |-> <<>>, sealed |-> <<>>]

(* _append_pending_reasoning *)
WithReasoning(ms, p) ==
    IF p = NoReasoning THEN ms
    ELSE Append(ms, Message("assistant", Blocks("redacted", p.sealed), p.text))

(* _last_assistant_tool_use_message, _last_user_tool_result_message: a     *)
(* message of nothing else takes another call, or result.                  *)
EndsInCalls(ms) ==
    /\ ms # <<>> /\ Last(ms).role = "assistant"
    /\ OfType(Last(ms).content, {"call"}) # <<>>
    /\ OfType(Last(ms).content, {"call", "redacted"}) = Last(ms).content
EndsInResults(ms) ==
    /\ ms # <<>> /\ Last(ms).role = "user"
    /\ Last(ms).content # <<>>
    /\ OfType(Last(ms).content, {"result"}) = Last(ms).content

(* _merge_message_reasoning, _prepend_reasoning_blocks *)
Merged(m, p) ==
    [m EXCEPT !.reasoning = @ \o p.text, !.content = Blocks("redacted", p.sealed) \o @]

(* _append_tool_use_message *)
WithCall(ms, p, id) ==
    LET open == EndsInCalls(ms)
        m == Merged(IF open THEN Last(ms) ELSE Message("assistant", <<>>, <<>>), p)
        called == [m EXCEPT !.content = Append(@, Block("call", id))]
    IN  IF open THEN ReplaceLast(ms, called) ELSE Append(ms, called)

(* _append_pending_reasoning_before_tool_output *)
ReasonedBefore(ms, p) ==
    IF p # NoReasoning /\ EndsInCalls(ms) THEN ReplaceLast(ms, Merged(Last(ms), p))
    ELSE WithReasoning(ms, p)

(* _append_tool_result_message *)
WithResult(ms, id) ==
    IF EndsInResults(ms)
    THEN ReplaceLast(ms, [Last(ms) EXCEPT !.content = Append(@, Block("result", id))])
    ELSE Append(ms, Message("user", <<Block("result", id)>>, <<>>))

\* Mutant of DropsOutput: the output of a call that was dropped is kept.
DropsOutputNever(item) == FALSE

DropsOutput(item) == item.type = "result" /\ item.n \in quarantined

(* _append_input_item. A system or developer message goes to the system    *)
(* prompt, and only takes out the reasoning that is pending.               *)
Take(item) ==
    LET said == Block("text", item.n) IN
    /\ messages' =
        CASE item.type = "user" ->
                Append(WithReasoning(messages, pending), Message("user", <<said>>, <<>>))
          [] item.type = "assistant" ->
                Append(messages,
                       Message("assistant", Blocks("redacted", pending.sealed) \o <<said>>,
                               pending.text))
          [] item.type = "developer" -> WithReasoning(messages, pending)
          [] item.type = "call" -> WithCall(messages, pending, item.n)
          [] item.type = "result" /\ ~DropsOutput(item) ->
                WithResult(ReasonedBefore(messages, pending), item.n)
          [] OTHER -> messages
    /\ pending' =
        CASE item.type = "reasoning" -> [pending EXCEPT !.text = Append(@, item.n)]
          [] item.type = "sealed" -> [pending EXCEPT !.sealed = Append(@, item.n)]
          [] item.type = "broken" \/ DropsOutput(item) -> pending
          [] OTHER -> NoReasoning
    /\ quarantined' =
        IF item.type = "broken" THEN quarantined \cup {item.n} ELSE quarantined
    /\ given' = Append(given, item)

Called == {i \in DOMAIN given : given[i].type \in {"call", "broken"}}
Unanswered == {i \in Called : ~\E x \in ToSet(given) : x = Block("result", i)}

TakeItem ==
    /\ source = "responses" /\ chat.how = "" /\ Len(given) < MaxItems
    /\ \/ \E type \in {"user", "assistant", "developer", "call", "broken", "reasoning",
                       "sealed"} : Take(Block(type, Len(given) + 1))
       \/ \E id \in Unanswered : Take(Block("result", id))
    /\ UNCHANGED <<source, chat, upstream>>
-----------------------------------------------------------------------------
(* A chat message. Modes of replay: "disabled", "tags" in the text, or a   *)
(* "field" of the message.                                                 *)
Says(role, parts) ==
    [role |-> role, parts |-> parts, reasoning |-> <<>>, calls |-> <<>>]

(* _convert_assistant_message: an empty one has a blank for content.       *)
AssistantSays(content, reasoning, mode) ==
    LET shown == OfType(content, IF mode = "tags" THEN {"text", "thinking"} ELSE {"text"})
    IN  [Says("assistant", Ns(shown)) EXCEPT !.reasoning =
            IF mode # "field" THEN <<>>
            ELSE IF reasoning # <<>> THEN reasoning
            ELSE Ns(OfType(content, {"thinking"}))]

(* _convert_assistant_message_with_split: what stands behind the first     *)
(* call is deferred, until the results are there.                          *)
FirstCall(content) == SelectInSeq(content, LAMBDA b : b.type = "call")
ToolTurn(m, mode) ==
    LET first == FirstCall(m.content)
        later == SubSeq(m.content, first, Len(m.content))
        deferred == SelectSeq(later, LAMBDA b : b.type # "call")
    IN  [kind |-> "turn", emitted |-> FALSE,
         says |-> <<[AssistantSays(SubSeq(m.content, 1, first - 1), m.reasoning, mode)
                        EXCEPT !.calls = Ns(OfType(m.content, {"call"}))]>>,
         deferred |-> IF deferred = <<>> THEN <<>>
                      ELSE <<AssistantSays(deferred, m.reasoning, mode)>>]
Plain(says) == [kind |-> "plain", emitted |-> FALSE, says |-> says, deferred |-> <<>>]

(* _OpenAIChatHistoryLedger *)
Missing(l, segment) == ToSet(segment.says[1].calls) \ l.results
Results(ids) == [i \in DOMAIN ids |-> [Says("tool", <<>>) EXCEPT !.calls = <<ids[i]>>]]

(* _drain_ready_segments *)
RECURSIVE Drain(_)
Drain(l) ==
    IF l.segments = <<>> THEN l
    ELSE LET s == Head(l.segments)
             first == [l EXCEPT !.out = IF s.emitted THEN @ ELSE @ \o s.says,
                                !.segments[1].emitted = TRUE]
             next == [first EXCEPT !.segments = Tail(@)]
             answers == Results(s.says[1].calls) \o s.deferred
         IN  IF s.kind = "plain" THEN Drain(next)
             ELSE IF Missing(l, s) # {} THEN first
             ELSE Drain([next EXCEPT !.out = @ \o answers])

AddSegment(l, s) == Drain([l EXCEPT !.segments = Append(@, s)])

IsPending(l, id) ==
    \E i \in DOMAIN l.segments :
        l.segments[i].kind = "turn" /\ id \in ToSet(l.segments[i].says[1].calls)

(* _record_tool_result *)
RecordResult(l, id) ==
    IF IsPending(l, id) THEN [l EXCEPT !.results = @ \cup {id}]
    ELSE AddSegment(l, Plain(Results(<<id>>)))

(* add_user_blocks: text keeps its place among the results. *)
RECURSIVE AddUserBlocks(_, _, _)
AddUserBlocks(l, blocks, text) ==
    LET said == IF text = <<>> THEN l ELSE AddSegment(l, Plain(<<Says("user", text)>>)) IN
    CASE blocks = <<>> -> Drain(said)
      [] blocks # <<>> /\ Head(blocks).type = "result" ->
            AddUserBlocks(RecordResult(said, Head(blocks).n), Tail(blocks), <<>>)
      [] OTHER -> AddUserBlocks(l, Tail(blocks), Append(text, Head(blocks).n))

(* _convert_message_to_segments *)
AddMessage(l, m, mode) ==
    CASE m.role = "user" -> AddUserBlocks(l, m.content, <<>>)
      [] m.role = "system" -> AddSegment(l, Plain(<<Says("user", Ns(m.content))>>))
      [] m.role = "assistant" /\ FirstCall(m.content) # 0 ->
            AddSegment(l, ToolTurn(m, mode))
      [] OTHER -> AddSegment(l, Plain(<<AssistantSays(m.content, m.reasoning, mode)>>))

(* _assert_no_forbidden_assistant_block *)
Forbidden(m) == m.role = "assistant" /\ OfType(m.content, {"image"}) # <<>>

(* _close_openai_tool_result_turns *)
RECURSIVE CloseTurns(_, _)
CloseTurns(out, rest) ==
    IF rest = <<>> THEN out
    ELSE LET turn == Head(rest).role = "user" /\ out # <<>> /\ Last(out).role = "tool"
             closed == IF turn THEN Append(out, Says("assistant", <<>>)) ELSE out
         IN  CloseTurns(Append(closed, Head(rest)), Tail(rest))

(* _coalesce_openai_user_messages *)
RECURSIVE Coalesce(_, _)
Coalesce(out, rest) ==
    IF rest = <<>> THEN out
    ELSE IF Head(rest).role = "user" /\ out # <<>> /\ Last(out).role = "user"
    THEN Coalesce(ReplaceLast(out, [Last(out) EXCEPT !.parts = @ \o Head(rest).parts]),
                  Tail(rest))
    ELSE Coalesce(Append(out, Head(rest)), Tail(rest))

RECURSIVE Ledger(_, _, _)
Ledger(l, ms, mode) ==
    IF ms = <<>> THEN l ELSE Ledger(AddMessage(l, Head(ms), mode), Tail(ms), mode)

(* convert_messages: what is not answered at the end cannot be replayed.   *)
(* A Responses request without a message is refused before.                *)
Chat(ms, mode) ==
    LET l == Ledger([out |-> <<>>, segments |-> <<>>, results |-> {}], ms, mode)
        fails == \/ ms = <<>> \/ l.segments # <<>>
                 \/ \E i \in DOMAIN ms : Forbidden(ms[i])
    IN  [how |-> IF fails THEN "error" ELSE "chat", mode |-> mode,
         says |-> IF fails THEN <<>> ELSE Coalesce(<<>>, CloseTurns(<<>>, l.out))]
-----------------------------------------------------------------------------
(* The items for a Responses backend, in which a message is its parts.     *)
Item(type, parts) == [type |-> type, parts |-> parts]

(* flush_text, flush_message, and a block that is an item of its own.      *)
RECURSIVE Items(_, _, _)
Items(blocks, text, role) ==
    LET said == IF text = <<>> THEN <<>> ELSE <<Item(role, text)>> IN
    CASE blocks = <<>> -> said
      [] blocks # <<>> /\ Head(blocks).type \in {"call", "result"} ->
            said \o <<Item(Head(blocks).type, <<Head(blocks).n>>)>>
                 \o Items(Tail(blocks), <<>>, role)
      [] OTHER -> Items(Tail(blocks), Append(text, Head(blocks).n), role)

(* _assistant_items: reasoning comes first, the summary with the first of  *)
(* the sealed ones.                                                        *)
AssistantItems(m) ==
    LET thought == m.reasoning \o Ns(OfType(m.content, {"thinking"}))
        sealed == OfType(m.content, {"redacted"})
    IN  (IF thought = <<>> THEN <<>> ELSE <<Item("reasoning", thought)>>)
        \o [i \in DOMAIN sealed |-> Item("sealed", <<sealed[i].n>>)]
        \o Items(OfType(m.content, {"text", "call"}), <<>>, "assistant")

ItemsOf(m) ==
    CASE m.role = "system" -> <<>>
      [] m.role = "assistant" -> AssistantItems(m)
      [] OTHER -> Items(m.content, <<>>, "user")

(* build_responses_provider_request *)
ProviderItems(ms) == FlattenSeq([i \in DOMAIN ms |-> ItemsOf(ms[i])])
-----------------------------------------------------------------------------
(* A message of a Messages client: blocks, results for calls of before.    *)
AllBlocks == FlattenSeq([i \in DOMAIN messages |-> messages[i].content])
Asked(ms) == ToSet(Ns(OfType(ms, {"call"})))
Answered(ms) == ToSet(Ns(OfType(ms, {"result"})))

Numbered(types) ==
    [j \in DOMAIN types |-> Block(types[j], 10 * (Len(messages) + 1) + j)]

Contents(role) ==
    CASE role = "system" -> {Numbered(<<"text">>)}
      [] role = "assistant" ->
            {Numbered(types) : types \in
                UNION {[1..k -> {"text", "thinking", "call"}] : k \in 1..MaxBlocks}
                \cup {<<"image">>, <<"redacted", "call">>}}
      [] role = "user" ->
            LET ids == Asked(AllBlocks) \ Answered(AllBlocks)
                block(j) == {Block(type, 10 * (Len(messages) + 1) + j) :
                                type \in {"text", "image"}}
                            \cup {Block("result", id) : id \in ids}
            IN  {s \in UNION {[1..k -> UNION {block(j) : j \in 1..MaxBlocks}] :
                                k \in 1..MaxBlocks} :
                    /\ \A j \in DOMAIN s : s[j] \in block(j)
                    /\ IsInjective(s)}

Say ==
    /\ source = "messages" /\ chat.how = "" /\ Len(messages) < MaxMessages
    /\ \E role \in {"user", "assistant", "system"} :
        /\ role = "assistant" /\ messages # <<>> => Last(messages).role # "assistant"
        /\ \E content \in Contents(role) :
            messages' = Append(messages, Message(role, content, <<>>))
    /\ UNCHANGED <<source, given, pending, quarantined, chat, upstream>>

(* The request is whole: it is converted, for one kind of provider.        *)
Convert ==
    /\ chat.how = "" /\ (given # <<>> \/ messages # <<>>)
    /\ LET ms == WithReasoning(messages, pending) IN
        /\ messages' = ms
        /\ upstream' = IF \E i \in DOMAIN ms : Forbidden(ms[i]) THEN <<>>
                       ELSE ProviderItems(ms)
        /\ \E mode \in {"disabled", "tags", "field"} : chat' = Chat(ms, mode)
    /\ pending' = NoReasoning
    /\ UNCHANGED <<source, given, quarantined>>

Converted == chat.how # "" /\ UNCHANGED vars

Init ==
    /\ source \in {"responses", "messages"}
    /\ given = <<>> /\ messages = <<>> /\ pending = NoReasoning /\ quarantined = {}
    /\ chat = [how |-> "", mode |-> "", says |-> <<>>]
    /\ upstream = <<>>

Next == TakeItem \/ Say \/ Convert \/ Converted

Spec == Init /\ [][Next]_vars
-----------------------------------------------------------------------------
(* Calls and results, as a chat must have them: a message with calls is    *)
(* followed by the result of each, in their order, and by nothing else; a  *)
(* user does not speak right behind a result, nor twice.                   *)
Paired(says) ==
    \A i \in DOMAIN says :
        /\ says[i].role = "assistant" =>
            \A k \in DOMAIN says[i].calls :
                /\ i + k <= Len(says)
                /\ says[i + k].role = "tool"
                /\ says[i + k].calls = <<says[i].calls[k]>>
        /\ says[i].role = "user" /\ i > 1 => says[i - 1].role = "assistant"

(* A history whose calls are all answered becomes a chat that a provider   *)
(* takes, with every result once and everything that was said; one with a  *)
(* call that is not is refused. What a Responses client sent comes to a    *)
(* Responses backend in its order, but for calls that were dropped and     *)
(* their outputs.                                                          *)
HistoryKept ==
    LET kept == OfType(AllBlocks, {"text", "image"} \cup
                       IF chat.mode = "tags" THEN {"thinking"} ELSE {})
        said == FlattenSeq([i \in DOMAIN chat.says |-> chat.says[i].parts])
        tools == SelectSeq(chat.says, LAMBDA x : x.role = "tool")
        spoken(s) == SelectSeq(s, LAMBDA x : x.type \in {"user", "assistant", "call", "result"})
        sent == spoken(SelectSeq(given, LAMBDA x : ~DropsOutput(x)))
    IN  chat.how # "" =>
        /\ (chat.how = "error") =
                (\/ messages = <<>>
                 \/ Asked(AllBlocks) # Answered(AllBlocks)
                 \/ \E i \in DOMAIN messages : Forbidden(messages[i]))
        /\ chat.how = "chat" =>
            /\ Paired(chat.says)
            /\ {tools[i].calls : i \in DOMAIN tools} = {<<id>> : id \in Answered(AllBlocks)}
            /\ Len(tools) = Cardinality(Answered(AllBlocks))
            /\ ToSet(said) = ToSet(Ns(kept)) /\ Len(said) = Len(kept)
        /\ source = "responses" =>
            spoken(upstream) = [i \in DOMAIN sent |-> Item(sent[i].type, <<sent[i].n>>)]

(* ARCHITECTURE.md:995: reasoning is a lossless conversion; what is sealed *)
(* comes to the backend in the order in which it left it.                  *)
SealedInOrder ==
    chat.how # "" /\ source = "responses" =>
        LET sealed(s) == SelectSeq(s, LAMBDA x : x.type = "sealed") IN
        [i \in DOMAIN sealed(upstream) |-> sealed(upstream)[i].parts[1]] = Ns(sealed(given))
=============================================================================
