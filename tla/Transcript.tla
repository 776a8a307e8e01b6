----------------------------- MODULE Transcript -----------------------------
(***************************************************************************)
(* What a chat is shown of a turn: the events of the claude process        *)
(* (messaging/event_parser.py), as the runner takes them                   *)
(* (messaging/node_event_pipeline.py, node_runner.py), in the transcript   *)
(* (messaging/transcript/) that is shown, at most once a second, in the    *)
(* status message (messaging/ui_updates.py).                               *)
(*                                                                         *)
(* The main agent waits for the Tasks it has started. What is said is      *)
(* told apart by its number; a text is as long as its pieces.              *)
(***************************************************************************)
EXTENDS Naturals, Sequences, SequencesExt, FiniteSetsExt, Functions

CONSTANTS
    Ids,            \* of Tasks, apart from 0, of one that came without
    Indexes,        \* of streamed blocks
    MaxEvents,      \* of the process
    ShowResults,    \* show_tool_results
    TextTail,       \* text_tail_max
    Limit           \* get_limit_chars, with the status and the mark

VARIABLES
    tasks,          \* the Tasks that run, in the order of their start
    block,          \* the block that is streamed: its index and its type
    said,           \* what the main agent has said and called, in order
    astray,         \* a Task has ended before a younger one, or with a result
                    \* that does not look like one
    count,          \* of events
    buffer,         \* the TranscriptBuffer
    heard,          \* had_transcript_events
    lastStatus,     \* last_status of the runner
    editor,         \* the ThrottledTranscriptEditor
    failing,        \* non_exit_error
    ended           \* how the turn has ended

vars ==
    <<tasks, block, said, astray, count, buffer, heard, lastStatus, editor, failing,
      ended>>

NoBlock == [index |-> 0, type |-> ""]
-----------------------------------------------------------------------------
(* SubagentState *)
InSubagent(b) == b.stack # <<>>

(* _pop_to_depth: the Task and all that were started after it.             *)
PopTo(b, at) == [b EXCEPT !.stack = SubSeq(@, 1, at - 1)]

(* close_for_tool_result: for a Task without an id, a result that looks    *)
(* like one of a Task.                                                     *)
CloseFor(b, id, looks) ==
    LET at == SelectLastInSeq(b.stack, LAMBDA t : t.id = id) IN
    IF id # 0 THEN IF at = 0 THEN b ELSE PopTo(b, at)
    ELSE IF looks /\ InSubagent(b) /\ Last(b.stack).id = 0 THEN PopTo(b, Len(b.stack))
    ELSE b
-----------------------------------------------------------------------------
(* TranscriptBuffer *)
Segment(kind, parts) == [kind |-> kind, parts |-> parts, calls |-> 0]
Add(b, kind, parts) == [b EXCEPT !.segments = Append(@, Segment(kind, parts))]
Opened(b, type, index) == {o \in b.opened : o.type = type /\ o.index = index}

(* _close_block: the first that is open, of a tool, thinking and text.     *)
CloseBlock(b, index) ==
    LET open == {type \in {"tool", "thinking", "text"} : Opened(b, type, index) # {}}
        type == IF "tool" \in open THEN "tool"
                ELSE IF "thinking" \in open THEN "thinking" ELSE "text"
    IN  [b EXCEPT !.opened = @ \ Opened(b, type, index)]

Open(b, type, index) ==
    [b EXCEPT !.opened = (@ \ Opened(b, type, index)) \cup
        {[type |-> type, index |-> index, seg |-> Len(b.segments)]}]

(* _start_thinking, _start_text *)
StartBlock(b, type, index) == Open(Add(CloseBlock(b, index), type, <<>>), type, index)

(* _append_thinking, _append_text *)
AppendTo(b, type, index, n) ==
    LET open == Opened(b, type, index)
        c == IF open # {} THEN b ELSE Open(Add(b, type, <<>>), type, index)
        at == (CHOOSE o \in Opened(c, type, index) : TRUE).seg
    IN  [c EXCEPT !.segments[at].parts = Append(@, n)]

(* _append_tool_call: in a subagent it only counts. *)
ToolCall(b, n) ==
    IF InSubagent(b) THEN [b EXCEPT !.segments[Last(b.stack).seg].calls = @ + 1]
    ELSE Add(b, "call", <<n>>)

(* push *)
TaskCall(b, id) ==
    LET c == Add(b, "subagent", <<>>) IN
    [c EXCEPT !.stack = Append(@, [id |-> id, seg |-> Len(c.segments)])]

\* Mutant of Suppressed: what is streamed is not suppressed.
SuppressedChunks(b, type) ==
    InSubagent(b) /\ type \in {"thinking_chunk", "text_chunk"}

(* _SUBAGENT_SUPPRESSED_EVENTS *)
Suppressed(b, type) ==
    InSubagent(b) /\ type \in {"thinking_start", "thinking_delta", "thinking_chunk",
                               "text_start", "text_delta", "text_chunk"}

-----------------------------------------------------------------------------
(* render_segments: the newest that fit, or the tail of the newest.        *)
LastOf(s, n) == SubSeq(s, IF Len(s) > n THEN Len(s) - n + 1 ELSE 1, Len(s))

Rendered(segments) ==
    LET texts == [i \in DOMAIN segments |->
                    [segments[i] EXCEPT !.parts = LastOf(@, TextTail)]]
    IN  SelectSeq(texts, LAMBDA s : s.kind # "text" \/ s.parts # <<>>)

SizeOf(s) == IF s.kind = "text" THEN Len(s.parts) ELSE 1 + Len(s.parts)
Size(shown) == FoldFunction(+, 0, [i \in DOMAIN shown |-> SizeOf(shown[i])])

Render(segments, status) ==
    LET all == Rendered(segments)
        line == IF status = "" THEN 0 ELSE 1
        fits == {k \in 1..Len(all) : Size(LastOf(all, k)) + line + 1 <= Limit}
        shown ==
            IF Size(all) + line <= Limit THEN all
            ELSE IF fits # {} THEN LastOf(all, Max(fits))
            ELSE <<Segment("text", LastOf(Last(all).parts, Limit - line - 1))>>
    IN  [parts |-> shown, cut |-> shown # all, status |-> status]

(* update: an edit at most once a second, unless it is forced.             *)
Update(b, status, force) ==
    IF ~force /\ editor.recent THEN UNCHANGED editor
    ELSE editor' = [shown |-> Render(b.segments, status), recent |-> TRUE]

Tick ==
    /\ editor.recent /\ ended = ""
    /\ editor' = [editor EXCEPT !.recent = FALSE]
    /\ UNCHANGED <<tasks, block, said, astray, count, buffer, heard, lastStatus,
                   failing, ended>>
-----------------------------------------------------------------------------
(* process_parsed_cli_event: an event that changes the transcript. *)
Process(b, status, force) ==
    /\ ended = "" /\ count < MaxEvents
    /\ count' = count + 1
    /\ buffer' = b /\ heard' = TRUE /\ lastStatus' = status
    /\ Update(b, status, force)
    /\ UNCHANGED <<failing, ended>>

Shown(type, b) == IF Suppressed(buffer, type) THEN buffer ELSE b

(* The number of an event, and what it adds to what the main agent said.   *)
Number == count + 1
Heard == said' = IF tasks = <<>> THEN Append(said, Number) ELSE said

(* Whole messages: text and thinking of no index, each a segment.          *)
Chunk ==
    /\ block = NoBlock
    /\ \E type \in {"thinking", "text"} :
        Process(Shown(type \o "_chunk", Add(buffer, type, <<Number>>)), "working", FALSE)
    /\ Heard
    /\ UNCHANGED <<tasks, block, astray>>

ToolUse ==
    /\ block = NoBlock
    /\ Process(ToolCall(buffer, Number), "tools", FALSE)
    /\ Heard
    /\ UNCHANGED <<tasks, block, astray>>

(* Streamed blocks. *)
BlockStart ==
    /\ block = NoBlock
    /\ \E type \in {"thinking", "text"}, index \in Indexes :
        /\ block' = [index |-> index, type |-> type]
        /\ Process(Shown(type \o "_start", StartBlock(buffer, type, index)),
                   "working", FALSE)
    /\ UNCHANGED <<tasks, said, astray>>

ToolUseStart ==
    /\ block = NoBlock
    /\ \E index \in Indexes :
        /\ block' = [index |-> index, type |-> "tool"]
        /\ Process(Open(ToolCall(CloseBlock(buffer, index), Number), "tool", index),
                   "tools", FALSE)
    /\ Heard
    /\ UNCHANGED <<tasks, astray>>

BlockDelta ==
    /\ block # NoBlock /\ block.type # "tool"
    /\ Process(Shown(block.type \o "_delta",
                     AppendTo(buffer, block.type, block.index, Number)), "working", FALSE)
    /\ Heard
    /\ UNCHANGED <<tasks, block, astray>>

(* block_stop: the last status, but at once. *)
BlockStop ==
    /\ block # NoBlock
    /\ block' = NoBlock
    /\ Process(CloseBlock(buffer, block.index), lastStatus, TRUE)
    /\ UNCHANGED <<tasks, said, astray>>

TaskStart ==
    /\ block = NoBlock
    /\ \E id \in (Ids \cup {0}) :
        /\ id \in ToSet(tasks) => id = 0
        /\ tasks' = Append(tasks, id)
        /\ Process(TaskCall(buffer, id), "subagent", FALSE)
    /\ UNCHANGED <<block, said, astray>>

WithResult(b) == IF ShowResults THEN Add(b, "result", <<>>) ELSE b

(* The result of a tool, and of a Task. *)
ToolResult ==
    /\ block = NoBlock
    /\ Process(WithResult(buffer), "tools", FALSE)
    /\ UNCHANGED <<tasks, block, said, astray>>

TaskResult ==
    /\ block = NoBlock
    /\ \E i \in DOMAIN tasks, looks \in BOOLEAN :
        /\ tasks' = RemoveAt(tasks, i)
        /\ astray' = (astray \/ i # Len(tasks) \/ (tasks[i] = 0 /\ ~looks))
        /\ Process(WithResult(CloseFor(buffer, tasks[i], looks)), "tools", FALSE)
    /\ UNCHANGED <<block, said>>

(* An error that is no exit: the turn may go on. *)
ErrorEvent ==
    /\ ended = "" /\ count < MaxEvents
    /\ count' = count + 1
    /\ buffer' = Add(buffer, "error", <<>>) /\ heard' = TRUE
    /\ Update(buffer', "error", TRUE)
    /\ failing' = TRUE
    /\ UNCHANGED <<tasks, block, said, astray, lastStatus, ended>>
-----------------------------------------------------------------------------
(* The end of a turn, with what is told at once. *)
End(how, b) ==
    /\ ended = "" /\ ended' = how
    /\ buffer' = b
    /\ UNCHANGED <<tasks, block, said, astray, count, heard, lastStatus, failing>>

Done == 0

(* exit 0 *)
Completes ==
    LET b == IF heard THEN buffer ELSE Add(buffer, "text", <<Done>>) IN
    End("complete", b) /\ Update(b, "complete", TRUE)

(* An exit that is none, or no exit at all: behind an error nothing is     *)
(* shown any more.                                                         *)
Fails ==
    \/ failing /\ End("failed", buffer) /\ UNCHANGED editor
    \/ LET b == Add(buffer, "error", <<>>) IN
       ~failing /\ End("failed", b) /\ Update(b, "failed", TRUE)

(* What the runner calls raises. *)
Raises ==
    LET b == Add(buffer, "error", <<>>) IN
    End("failed", b) /\ Update(b, "failed", TRUE)

(* CancelledError: by /stop, by /clear, or by a shutdown.                  *)
Stopped == End("stopped", buffer) /\ Update(buffer, "stopped", TRUE)
Cleared == End("cleared", buffer) /\ UNCHANGED editor
Cancelled ==
    LET b == Add(buffer, "error", <<>>) IN
    End("cancelled", b) /\ Update(b, "cancelled", TRUE)

Ended == ended # "" /\ UNCHANGED vars

Init ==
    /\ tasks = <<>> /\ block = NoBlock /\ said = <<>> /\ astray = FALSE /\ count = 0
    /\ buffer = [segments |-> <<>>, opened |-> {}, stack |-> <<>>]
    /\ heard = FALSE /\ lastStatus = ""
    /\ editor = [shown |-> Render(<<>>, ""), recent |-> FALSE]
    /\ failing = FALSE /\ ended = ""

Next ==
    \/ Tick \/ Chunk \/ ToolUse \/ BlockStart \/ ToolUseStart \/ BlockDelta \/ BlockStop
    \/ TaskStart \/ ToolResult \/ TaskResult \/ ErrorEvent
    \/ Completes \/ Fails \/ Raises \/ Stopped \/ Cleared \/ Cancelled \/ Ended

Spec == Init /\ [][Next]_vars
-----------------------------------------------------------------------------
Told ==
    FlattenSeq([i \in DOMAIN buffer.segments |-> buffer.segments[i].parts])

(* The chat is shown what the main agent says and calls, in its order, and *)
(* nothing of what is said or called within a Task; the message is never   *)
(* longer than the platform takes, and once the turn has ended it tells    *)
(* how, with the newest of it.                                             *)
TranscriptKept ==
    /\ ~astray => SelectSeq(Told, LAMBDA n : n # Done) = said
    /\ ~astray => Len(buffer.stack) = Len(tasks)
    /\ Size(editor.shown.parts) + (IF editor.shown.cut THEN 1 ELSE 0)
         + (IF editor.shown.status = "" THEN 0 ELSE 1) <= Limit
    /\ ended \notin {"", "cleared"} /\ ~failing =>
        LET all == Rendered(buffer.segments) IN
        /\ editor.shown.status = ended
        /\ all # <<>> =>
            /\ editor.shown.parts # <<>>
            /\ IsSuffix(Last(editor.shown.parts).parts, Last(all).parts)

(* subagents.py:11: the Tasks that are active suppress what is said in     *)
(* them; also when they end in another order than they began.              *)
ActiveTasksSuppress == tasks # <<>> => InSubagent(buffer)

(* The message of a failed turn says so, also behind an error.             *)
FailureShown == ended = "failed" => editor.shown.status \in {"failed", "error"}
=============================================================================
