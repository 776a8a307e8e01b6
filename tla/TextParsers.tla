---------------------------- MODULE TextParsers ----------------------------
(***************************************************************************)
(* What becomes of the text of an answer: the parser of thinking tags      *)
(* (core/anthropic/thinking.py) and, behind it, the parser of tool calls   *)
(* that are written as text (core/anthropic/tools.py), as the chat stream  *)
(* feeds and flushes them (providers/openai_chat/provider.py).             *)
(*                                                                         *)
(* An answer is made of pieces, each with what it means, and arrives cut   *)
(* anywhere. A tag, or the name in one, is a letter: <t> is <think>, *<f>  *)
(* begins a call, <p> a parameter, and <|c|> is a control token; W{q} is a *)
(* web tool with its JSON, _ is blank. All parameters have one name.       *)
(***************************************************************************)
EXTENDS Naturals, Sequences, SequencesExt, FiniteSetsExt

CONSTANTS
    Pieces,       \* of what answers are made: see Text
    MaxPieces,
    MaxCut,       \* characters of a chunk
    MaxMatch      \* characters that may follow a bullet (100 in the code)

VARIABLES
    answer,       \* its pieces
    rest,         \* the characters that have not arrived
    think,        \* the parser of tags: buffer, inside
    tool,         \* the parser of calls: state, buffer, value of the parameter
    seen          \* what the client got: thinking, shown, calls

vars == <<answer, rest, think, tool, seen>>

Open == <<"<", "t", ">">>
Close == <<"<", "/", "t", ">">>
Param == <<"<", "p", ">">>
ParamEnd == <<"<", "/", "p", ">">>
Bullet == "*"
Blank == "_"

From(s, i) == SubSeq(s, i, Len(s))
(* Where t begins in s, 0 if it does not. *)
Find(s, t) ==
    LET at == {i \in DOMAIN s : IsPrefix(t, From(s, i))}
    IN  IF at = {} THEN 0 ELSE Min(at)
Before(s, i) == SubSeq(s, 1, i - 1)
LastBracket(s) == SelectLastInSeq(s, LAMBDA c : c = "<")
Strip(s) ==
    LET solid == {i \in DOMAIN s : s[i] # Blank}
    IN  IF solid = {} THEN <<>> ELSE SubSeq(s, Min(solid), Max(solid))
-----------------------------------------------------------------------------
(* ThinkTagParser: a step gives what may be given out, and the new state.  *)
GiveUpTo(p, i, next, inside) ==
    [kind |-> IF p.inside THEN "thinking" ELSE "text", out |-> Before(p.buffer, i),
     parser |-> [buffer |-> From(p.buffer, next), inside |-> inside]]

\* Mutant of Hold: a tag that is cut is not waited for.
HoldNothing(buffer, tags) == Len(buffer) + 1

(* Where a tag may be beginning at the end of the buffer. *)
Hold(buffer, tags) ==
    LET i == LastBracket(buffer) IN
    IF i # 0 /\ \E tag \in tags :
        Len(From(buffer, i)) < Len(tag) /\ IsPrefix(From(buffer, i), tag)
    THEN i
    ELSE Len(buffer) + 1

(* _parse_outside_think *)
OutsideThink(p) ==
    LET open == Find(p.buffer, Open)
        orphan == Find(p.buffer, Close)
        hold == Hold(p.buffer, {Open, Close})
    IN  IF orphan # 0 /\ (open = 0 \/ orphan < open)
        THEN GiveUpTo(p, orphan, orphan + Len(Close), FALSE)
        ELSE IF open # 0 THEN GiveUpTo(p, open, open + Len(Open), TRUE)
        ELSE GiveUpTo(p, hold, hold, FALSE)

(* _parse_inside_think *)
InsideThink(p) ==
    LET close == Find(p.buffer, Close)
        hold == Hold(p.buffer, {Close})
    IN  IF close # 0 THEN GiveUpTo(p, close, close + Len(Close), FALSE)
        ELSE GiveUpTo(p, hold, hold, TRUE)

(* ThinkTagParser.feed: the parts, until a step leaves the buffer alone.   *)
RECURSIVE ThinkParts(_, _)
ThinkParts(p, parts) ==
    LET step == IF p.inside THEN InsideThink(p) ELSE OutsideThink(p)
        more == IF step.out = <<>> THEN parts
                ELSE Append(parts, [kind |-> step.kind, out |-> step.out])
    IN  IF step.parser.buffer = p.buffer THEN [parser |-> step.parser, parts |-> parts]
        ELSE ThinkParts(step.parser, more)
-----------------------------------------------------------------------------
(* HeuristicToolParser, on [state, buffer, value, shown, calls]. *)
Shows(h, text, buffer) == [h EXCEPT !.shown = @ \o text, !.buffer = buffer]

Control == <<"<", "|", "c", "|", ">">>
RECURSIVE StripControl(_)
StripControl(s) ==
    LET i == Find(s, Control) IN
    IF i = 0 THEN s ELSE Before(s, i) \o StripControl(From(s, i + Len(Control)))

(* _extract_web_tool_json_calls: everything in the buffer goes with it.    *)
WebCalls(s) ==
    LET w == Find(s, <<"W">>)
        call == From(s, w)
        json == From(call, Find(call, <<"{">>))
    IN  IF w # 0 /\ Find(call, <<"{">>) # 0 /\ IsPrefix(<<"{", "q", "}">>, json)
        THEN <<"web">> ELSE <<>>

(* _split_incomplete_control_token_tail: where the tail begins; a tail     *)
(* with nothing before it is not held.                                     *)
ControlTail(s) ==
    LET starts == {i \in DOMAIN s : IsPrefix(<<"<", "|">>, From(s, i))}
        last == IF starts = {} THEN 1 ELSE Max(starts)
    IN  IF last = 1 \/ Find(From(s, last), <<"|", ">">>) # 0 THEN Len(s) + 1 ELSE last

(* _FUNC_START_PATTERN: where a call's head ends. *)
HeadEnd(s) ==
    LET heads == {i \in DOMAIN s : \E j \in i..Len(s) :
                    /\ s[i] = Bullet
                    /\ \A k \in (i + 1)..j : s[k] = Blank
                    /\ IsPrefix(<<"<", "f", ">">>, From(s, j + 1))}
    IN  IF heads = {} THEN 0 ELSE Min(heads) + Find(From(s, Min(heads)), <<"f", ">">>)

(* The parameters that are complete in the buffer. *)
RECURSIVE TakeParams(_)
TakeParams(h) ==
    LET open == Find(h.buffer, Param)
        body == From(h.buffer, open + Len(Param))
        close == Find(body, ParamEnd)
    IN  IF open = 0 \/ close = 0 THEN h
        ELSE TakeParams([Shows(h, Before(h.buffer, open), From(body, close + Len(ParamEnd)))
                            EXCEPT !.value = Strip(Before(body, close))])

(* Whether what stands behind the parameters ends the call. *)
EndsCall(h) ==
    \/ Find(h.buffer, <<Bullet>>) # 0
    \/ /\ h.buffer # <<>>
       /\ ~IsPrefix(<<"<">>, Strip(h.buffer))
       /\ Find(h.buffer, <<"<", "p">>) = 0

EndCall(h) ==
    LET bullet == Find(h.buffer, <<Bullet>>)
        end == IF bullet = 0 THEN Len(h.buffer) + 1 ELSE bullet
    IN  [Shows(h, Before(h.buffer, end), From(h.buffer, end)) EXCEPT
            !.calls = Append(@, h.value), !.state = "text"]

(* The loop of feed. *)
RECURSIVE Parse(_)
Parse(h) ==
    LET bullet == Find(h.buffer, <<Bullet>>)
        tail == ControlTail(h.buffer)
        params == TakeParams(h)
    IN  CASE h.state = "text" /\ bullet = 0 ->
                Shows(h, Before(h.buffer, tail), From(h.buffer, tail))
          [] h.state = "text" /\ bullet # 0 ->
                Parse([Shows(h, Before(h.buffer, bullet), From(h.buffer, bullet))
                        EXCEPT !.state = "matching"])
          [] h.state = "matching" /\ HeadEnd(h.buffer) # 0 ->
                Parse([h EXCEPT !.state = "parameters", !.value = <<>>,
                                !.buffer = From(@, HeadEnd(h.buffer) + 1)])
          [] h.state = "matching" /\ HeadEnd(h.buffer) = 0 ->
                IF Len(h.buffer) > MaxMatch
                THEN Parse([Shows(h, <<h.buffer[1]>>, Tail(h.buffer)) EXCEPT
                            !.state = "text"])
                ELSE h
          [] OTHER -> IF EndsCall(params) THEN Parse(EndCall(params)) ELSE params

(* HeuristicToolParser.feed *)
FeedTool(h, text) ==
    LET buffer == StripControl(h.buffer \o text)
        web == WebCalls(buffer)
    IN  Parse([h EXCEPT !.buffer = IF web = <<>> THEN buffer ELSE <<>>,
                        !.calls = @ \o web])

(* HeuristicToolParser.flush: a call that has begun is made. *)
FlushTool(h) ==
    LET buffer == StripControl(h.buffer)
        open == Find(buffer, Param)
    IN  IF h.state # "parameters" THEN h
        ELSE [h EXCEPT !.state = "text", !.buffer = <<>>,
                       !.calls = Append(@, IF open = 0 THEN h.value
                                           ELSE Strip(From(buffer, open + Len(Param))))]
-----------------------------------------------------------------------------
(* A part of the answer's text, behind the parser of tags. *)
TakePart(t, s, part) ==
    IF part.kind = "thinking"
    THEN [tool |-> t, seen |-> [s EXCEPT !.thinking = @ \o part.out]]
    ELSE LET h == FeedTool([state |-> t.state, buffer |-> t.buffer, value |-> t.value,
                            shown |-> s.shown, calls |-> s.calls], part.out)
         IN  [tool |-> [state |-> h.state, buffer |-> h.buffer, value |-> h.value],
              seen |-> [s EXCEPT !.shown = h.shown, !.calls = h.calls]]

RECURSIVE TakeParts(_, _, _)
TakeParts(t, s, parts) ==
    IF parts = <<>> THEN [tool |-> t, seen |-> s]
    ELSE LET taken == TakePart(t, s, Head(parts))
         IN  TakeParts(taken.tool, taken.seen, Tail(parts))

(* A chunk with content. *)
Arrive ==
    /\ rest # <<>>
    /\ \E n \in 1..MaxCut :
        /\ n <= Len(rest)
        /\ rest' = From(rest, n + 1)
        /\ LET fed == ThinkParts([think EXCEPT !.buffer = @ \o Before(rest, n + 1)], <<>>)
               taken == TakeParts(tool, seen, fed.parts)
           IN  think' = fed.parser /\ tool' = taken.tool /\ seen' = taken.seen
    /\ UNCHANGED answer

(* The end of the stream: what the first parser holds is given out as it   *)
(* is, then the second is flushed.                                         *)
Finish ==
    /\ rest = <<>>
    /\ ~seen.ended
    /\ LET s == IF think.inside THEN [seen EXCEPT !.thinking = @ \o think.buffer]
                ELSE [seen EXCEPT !.shown = @ \o think.buffer]
           h == FlushTool([state |-> tool.state, buffer |-> tool.buffer,
                           value |-> tool.value, shown |-> s.shown, calls |-> s.calls])
       IN  /\ seen' = [s EXCEPT !.calls = h.calls, !.ended = TRUE]
           /\ tool' = [state |-> h.state, buffer |-> h.buffer, value |-> h.value]
           /\ think' = [think EXCEPT !.buffer = <<>>]
    /\ UNCHANGED <<answer, rest>>

Done == seen.ended /\ UNCHANGED vars
-----------------------------------------------------------------------------
(* The pieces and what each of them means. *)
Nothing == [thinking |-> <<>>, shown |-> <<>>, calls |-> <<>>]
Piece(text, meaning) == [text |-> text] @@ meaning
Text ==
    [word |-> Piece(<<"x">>, [Nothing EXCEPT !.shown = <<"x">>]),
     less |-> Piece(<<"<", "x">>, [Nothing EXCEPT !.shown = <<"<", "x">>]),
     thought |-> Piece(Open \o <<"y">> \o Close, [Nothing EXCEPT !.thinking = <<"y">>]),
     slash |-> Piece(Open \o <<"<", "/">> \o Close,
                     [Nothing EXCEPT !.thinking = <<"<", "/">>]),
     orphan |-> Piece(Close, Nothing),
     control |-> Piece(Control, Nothing),
     web |-> Piece(<<"W", "{", "q", "}">>, [Nothing EXCEPT !.calls = <<"web">>]),
     bullet |-> Piece(<<Bullet, "x">>, [Nothing EXCEPT !.shown = <<Bullet, "x">>]),
     call |-> Piece(<<Bullet, Blank, "<", "f", ">">> \o Param \o <<"v">> \o ParamEnd,
                    [Nothing EXCEPT !.calls = <<<<"v">>>>]),
     lines |-> Piece(<<Bullet, "<", "f", ">", Blank>> \o Param \o <<"v">> \o ParamEnd,
                     [Nothing EXCEPT !.calls = <<<<"v">>>>, !.shown = <<Blank>>])]

Whole(field) == FlattenSeq([i \in DOMAIN answer |-> Text[answer[i]][field]])
Expected ==
    [thinking |-> Whole("thinking"), shown |-> Whole("shown"), calls |-> Whole("calls")]

Init ==
    /\ answer \in UNION {[1..n -> Pieces] : n \in 1..MaxPieces}
    /\ rest = Whole("text")
    /\ think = [buffer |-> <<>>, inside |-> FALSE]
    /\ tool = [state |-> "text", buffer |-> <<>>, value |-> <<>>]
    /\ seen = [thinking |-> <<>>, shown |-> <<>>, calls |-> <<>>, ended |-> FALSE]

Next == Arrive \/ Finish \/ Done

Spec == Init /\ [][Next]_vars
-----------------------------------------------------------------------------
Has(pieces) == ToSet(answer) \cap pieces # {}

(* Wherever an answer is cut, its thinking becomes thinking and a call in  *)
(* it is made once, with its parameter; plain text is shown as it is.      *)
RolesKept ==
    seen.ended =>
        /\ seen.thinking = Expected.thinking
        /\ ~Has({"lines", "web"}) => seen.calls = Expected.calls
        /\ ~Has({"bullet", "call", "lines", "control", "web"}) => seen.shown = Expected.shown

(* test_parsers.py:179-186 cuts a call at every place and finds it whole.  *)
CutAnywhere == seen.ended => seen.calls = Expected.calls

(* test_parsers.py:90-97: a control token that is cut is never shown.      *)
ControlStripped == seen.ended /\ Has({"control"}) => "|" \notin ToSet(seen.shown)
=============================================================================
