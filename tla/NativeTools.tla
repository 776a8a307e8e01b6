---------------------------- MODULE NativeTools ----------------------------
(***************************************************************************)
(* Tool calls that NVIDIA NIM leaves in an answer as a model's own markup, *)
(* and the stream that turns them into calls                               *)
(* (providers/nvidia_nim/native_tool_stream.py).                           *)
(*                                                                         *)
(* An answer has two texts, its content and its reasoning, and either may  *)
(* hold one block of calls; it arrives cut anywhere. The namespace is ][,  *)
(* and each of its tags is the namespace and a letter: s and e around the  *)
(* block, i or u (a tool that was not declared) and j around a call, a and *)
(* A, b and B around an argument; b is an integer. _ is blank.             *)
(***************************************************************************)
EXTENDS Naturals, Sequences, SequencesExt, FiniteSetsExt

CONSTANTS
    Pieces,       \* of what texts are made: see Text
    MaxPieces,
    Asides,       \* and the texts of one piece that reasoning may be
    MaxCut,       \* characters of a chunk: the content is cut, reasoning not
    MaxBlock,     \* _MAX_NATIVE_TOOL_BLOCK_CHARS
    MaxDepth      \* _MAX_NATIVE_ARGUMENT_DEPTH

VARIABLES
    texts,        \* the pieces of content and of reasoning
    arriving,     \* the characters of each that have not arrived
    framer,       \* mode, tail and block of each
    structured,   \* whether structured calls were seen
    shown,        \* what was given on, of each
    chunks,       \* the chunks of the end: "payload", "call", "finish"
    calls,        \* the calls that were made of the block
    status        \* "open", "finished", "ended" or "failed"

vars == <<texts, arriving, framer, structured, shown, chunks, calls, status>>

Fields == {"content", "reasoning"}
Namespace == <<"]", "[">>
Tag(letter) == Append(Namespace, letter)
Start == Tag("s")
End == Tag("e")
Blank == "_"

From(s, i) == SubSeq(s, i, Len(s))
Before(s, i) == SubSeq(s, 1, i - 1)
Find(s, t) ==
    LET at == {i \in DOMAIN s : IsPrefix(t, From(s, i))}
    IN  IF at = {} THEN 0 ELSE Min(at)
IsBlank(s) == ToSet(s) \subseteq {Blank}
Solid(s) ==
    LET first == SelectInSeq(s, LAMBDA c : c # Blank)
    IN  IF first = 0 THEN <<>> ELSE From(s, first)

(* _partial_marker_suffix_length: where the marker may be beginning.       *)
Partial(s, marker) ==
    LET at == {i \in DOMAIN s :
                Len(From(s, i)) < Len(marker) /\ IsPrefix(From(s, i), marker)}
    IN  IF at = {} THEN Len(s) + 1 ELSE Min(at)
-----------------------------------------------------------------------------
(* The framer, [mode, tail, parts, block], with what it gives out.         *)
Failed == [mode |-> "failed", tail |-> <<>>, parts |-> <<>>, block |-> <<>>]
Gives(out, f) == [out |-> out, framer |-> f]

(* _append_tool_fragment *)
AddPart(f, part) ==
    IF Len(f.parts \o part) > MaxBlock THEN Failed ELSE [f EXCEPT !.parts = @ \o part]

(* _feed_tool_block *)
FeedBlock(f, text) ==
    LET candidate == f.tail \o text
        end == Find(candidate, End)
        held == Partial(candidate, End)
        added == AddPart(f, Before(candidate, IF end = 0 THEN held ELSE end))
    IN  IF added = Failed THEN Failed
        ELSE IF end = 0 THEN [added EXCEPT !.tail = From(candidate, held)]
        ELSE IF ~IsBlank(From(candidate, end + Len(End))) THEN Failed
        ELSE [mode |-> "after", tail |-> <<>>, parts |-> <<>>, block |-> added.parts]

\* Mutant of FeedText: a marker is looked for in one chunk at a time.
FeedTextAlone(f, text) ==
    LET start == Find(text, Start) IN
    IF start # 0
    THEN Gives(Before(text, start),
               FeedBlock([f EXCEPT !.mode = "block"], From(text, start + Len(Start))))
    ELSE Gives(text, f)

(* feed, in the text before a block. *)
FeedText(f, text) ==
    LET candidate == f.tail \o text
        start == Find(candidate, Start)
        held == Partial(candidate, Start)
        protected == IF start # 0 THEN start ELSE held
        namespace == Find(candidate, Namespace)
    IN  IF namespace # 0 /\ namespace # protected
        THEN Gives(<<>>, Failed)
        ELSE IF start # 0
        THEN Gives(Before(candidate, start),
                   FeedBlock([f EXCEPT !.mode = "block", !.tail = <<>>],
                             From(candidate, start + Len(Start))))
        ELSE Gives(Before(candidate, held), [f EXCEPT !.tail = From(candidate, held)])

(* feed *)
Feed(f, text) ==
    IF text = <<>> THEN Gives(<<>>, f)
    ELSE CASE f.mode = "text" -> FeedText(f, text)
           [] f.mode = "block" -> Gives(<<>>, FeedBlock(f, text))
           [] f.mode = "after" -> Gives(<<>>, IF IsBlank(text) THEN f ELSE Failed)

(* finish *)
FinishFramer(f, complete) ==
    IF f.mode = "text" /\ Find(f.tail, Namespace) = 0 THEN Gives(f.tail, f)
    ELSE Gives(<<>>, IF f.mode \in {"text", "block"} /\ complete THEN Failed ELSE f)
-----------------------------------------------------------------------------
(* _parse_element: an element and what follows it, or none. *)
Bad == [ok |-> FALSE, name |-> "", text |-> <<>>, nested |-> FALSE, rest |-> <<>>]
Opens == {"a", "b"}
Closing == [a |-> "A", b |-> "B"]

(* ParseElement: s begins behind the opening tag. *)
RECURSIVE ParseElement(_, _, _, _)
ParseElement(name, s, text, depth) ==
    LET tag == Find(s, Namespace)
        letter == IF tag # 0 /\ tag + 2 <= Len(s) THEN s[tag + 2] ELSE ""
        rest == From(s, tag + 3)
        before == text \o Before(s, tag)
    IN  IF depth > MaxDepth \/ tag = 0 THEN Bad
        ELSE CASE letter = Closing[name] ->
                    [ok |-> TRUE, name |-> name, text |-> before, nested |-> FALSE,
                     rest |-> rest]
               [] letter \in Opens ->
                    LET child == ParseElement(letter, rest, <<>>, depth + 1) IN
                    IF ~child.ok THEN Bad
                    ELSE [ParseElement(name, child.rest, before, depth)
                             EXCEPT !.nested = TRUE]
               [] OTHER -> Bad

(* _parse_arguments: the elements of a call, ended by one that is bad.     *)
RECURSIVE ParseArguments(_)
ParseArguments(s) ==
    LET body == Solid(s) IN
    IF body = <<>> THEN <<>>
    ELSE IF Before(body, 3) # Namespace \/ Len(body) < 3 \/ body[3] \notin Opens
    THEN <<Bad>>
    ELSE LET element == ParseElement(body[3], From(body, 4), <<>>, 1) IN
         IF element.ok THEN <<element>> \o ParseArguments(element.rest) ELSE <<Bad>>

(* _coerce_leaf, _append_object_value, _validate_arguments: a name given   *)
(* twice is a list, which is no integer.                                   *)
Valid(elements) ==
    LET integers == {i \in DOMAIN elements : elements[i].name = "b"} IN
    /\ \A i \in DOMAIN elements : elements[i].ok
    /\ \A i \in integers :
        /\ integers = {i}
        /\ ~elements[i].nested
        /\ SelectSeq(elements[i].text, LAMBDA c : c # Blank) = <<"1">>

(* _parse_tool_block: its calls, ended by a bad one if it is malformed.    *)
BadCalls == <<<<"bad">>>>
RECURSIVE ParseBlock(_)
ParseBlock(s) ==
    LET block == Solid(s)
        body == From(block, Len(Tag("i")) + 1)
        end == Find(body, Tag("j"))
        arguments == ParseArguments(Before(body, end))
    IN  IF block = <<>> THEN <<>>
        ELSE IF ~IsPrefix(Tag("i"), block) \/ end = 0 THEN BadCalls
        ELSE IF ~Valid(arguments) THEN BadCalls
        ELSE <<[i \in DOMAIN arguments |-> arguments[i].name]>>
                \o ParseBlock(From(body, end + Len(Tag("j"))))

Malformed(made) == made = <<>> \/ Last(made) = <<"bad">>
-----------------------------------------------------------------------------
(* A chunk before the last: some of each text, or structured calls.        *)
Chunk ==
    /\ status = "open"
    /\ \E n \in 0..MaxCut, aside \in BOOLEAN, native \in BOOLEAN :
        LET cut == [content |-> n,
                    reasoning |-> IF aside THEN Len(arriving.reasoning) ELSE 0] IN
        /\ n <= Len(arriving.content)
        /\ IF native THEN ~structured /\ n = 0 /\ ~aside
           ELSE cut # [f \in Fields |-> 0]
        /\ LET fed == [f \in Fields |-> Feed(framer[f], Before(arriving[f], cut[f] + 1))]
           IN  /\ framer' = [f \in Fields |-> fed[f].framer]
               /\ status' = IF \E f \in Fields : fed[f].framer = Failed
                            THEN "failed" ELSE status
               /\ shown' = IF status' = "failed" THEN shown
                           ELSE [f \in Fields |-> shown[f] \o fed[f].out]
        /\ arriving' = [f \in Fields |-> From(arriving[f], cut[f] + 1)]
        /\ structured' = (structured \/ native)
    /\ UNCHANGED <<texts, chunks, calls>>

(* The calls of the one block there may be, if no structured calls were    *)
(* seen; bad if something is wrong with it.                              *)
Made(complete) ==
    LET blocks == {f \in Fields : framer[f].mode = "after"} IN
    IF ~complete \/ blocks = {} THEN <<>>
    ELSE IF Cardinality(blocks) > 1 THEN BadCalls
    ELSE LET made == ParseBlock(framer[CHOOSE f \in blocks : TRUE].block)
         IN  IF Malformed(made) THEN BadCalls ELSE made

(* _normalized_chunks, _synthetic_chunks: what is shown comes first, and   *)
(* the finish reason with the last of the chunks.                          *)
Normalized(payload, made, terminal) ==
    (IF payload \/ (made = <<>> /\ terminal) THEN <<"payload">> ELSE <<>>)
    \o [i \in DOMAIN made |-> "call"]
    \o (IF terminal THEN <<"finish">> ELSE <<>>)

(* The chunk with the finish reason, or the end of a stream without one.   *)
FinishNative ==
    /\ status = "open"
    /\ \A f \in Fields : arriving[f] = <<>>
    /\ \E terminal \in BOOLEAN :
        LET done == [f \in Fields |-> FinishFramer(framer[f], ~structured)]
            made == Made(~structured)
            payload == \E f \in Fields : done[f].out # <<>>
        IN  IF made = BadCalls \/ \E f \in Fields : done[f].framer = Failed
            THEN status' = "failed" /\ UNCHANGED <<shown, chunks, calls>>
            ELSE /\ status' = "ended"
                 /\ shown' = [f \in Fields |-> shown[f] \o done[f].out]
                 /\ calls' = made
                 /\ chunks' = Normalized(payload, made, terminal)
    /\ UNCHANGED <<texts, arriving, framer, structured>>

Over == status \in {"ended", "failed"} /\ UNCHANGED vars
-----------------------------------------------------------------------------
(* The pieces: what a block calls, and what is wrong, with the block or    *)
(* with its place.                                                         *)
Call(arguments) == Tag("i") \o arguments \o Tag("j")
Argument(name, value) == Tag(name) \o value \o Tag(Closing[name])
Block(body) == Start \o <<Blank>> \o body \o End
Text ==
    [word |-> <<"x">>, bracket |-> <<"x", "]">>, blank |-> <<Blank>>,
     namespace |-> Namespace,
     one |-> Block(Call(Argument("a", <<"]">>))),
     two |-> Block(Call(Argument("a", Argument("b", <<"x">>))) \o <<Blank>> \o Call(<<>>)),
     integer |-> Block(Call(Argument("b", <<Blank, "1">>))),
     mistyped |-> Block(Call(Argument("b", <<"x">>))),
     crossed |-> Block(Call(Tag("a") \o Tag("b") \o Tag("A") \o Tag("B"))),
     undeclared |-> Block(Tag("u") \o Tag("j")),
     deep |-> Block(Call(Argument("a", Argument("a", Argument("a", <<>>))))),
     unended |-> Start \o Call(<<>>),
     long |-> Block([i \in 1..MaxBlock |-> "x"])]

Blocks == DOMAIN Text \ {"word", "bracket", "blank", "namespace"}
Calls == [one |-> <<<<"a">>>>, two |-> <<<<"a">>, <<>>>>, integer |-> <<<<"b">>>>]

Flat(pieces) == FlattenSeq([i \in DOMAIN pieces |-> Text[pieces[i]]])

Init ==
    /\ texts \in [content : UNION {[1..n -> Pieces] : n \in 0..MaxPieces},
                 reasoning : {<<>>} \cup {<<p>> : p \in Asides}]
    /\ "unended" \notin ToSet(Before(texts.content, Len(texts.content)))
    /\ arriving = [f \in Fields |-> Flat(texts[f])]
    /\ framer = [f \in Fields |-> [Failed EXCEPT !.mode = "text"]]
    /\ structured = FALSE
    /\ shown = [f \in Fields |-> <<>>]
    /\ chunks = <<>> /\ calls = <<>> /\ status = "open"

Next == Chunk \/ FinishNative \/ Over

Spec == Init /\ [][Next]_vars
-----------------------------------------------------------------------------
(* The reference: where the first block of a text is, and whether the text *)
(* is one that is refused, whatever else the answer has.                   *)
BlockAt(pieces) == SelectInSeq(pieces, LAMBDA p : p \in Blocks)
Misplaced(pieces) ==
    \/ \E i \in DOMAIN pieces : pieces[i] = "long" /\ i = BlockAt(pieces)
    \/ \E i \in DOMAIN pieces, j \in DOMAIN pieces :
        /\ j < i
        /\ \/ pieces[j] \in Blocks \ {"unended"} /\ j = BlockAt(pieces)
              /\ pieces[i] # "blank"
           \/ pieces[j] = "namespace" /\ \A k \in 1..j : pieces[k] \notin Blocks
Incomplete(pieces) == pieces # <<>> /\ Last(pieces) \in {"namespace", "unended"}

(* Wherever the answer is cut, its block becomes its calls, once, and not  *)
(* if there are structured ones; text is shown, markup never; and what is  *)
(* no proper markup makes the attempt fail, before the finish.             *)
NativeCalls ==
    LET found == {f \in Fields : BlockAt(texts[f]) # 0}
        block(f) == texts[f][BlockAt(texts[f])]
        good == found = {} \/ \E f \in found : found = {f} /\ block(f) \in DOMAIN Calls
    IN  /\ \A f \in Fields : Find(shown[f], Namespace) = 0
        /\ status \in {"ended", "failed"} =>
            \/ \E f \in Fields : Misplaced(texts[f]) /\ status = "failed"
            \/ /\ ~structured
               /\ ~good \/ \E f \in Fields : Incomplete(texts[f])
               /\ status = "failed"
            \/ /\ status = "ended"
               /\ \A f \in Fields : ~Misplaced(texts[f])
               /\ structured \/ (good /\ \A f \in Fields : ~Incomplete(texts[f]))
               /\ calls = (IF structured \/ found = {} THEN <<>>
                           ELSE Calls[block(CHOOSE f \in found : TRUE)])
               /\ \A f \in Fields :
                    shown[f] = Flat(SelectSeq(
                        IF f \in found THEN Before(texts[f], BlockAt(texts[f]))
                        ELSE texts[f],
                        LAMBDA p : p \notin {"namespace"}))
               /\ "finish" \in ToSet(chunks) => Last(chunks) = "finish"
=============================================================================
