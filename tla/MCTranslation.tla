---------------------------- MODULE MCTranslation ----------------------------
(***************************************************************************)
(* What is said, from one form to another: a behaviour is one of the       *)
(* parsers of text, of the native calls, of the history of a request or of *)
(* the transcript of a chat. MCGateway runs it.                            *)
(***************************************************************************)
EXTENDS Naturals, Sequences

VARIABLES component,
    written, rest, think, tool, seen,
    texts, arriving, framer, structured, shown, closing, calls, status,
    source, given, messages, pending, quarantined, chat, upstream,
    tasks, block, said, astray, count, buffer, heard, lastStatus, editor, failing, ended

CONSTANTS
    MaxMatch, MaxPieces, MaxBlock, MaxDepth, MaxItems, MaxMessages,
    Ids, Indexes, MaxEvents, ShowResults, TextTail, Limit

Text == INSTANCE TextParsers WITH
    Pieces <- {"word", "less", "thought", "slash", "orphan", "control", "bullet", "call",
               "lines", "web"},
    MaxCut <- 4, answer <- written

Native == INSTANCE NativeTools WITH
    Pieces <- {"word", "bracket", "blank", "namespace", "one", "two", "integer",
               "mistyped", "crossed", "undeclared", "deep", "unended", "long"},
    Asides <- {"word", "one", "unended", "namespace"},
    MaxPieces <- 2, MaxCut <- 2, chunks <- closing

History == INSTANCE History WITH MaxBlocks <- 2

Transcript == INSTANCE Transcript

textVars == <<written, rest, think, tool, seen>>
nativeVars == <<texts, arriving, framer, structured, shown, closing, calls, status>>
historyVars == <<source, given, messages, pending, quarantined, chat, upstream>>
transcriptVars ==
    <<tasks, block, said, astray, count, buffer, heard, lastStatus, editor, failing,
      ended>>

translationVars == <<textVars, nativeVars, historyVars, transcriptVars>>

Translations == {"text", "native", "history", "transcript"}

(* What is not chosen stands still. *)
TranslationInit ==
    /\ IF component = "text" THEN Text!Init
       ELSE /\ written = <<>> /\ rest = <<>> /\ think = {} /\ tool = {} /\ seen = {}
    /\ IF component = "native" THEN Native!Init
       ELSE /\ texts = {} /\ arriving = {} /\ framer = {} /\ structured = FALSE
            /\ shown = {} /\ closing = <<>> /\ calls = <<>> /\ status = ""
    /\ component # "history" => source = "messages"
    /\ History!Init /\ Transcript!Init

TranslationNext ==
    \/ /\ component = "text" /\ Text!Next
       /\ UNCHANGED <<nativeVars, historyVars, transcriptVars>>
    \/ /\ component = "native" /\ Native!Next
       /\ UNCHANGED <<textVars, historyVars, transcriptVars>>
    \/ /\ component = "history" /\ History!Next
       /\ UNCHANGED <<textVars, nativeVars, transcriptVars>>
    \/ /\ component = "transcript" /\ Transcript!Next
       /\ UNCHANGED <<textVars, nativeVars, historyVars>>

(* What is thought, shown and called keeps to its role: see TextParsers.   *)
RolesKept == component = "text" => Text!RolesKept

(* Calls written as text are made, once and whole, or given on as text:    *)
(* see NativeTools.                                                        *)
NativeCalls == component = "native" => Native!NativeCalls

(* Every call of a history is followed by its result: see History.         *)
HistoryKept == component = "history" => History!HistoryKept

(* The chat is shown what the main agent says, and how it ends: see        *)
(* Transcript.                                                             *)
TranscriptKept == component = "transcript" => Transcript!TranscriptKept
=============================================================================
