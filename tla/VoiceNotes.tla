----------------------------- MODULE VoiceNotes -----------------------------
(***************************************************************************)
(* Voice notes before they become turns: the flow that transcribes one     *)
(* (messaging/platforms/voice_flow.py) and the registry that lets a        *)
(* command cancel it at any moment (messaging/voice.py). A note whose      *)
(* transcription is itself a /stop cancels the others from inside its own  *)
(* hand-off.                                                               *)
(*                                                                         *)
(* A handle is one call of VoiceNoteFlow.handle. The platform may deliver  *)
(* a voice message twice, so two handles may be of one message.            *)
(***************************************************************************)
EXTENDS NoValue, Naturals, FiniteSets

CONSTANTS Handles, Commands, Messages, MaxKills

ASSUME VoiceAssumption == None \notin Handles \cup Messages

VARIABLES
    phase,      \* of each handle: see Init and the actions
    voice,      \* the voice message it is for
    speech,     \* "prompt" or "stop": what the note turns out to say
    pending,    \* _pending by voice message: the handle whose claim is there
    bound,      \* its status message is in the registry as well
    task,       \* its hand-off: "none", "created", "running", "done"
    killed,     \* the hand-off has been cancelled
    handed,     \* handed_off: the hand-off has reached the message handler
    protected,  \* _active_cancellations: claims whose hand-off is cancelling
    cancellation,   \* of each canceller: its stage, the hand-offs it waits
                \* for and the notes it has released
    status,     \* the status message: "none", "posted", "turn" (the handler
                \* has it), "canceller", "deleted" or "lost"
    kills       \* tasks cancelled from outside so far

voiceVars == <<phase, voice, speech, pending, bound, task, killed, handed,
          protected, cancellation, status, kills>>

Cancellers == Commands \cup Handles
Owned(h) == voice[h] # None /\ pending[voice[h]] = h
Without(owners) ==
    [m \in Messages |-> IF pending[m] \in owners THEN None ELSE pending[m]]
Idle == [stage |-> "idle", waits |-> {}, released |-> {}]

(* reserve: a message that is pending already is left to its first handle. *)
Start(h, m, s) ==
    /\ phase[h] = "new"
    /\ voice' = [voice EXCEPT ![h] = m]
    /\ speech' = [speech EXCEPT ![h] = s]
    /\ \/ /\ pending[m] # None
          /\ phase' = [phase EXCEPT ![h] = "ended"]
          /\ UNCHANGED pending
       \/ /\ pending[m] = None
          /\ phase' = [phase EXCEPT ![h] = "sending"]
          /\ pending' = [pending EXCEPT ![m] = h]
    /\ UNCHANGED <<bound, task, killed, handed, protected, cancellation, status, kills>>

(* bind_status: a note cancelled while its status was sent is given up. *)
StatusSent(h) ==
    /\ phase[h] = "sending"
    /\ status' = [status EXCEPT ![h] = "posted"]
    /\ bound' = [bound EXCEPT ![h] = Owned(h)]
    /\ phase' = [phase EXCEPT ![h] = IF Owned(h) THEN "working" ELSE "cleaning"]
    /\ UNCHANGED <<voice, speech, pending, task, killed, handed, protected,
                   cancellation, kills>>

(* The status is not delivered, or the download or transcription fails. *)
WorkFails(h) ==
    /\ phase[h] \in {"sending", "working"}
    /\ phase' = [phase EXCEPT ![h] = "cleaning"]
    /\ UNCHANGED <<voice, speech, pending, bound, task, killed, handed,
                   protected, cancellation, status, kills>>

(* handoff: refused for a note that has been cancelled meanwhile. *)
Handoff(h) ==
    /\ phase[h] = "working"
    /\ \/ /\ ~Owned(h)
          /\ phase' = [phase EXCEPT ![h] = "cleaning"]
          /\ UNCHANGED task
       \/ /\ Owned(h)
          /\ phase' = [phase EXCEPT ![h] = "handing"]
          /\ task' = [task EXCEPT ![h] = "created"]
    /\ UNCHANGED <<voice, speech, pending, bound, killed, handed, protected,
                   cancellation, status, kills>>

(* _run_callback; a task cancelled before it starts never runs. *)
TaskStarts(h) ==
    /\ task[h] = "created"
    /\ \/ /\ killed[h]
          /\ task' = [task EXCEPT ![h] = "done"]
          /\ UNCHANGED <<handed, status>>
       \/ /\ ~killed[h]
          /\ task' = [task EXCEPT ![h] = "running"]
          /\ handed' = [handed EXCEPT ![h] = TRUE]
          /\ status' = [status EXCEPT ![h] = "turn"]
    /\ UNCHANGED <<phase, voice, speech, pending, bound, killed, protected,
                   cancellation, kills>>

(***************************************************************************)
(* The message handler finds a /stop: it runs in a task of its own, which  *)
(* keeps the claim it works for and which the hand-off, even if it is      *)
(* cancelled, waits for (_finish_owned_operation).                         *)
(***************************************************************************)
Request(h) ==
    /\ task[h] = "running" /\ speech[h] = "stop" /\ ~killed[h]
    /\ cancellation[h] = Idle
    /\ cancellation' = [cancellation EXCEPT ![h].stage = "requested"]
    /\ UNCHANGED <<phase, voice, speech, pending, bound, task, killed, handed,
                   protected, status, kills>>

(* The message handler returns, fails or is cancelled. *)
TaskEnds(h) ==
    /\ task[h] = "running" /\ cancellation[h].stage \notin {"requested", "draining"}
    /\ task' = [task EXCEPT ![h] = "done"]
    /\ UNCHANGED <<phase, voice, speech, pending, bound, killed, handed,
                   protected, cancellation, status, kills>>

(* _finish_ownership: what the caller does next depends on how it ended. *)
FinishOwnership(h) ==
    /\ phase[h] = "handing" /\ task[h] = "done"
    /\ pending' = Without({h})
    /\ phase' \in {[phase EXCEPT ![h] = "ended"], [phase EXCEPT ![h] = "cleaning"]}
    /\ UNCHANGED <<voice, speech, bound, task, killed, handed, protected,
                   cancellation, status, kills>>

(* The handle's own task is cancelled: its hand-off, if it runs, with it. *)
HandleCancelled(h) ==
    /\ kills < MaxKills
    /\ kills' = kills + 1
    /\ \/ /\ phase[h] \in {"sending", "working"}
          /\ phase' = [phase EXCEPT ![h] = "cleaning"]
          /\ UNCHANGED killed
       \/ /\ phase[h] = "handing" /\ task[h] = "running"
          /\ killed' = [killed EXCEPT ![h] = TRUE]
          /\ UNCHANGED phase
    /\ UNCHANGED <<voice, speech, pending, bound, task, handed, protected,
                   cancellation, status>>

\* Mutant of Deletes: the status goes whoever has released the note.
DeletesAnyway(h) == ~handed[h] /\ status[h] = "posted"

(* The flow deletes a status that nobody else has been given. *)
Deletes(h) ==
    ~handed[h] /\ status[h] # "none" /\ (Owned(h) \/ ~bound[h])

(* _clear_failed_pending_voice, in a task that outlives a cancelled caller. *)
Clean(h) ==
    /\ phase[h] = "cleaning"
    /\ phase' = [phase EXCEPT ![h] = "ended"]
    /\ pending' = Without({h})
    /\ status' = IF Deletes(h) THEN [status EXCEPT ![h] = "deleted"] ELSE status
    /\ UNCHANGED <<voice, speech, bound, task, killed, handed, protected,
                   cancellation, kills>>

\* Mutant of Excluded: a hand-off spares no claim but its own.
ExcludedIsOwn(h, c) == h = c

(* _is_excluded: its own note, and a note whose hand-off is cancelling too. *)
Excluded(h, c) == h = c \/ h \in protected

(***************************************************************************)
(* cancel, cancel_all, cancel_scope: the notes are released and their      *)
(* hand-offs cancelled at once; then the caller waits for those to end. A  *)
(* caller that is a hand-off is protected from the others meanwhile.       *)
(***************************************************************************)
Cancel(c, targets) ==
    LET released == {h \in targets : Owned(h) /\ ~Excluded(h, c)}
    IN  /\ cancellation[c].stage = IF c \in Handles THEN "requested" ELSE "idle"
        /\ pending' = Without(released)
        /\ killed' = [h \in Handles |->
                         killed[h] \/ (h \in released /\ task[h] # "none")]
        /\ cancellation' = [cancellation EXCEPT ![c] =
              [stage |-> "draining", released |-> released,
               waits |-> {h \in released : task[h] # "none"}]]
        /\ protected' = protected \cup ({c} \cap Handles)
        /\ UNCHANGED <<phase, voice, speech, bound, task, handed, status, kills>>

(* /stop and /clear, for everything or in reply to one note. *)
Cancels(c) == Cancel(c, Handles) \/ \E h \in Handles : Cancel(c, {h})

(***************************************************************************)
(* The command gets the notes it released. The caller of a /clear that was *)
(* cancelled meanwhile loses that result: the messages stay in the chat.   *)
(***************************************************************************)
Report(c, how) ==
    /\ cancellation' = [cancellation EXCEPT ![c].stage = "returned"]
    /\ protected' = protected \ {c}
    /\ status' = [h \in Handles |->
          IF h \in cancellation[c].released /\ bound[h] /\ ~handed[h]
          THEN how ELSE status[h]]

CancelReturns(c) ==
    /\ cancellation[c].stage = "draining"
    /\ \A h \in cancellation[c].waits : task[h] = "done"
    /\ Report(c, "canceller")
    /\ UNCHANGED <<phase, voice, speech, pending, bound, task, killed, handed,
                   kills>>

CancelReturnsCancelled(c) ==
    /\ cancellation[c].stage = "draining" /\ c \in Commands /\ kills < MaxKills
    /\ \A h \in cancellation[c].waits : task[h] = "done"
    /\ kills' = kills + 1
    /\ Report(c, "lost")
    /\ UNCHANGED <<phase, voice, speech, pending, bound, task, killed, handed>>

AllEnded == (\A h \in Handles : phase[h] = "ended") /\ UNCHANGED voiceVars
-----------------------------------------------------------------------------
VoiceInit ==
    /\ phase = [h \in Handles |-> "new"]
    /\ voice = [h \in Handles |-> None]
    /\ speech = [h \in Handles |-> "prompt"]
    /\ pending = [m \in Messages |-> None]
    /\ bound = [h \in Handles |-> FALSE]
    /\ task = [h \in Handles |-> "none"]
    /\ killed = [h \in Handles |-> FALSE]
    /\ handed = [h \in Handles |-> FALSE]
    /\ protected = {}
    /\ cancellation = [c \in Cancellers |-> Idle]
    /\ status = [h \in Handles |-> "none"]
    /\ kills = 0

Flow(h) ==
    \/ StatusSent(h) \/ WorkFails(h) \/ Handoff(h) \/ FinishOwnership(h) \/ Clean(h)

VoiceNext ==
    \/ \E h \in Handles : 
          Flow(h) \/ TaskStarts(h) \/ Request(h) \/ TaskEnds(h) \/ HandleCancelled(h)
    \/ \E h \in Handles, m \in Messages, s \in {"prompt", "stop"} : Start(h, m, s)
    \/ \E c \in Cancellers : Cancels(c)
    \/ \E c \in Cancellers : CancelReturns(c) \/ CancelReturnsCancelled(c)
    \/ AllEnded

(* Tasks run, and deliveries, downloads and message handlers come to an end. *)
VoiceFairness ==
    /\ \A h \in Handles :
          WF_voiceVars(Flow(h)) /\ WF_voiceVars(TaskStarts(h)) /\ WF_voiceVars(TaskEnds(h))
    /\ \A h \in Handles : WF_voiceVars(Cancels(h))
    /\ \A c \in Cancellers : WF_voiceVars(CancelReturns(c))

VoiceSpec == VoiceInit /\ [][VoiceNext]_voiceVars /\ VoiceFairness
-----------------------------------------------------------------------------
(***************************************************************************)
(* A voice note and its status message have one owner. A note is released  *)
(* by at most one cancellation, whose return means that the note's hand-   *)
(* off is over and never starts; the flow never deletes a status message   *)
(* that a command was given; and when a flow has ended its claim is gone   *)
(* and its status message is the turn's, a command's or deleted.           *)
(***************************************************************************)
OneOwner ==
    /\ \A h \in Handles :
          /\ Cardinality({c \in Cancellers : h \in cancellation[c].released}) <= 1
          /\ status[h] = "deleted" /\ bound[h] =>
                \A c \in Cancellers : h \notin cancellation[c].released
          /\ phase[h] = "ended" => ~Owned(h)
          /\ phase[h] = "ended" /\ status[h] = "posted" =>
                \E c \in Cancellers :
                   h \in cancellation[c].released /\ cancellation[c].stage # "returned"
    /\ \A c \in Cancellers : cancellation[c].stage = "returned" =>
          \A h \in cancellation[c].released : task[h] \in {"none", "done"}

(***************************************************************************)
(* Every voice note's flow comes to an end, and every command that cancels *)
(* notes returns: also when hand-offs that say /stop cancel each other.    *)
(***************************************************************************)
NotesEnd ==
    /\ \A h \in Handles : phase[h] # "new" ~> phase[h] = "ended"
    /\ \A c \in Cancellers :
          cancellation[c].stage \in {"requested", "draining"}
              ~> cancellation[c].stage = "returned"
=============================================================================
