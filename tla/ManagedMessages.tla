--------------------------- MODULE ManagedMessages ---------------------------
(***************************************************************************)
(* Who answers for the messages of a chat: the log of managed messages     *)
(* (session/managed_message_log.py), the trees, or the handler that is     *)
(* still at work on them (workflow.py, turn_intake.py, commands.py).       *)
(*                                                                         *)
(* The log is written without the workflow's lock, which a standalone      *)
(* /clear holds from collecting what to delete to erasing the log, while   *)
(* it waits for the tasks it cancelled. Platform calls are made outside    *)
(* of the lock, may be refused, and may be cut short by a cancellation.    *)
(***************************************************************************)
EXTENDS Naturals, SequencesExt, FiniteSets

CONSTANTS
    MaxHandlers,    \* bound: messages received, and the start-up notice
    MaxMishaps,     \* bound: refusals, failures, cancellations
    Caps            \* values of max_message_log_entries_per_chat; 0 is none

ASSUME MessagesAssumption == MaxHandlers \in Nat /\ Caps \subseteq Nat

Handlers == 1..MaxHandlers
In(h) == <<"in", h>>
Out(h) == <<"out", h>>
NoReply == <<"none", 0>>
Kinds == {"turn", "feedback", "reply", "clear", "notice"}

VARIABLES
    kind,           \* what a handler is for: "reply" is a /clear in reply
    stage,          \* and where it is
    token,          \* the AdmissionToken of a turn, or the notice's generation
    parent,         \* the reference a turn replies to
    ids,            \* what it has to delete
    visible,        \* the messages in the chat
    log, cap,       \* ManagedMessageLog: _items of the chat, and _cap
    trees,          \* the references of the published trees
    generation,     \* _stop_generation and the chat's clear generation
    clearing,       \* the standalone /clear that holds the lock, or 0
    older,          \* what the latest one found in the chat (history)
    crossed,        \* what was recorded while it drained (history)
    lost,           \* messages nobody need answer for (history)
    cut,            \* handlers that were cancelled (history)
    mishaps

handlers == <<kind, stage, token, parent, ids>>
history == <<older, crossed, lost, cut, mishaps>>
messagesVars == <<handlers, visible, log, cap, trees, generation, clearing, history>>

MessagesInit ==
    /\ kind = [h \in Handlers |-> "turn"]
    /\ stage = [h \in Handlers |-> "new"]
    /\ token = [h \in Handlers |-> <<0, 0>>]
    /\ parent = [h \in Handlers |-> NoReply]
    /\ ids = [h \in Handlers |-> {}]
    /\ visible = {} /\ log = <<>> /\ cap \in Caps /\ trees = {}
    /\ generation = <<0, 0>> /\ clearing = 0
    /\ older = {} /\ crossed = {} /\ lost = {} /\ cut = {} /\ mishaps = 0

Unlocked == clearing = 0
Goes(h, from, to) == stage[h] = from /\ stage' = [stage EXCEPT ![h] = to]
Faulty == mishaps < MaxMishaps /\ mishaps' = mishaps + 1
Tracked == Range(log)

(* remove_ids: what is retained keeps its order. *)
Retained(set) == {i \in DOMAIN log : log[i] \notin set}
Place(set, i) == Cardinality({j \in Retained(set) : j <= i})
Without(set) ==
    [k \in 1..Cardinality(Retained(set)) |->
        log[CHOOSE i \in Retained(set) : Place(set, i) = k]]
-----------------------------------------------------------------------------
(* _append and _trim: what is new goes to the end, the oldest is dropped.  *)
Appended(m) ==
    IF m \in Tracked THEN log
    ELSE IF cap = 0 \/ Len(log) < cap THEN Append(log, m)
    ELSE Append(Tail(log), m)

(* What is recorded while a /clear drains will be erased unread; what the  *)
(* cap drops, and no tree refers to, nobody answers for.                   *)
Records(m) ==
    /\ log' = Appended(m)
    /\ lost' = lost \cup (Tracked \ (Range(log') \cup trees))
    /\ crossed' = IF Unlocked THEN crossed ELSE crossed \cup {m}

(* What was said in the chat in reply to r, and to that. *)
Replies(set) == {m \in trees : \/ m[1] = "in" /\ parent[m[2]] \in set
                               \/ m[1] = "out" /\ In(m[2]) \in set}

Subtree(r) == LET one == {r} \cup Replies({r})
                  two == one \cup Replies(one)
                  three == two \cup Replies(two)
              IN three \cup Replies(three)
-----------------------------------------------------------------------------
(* A standalone /clear answers for itself, and a notice has no message. *)
Logged(k) == k \notin {"clear", "notice"}

(* A message is received, or the notice is due at start-up. *)
Receive(h) ==
    /\ Unlocked /\ \A g \in 1..(h - 1) : stage[g] # "new"
    /\ \E k \in IF h = 1 THEN Kinds ELSE Kinds \ {"notice"} :
        /\ kind' = [kind EXCEPT ![h] = k]
        /\ visible' = IF k = "notice" THEN visible ELSE visible \cup {In(h)}
        /\ IF Logged(k) THEN Records(In(h)) ELSE UNCHANGED <<log, lost, crossed>>
        /\ Goes(h, "new", IF k = "notice" THEN "sending" ELSE "received")
    /\ token' = [token EXCEPT ![h] = generation]
    /\ UNCHANGED <<parent, ids, cap, trees, generation, clearing, older, cut, mishaps>>

Resolve(h) ==
    /\ kind[h] = "turn" /\ Goes(h, "received", "sending")
    /\ \E r \in trees \cup {NoReply} : parent' = [parent EXCEPT ![h] = r]
    /\ UNCHANGED <<kind, token, ids, visible, log, cap, trees, generation, clearing, history>>

(* /stats, or a /stop, global or not, which need not have anything to say. *)
Command(h) ==
    /\ kind[h] = "feedback"
    /\ Goes(h, "received", "sending") \/ Goes(h, "received", "over")
    /\ \/ UNCHANGED generation
       \/ Unlocked /\ generation' = <<generation[1] + 1, generation[2]>>
    /\ UNCHANGED <<kind, token, parent, ids, visible, log, cap, trees, clearing, history>>
-----------------------------------------------------------------------------
SendStatus(h) ==
    /\ Goes(h, "sending", "sent")
    /\ visible' = visible \cup {Out(h)}
    /\ UNCHANGED <<kind, token, parent, ids, log, cap, trees, generation, clearing, history>>

StatusFails(h) ==
    /\ Faulty /\ Goes(h, "sending", "over")
    /\ UNCHANGED <<kind, token, parent, ids, visible, log, cap, trees, generation, clearing,
                   older, crossed, lost, cut>>

(* Without the lock, as soon as the platform has given the message its id. *)
Record(h) ==
    /\ kind[h] # "notice"
    /\ Goes(h, "sent", IF kind[h] = "turn" THEN "admitting" ELSE "over")
    /\ Records(Out(h))
    /\ UNCHANGED <<kind, token, parent, ids, visible, cap, trees, generation, clearing, older,
                   cut, mishaps>>

(* One that is cancelled meanwhile commits, and has nothing deleted. *)
Admit(h) ==
    /\ Unlocked
    /\ IF token[h] # generation
       THEN /\ Goes(h, "admitting", IF h \in cut THEN "over" ELSE "deleting")
            /\ ids' = [ids EXCEPT ![h] = {Out(h)}]
            /\ UNCHANGED trees
       ELSE IF parent[h] \notin trees \cup {NoReply}
       THEN /\ Goes(h, "admitting", IF h \in cut THEN "over" ELSE "deleting")
            /\ ids' = [ids EXCEPT ![h] = {In(h), Out(h)}]
            /\ UNCHANGED trees
       ELSE /\ Goes(h, "admitting", "over")
            /\ trees' = trees \cup {In(h), Out(h)}
            /\ UNCHANGED ids
    /\ UNCHANGED <<kind, token, parent, visible, log, cap, generation, clearing, history>>
-----------------------------------------------------------------------------
(* /clear in reply: a branch, or feedback that there is nothing. *)
ClearReply(h) ==
    /\ Unlocked /\ kind[h] = "reply"
    /\ \/ Goes(h, "received", "sending") /\ UNCHANGED <<ids, trees>>
       \/ \E r \in trees :
            /\ Goes(h, "received", "deleting")
            /\ ids' = [ids EXCEPT ![h] = Subtree(r) \cup {In(h)}]
            /\ trees' = trees \ Subtree(r)
    /\ UNCHANGED <<kind, token, parent, visible, log, cap, generation, clearing, history>>

(* What the trees refer to may have been dropped from the log. *)
Deletable == Tracked \cup trees

(* Messages of handlers that will delete them, or will not be admitted. *)
Provisional ==
    {Out(h) : h \in {g \in Handlers : kind[g] \in {"turn", "notice"}
                                      /\ stage[g] \in {"sent", "admitting"}}}

(* /clear: from here on turns and notices from before it are out. *)
Collect(h) ==
    /\ Unlocked /\ kind[h] = "clear" /\ Goes(h, "received", "clearing")
    /\ ids' = [ids EXCEPT ![h] = Deletable]
    /\ generation' = <<generation[1], generation[2] + 1>>
    /\ clearing' = h
    /\ trees' = {}
    /\ older' = (Tracked \cup trees \cup Provisional) \cap visible
    /\ UNCHANGED <<kind, token, parent, visible, log, cap, crossed, lost, cut, mishaps>>

(* The tasks are drained: the chat's log is erased and the store written.  *)
Erase(h) ==
    /\ clearing = h /\ clearing' = 0
    /\ log' = <<>>
    /\ \/ /\ h \notin cut /\ Goes(h, "clearing", "deleting")
          /\ ids' = [ids EXCEPT ![h] = @ \cup {In(h)}]
          /\ UNCHANGED <<lost, mishaps>>
       \/ /\ h \in cut /\ Goes(h, "clearing", "failing")
          /\ lost' = lost \cup ids[h]
          /\ UNCHANGED <<ids, mishaps>>
       \/ /\ h \notin cut /\ Faulty /\ Goes(h, "clearing", "failing")
          /\ lost' = lost \cup ids[h]
          /\ UNCHANGED ids
    /\ UNCHANGED <<kind, token, parent, visible, cap, trees, generation, older, crossed, cut>>

(* It raises: the command is recorded after all. *)
Failing(h) ==
    /\ Unlocked /\ Goes(h, "failing", "over")
    /\ Records(In(h))
    /\ UNCHANGED <<kind, token, parent, ids, visible, cap, trees, generation, clearing, older,
                   cut, mishaps>>
-----------------------------------------------------------------------------
(* The platform is asked to delete; some of it may stay. Who asked forgets *)
(* all of it, except a /clear, which has erased the log.                   *)
Delete(h) ==
    /\ kind[h] # "notice" /\ Goes(h, "deleting", "over")
    /\ \E gone \in SUBSET ids[h] :
        /\ visible' = visible \ gone
        /\ lost' = lost \cup (ids[h] \ gone)
        /\ IF gone = ids[h] THEN UNCHANGED mishaps ELSE Faulty
    /\ log' = IF kind[h] = "clear" THEN log ELSE Without(ids[h])
    /\ UNCHANGED <<kind, token, parent, ids, cap, trees, generation, clearing, older,
                   crossed, cut>>

\* Mutant of Unwanted: the reservation is not compared.
UnwantedCut(h) == h \in cut

(* The notice is recorded, unless a /clear or a cancellation crossed it. *)
Unwanted(h) == token[h][2] # generation[2] \/ h \in cut

Finalize(h) ==
    /\ Unlocked /\ kind[h] = "notice"
    /\ IF Unwanted(h)
       THEN /\ Goes(h, "sent", "deleting") /\ UNCHANGED <<log, lost, crossed>>
            /\ ids' = [ids EXCEPT ![h] = {Out(h)}]
       ELSE Goes(h, "sent", "over") /\ Records(Out(h)) /\ UNCHANGED ids
    /\ UNCHANGED <<kind, token, parent, visible, cap, trees, generation, clearing, older, cut,
                   mishaps>>

(* Its deletion succeeds, raises, or is refused without a word. *)
DeleteNotice(h) ==
    /\ kind[h] = "notice"
    /\ \/ /\ Goes(h, "deleting", "forgetting") /\ visible' = visible \ {Out(h)}
          /\ UNCHANGED <<lost, mishaps>>
       \/ Faulty /\ Goes(h, "deleting", "keeping") /\ UNCHANGED <<visible, lost>>
       \/ /\ Faulty /\ Goes(h, "deleting", "forgetting") /\ UNCHANGED visible
          /\ lost' = lost \cup {Out(h)}
    /\ UNCHANGED <<kind, token, parent, ids, log, cap, trees, generation, clearing, older,
                   crossed, cut>>

Settle(h) ==
    /\ Unlocked
    /\ \/ Goes(h, "keeping", "kept") /\ Records(Out(h))
       \/ /\ Goes(h, "forgetting", "over") /\ log' = Without({Out(h)})
          /\ UNCHANGED <<lost, crossed>>
    /\ UNCHANGED <<kind, token, parent, ids, visible, cap, trees, generation, clearing, older,
                   cut, mishaps>>
-----------------------------------------------------------------------------
(* Its task is cancelled. What it was sending may arrive, with nobody to   *)
(* learn the id; an operation of its own is finished first.                *)
Interrupt(h) ==
    /\ Faulty /\ h \notin cut /\ cut' = cut \cup {h}
    /\ \/ Goes(h, "sending", "over") /\ UNCHANGED <<visible, lost>>
       \/ /\ Goes(h, "sending", "over")
          /\ visible' = visible \cup {Out(h)} /\ lost' = lost \cup {Out(h)}
       \/ Goes(h, "sent", "over") /\ lost' = lost \cup {Out(h)} /\ UNCHANGED visible
       \/ /\ \/ kind[h] = "notice" /\ stage[h] = "sent"
             \/ stage[h] \in {"admitting", "clearing"}
          /\ UNCHANGED <<stage, visible, lost>>
       \/ /\ Goes(h, "received", IF kind[h] = "clear" THEN "failing" ELSE "over")
          /\ UNCHANGED <<visible, lost>>
       \/ /\ kind[h] # "notice"
          /\ Goes(h, "deleting", IF kind[h] = "clear" THEN "failing" ELSE "over")
          /\ \E gone \in SUBSET ids[h] :
                visible' = visible \ gone /\ lost' = lost \cup (ids[h] \ gone)
    /\ UNCHANGED <<kind, token, parent, ids, log, cap, trees, generation, clearing, older,
                   crossed>>

AllOver == \A h \in Handlers : stage[h] \in {"over", "kept"}
ChatAtRest == AllOver /\ UNCHANGED messagesVars

MessagesNext ==
    \/ \E h \in Handlers :
        \/ Receive(h) \/ Resolve(h) \/ Command(h)
        \/ SendStatus(h) \/ StatusFails(h) \/ Record(h) \/ Admit(h)
        \/ ClearReply(h) \/ Collect(h) \/ Erase(h) \/ Failing(h)
        \/ Delete(h) \/ Finalize(h) \/ DeleteNotice(h) \/ Settle(h) \/ Interrupt(h)
    \/ ChatAtRest

MessagesSpec == MessagesInit /\ [][MessagesNext]_messagesVars
-----------------------------------------------------------------------------
Messages == {In(h) : h \in Handlers} \cup {Out(h) : h \in Handlers}

MessagesTypeOK ==
    /\ kind \in [Handlers -> Kinds]
    /\ stage \in [Handlers -> {"new", "received", "sending", "sent", "admitting", "clearing",
                               "deleting", "failing", "keeping", "forgetting", "over",
                               "kept"}]
    /\ ids \in [Handlers -> SUBSET Messages]
    /\ visible \cup trees \cup older \cup crossed \cup lost \cup Tracked \subseteq Messages
    /\ IsInjective(log) /\ (cap = 0 \/ Len(log) <= cap)
    /\ clearing \in Handlers \cup {0}

(* The messages that a handler which has not ended answers for. *)
Holds(h, m) ==
    \/ m = In(h) /\ kind[h] = "clear" /\ stage[h] # "over"
    \/ m = Out(h) /\ stage[h] \in {"sent", "keeping"}
    \/ m \in ids[h] /\ stage[h] \in {"clearing", "deleting"}

InHand == {m \in Messages : \E h \in Handlers : Holds(h, m)}

(***************************************************************************)
(* Somebody answers for every message that is in the chat: the log, where  *)
(* the next /clear finds it, a tree, or a handler at work; unless it was   *)
(* given up: a deletion was refused or cut short, or a cap dropped it, or  *)
(* its id never came. (And unless it was recorded while a /clear drained:  *)
(* see ClearDeletesTracked.)                                               *)
(***************************************************************************)
Answered == visible \subseteq Tracked \cup trees \cup InHand \cup lost \cup crossed

(***************************************************************************)
(* A /clear is final for what it found: when all have ended, none of it is *)
(* in the chat, were it a status or a notice whose id came later, except   *)
(* what was given up, what belongs to a handler that was cancelled, and a  *)
(* notice that could not be deleted.                                       *)
(***************************************************************************)
ClearIsFinal ==
    AllOver => \A m \in older \cap visible :
        m \in lost \/ m[2] \in cut \/ stage[m[2]] = "kept"

MessagesKept == MessagesTypeOK /\ Answered /\ ClearIsFinal

(***************************************************************************)
(* "Standalone clear deletes every tracked user and FCC message in its     *)
(* chat" (ARCHITECTURE.md:1414), so that nothing stays behind that nobody  *)
(* knows of: Answered without its last exception, when all have ended.     *)
(***************************************************************************)
ClearDeletesTracked == AllOver => visible \subseteq Tracked \cup trees \cup lost
=============================================================================
