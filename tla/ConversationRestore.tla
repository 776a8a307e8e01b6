------------------------ MODULE ConversationRestore ------------------------
(***************************************************************************)
(* The conversations across a restart: what the trees save after each of   *)
(* their transitions (messaging/trees/graph.py, runtime.py, workflow.py),  *)
(* what is in sessions.json when the process dies, and what is accepted,   *)
(* reconciled and repaired when it starts again (trees/snapshot.py,        *)
(* trees/repository.py, session/store.py, workflow.restore).               *)
(*                                                                         *)
(* A message id is a number: prompts, then the statuses in the order they  *)
(* are sent, 0 for none. A conversation maps the id of a root to a graph,  *)
(* a graph maps the id of a prompt to its node; what is stored has the     *)
(* same form. Which pending node is claimed next, and tasks that outlive   *)
(* a cancellation, are TreeQueue's; the file is written as                 *)
(* SessionPersistence shows.                                               *)
(***************************************************************************)
EXTENDS Naturals, FiniteSets

CONSTANTS
    MaxPrompts,     \* messages that may be prompts
    MaxStatuses,    \* bound: messages admitted
    MaxCommands,    \* bound: stops and clears
    MaxCrashes

(* An old file, which may be there before all else, has two prompts and    *)
(* their statuses.                                                         *)
ASSUME RestartAssumption ==
    MaxPrompts \in Nat /\ MaxPrompts >= 2 /\ MaxStatuses \in Nat /\ MaxStatuses >= 2

VARIABLES
    up,             \* the process runs
    trees,          \* TreeRepository
    active,         \* _active of each tree: its node, or 0
    doomed,         \* trees whose claim has cancellation_requested
    command,        \* who holds _state_lock: "none", "save", "clear"
    owed,           \* trees that it has still to save
    store,          \* SessionStore._conversation
    file,           \* sessions.json
    stale,          \* _pending_restored_status_targets
    texts,          \* statuses whose last text is on its way
    shown,          \* the text of each status: "none", "working" (queued or
                    \* processing), "ended" or "interrupted"
    issued,         \* statuses sent
    commands, crashes,
    skipped,        \* trees that were not accepted (history)
    excused,        \* statuses whose last text was lost (history)
    buried          \* nodes that have left the file (history)

volatile == <<trees, active, doomed, command, owed, store, stale, texts>>
history == <<skipped, excused, buried>>
restoreVars == <<up, volatile, file, shown, issued, commands, crashes, history>>

Prompts == 1..MaxPrompts
Statuses == MaxPrompts + 1 .. MaxPrompts + MaxStatuses
Nothing == [t \in {} |-> 0]
Runnable == {"pending", "in_progress"}
With(f, x, value) == [y \in DOMAIN f \cup {x} |-> IF y = x THEN value ELSE f[y]]
Without(f, xs) == [y \in DOMAIN f \ xs |-> f[y]]
Born(conversation) ==
    UNION {{conversation[t][m].born : m \in DOMAIN conversation[t]} :
           t \in DOMAIN conversation}
-----------------------------------------------------------------------------
(* MessageTreeGraph *)
References(g) == DOMAIN g \cup ({g[m].status : m \in DOMAIN g} \ {0})

(* resolve_reference: a prompt, or the prompt of a status. *)
Resolve(g, r) == IF r \in DOMAIN g THEN r ELSE CHOOSE m \in DOMAIN g : g[m].status = r

(* get_descendants: the least set with the prompt and the children of its  *)
(* members.                                                                *)
KeepsChildren(g, xs) == \A c \in DOMAIN g : g[c].parent \in xs => c \in xs

Descendants(g, m) ==
    {c \in DOMAIN g : \A xs \in SUBSET DOMAIN g :
        m \in xs /\ KeepsChildren(g, xs) => c \in xs}

(* get_reference_descendants: replies to a message, and a prompt's status. *)
KeepsReplies(g, xs) ==
    \A c \in DOMAIN g :
        /\ g[c].ref \in xs => c \in xs
        /\ c \in xs /\ g[c].status # 0 => g[c].status \in xs

Subtree(g, r) ==
    {x \in References(g) : \A xs \in SUBSET References(g) :
        r \in xs /\ KeepsReplies(g, xs) => x \in xs}

Trees == DOMAIN trees
Known == UNION {References(trees[t]) : t \in Trees}
Holder(t) == IF active[t] \in DOMAIN trees[t] THEN trees[t][active[t]] ELSE [state |-> ""]

(* Asking such a claim for its UI target raises: see TreeQueue.            *)
Bare(t) == Holder(t).state = "error" /\ Holder(t).status = 0

(* save_tree_snapshot, or remove_tree_snapshot *)
Saved(t, repository) ==
    IF t \in DOMAIN repository THEN With(store, t, repository[t]) ELSE Without(store, {t})

Becomes(g, ms, state) ==
    [m \in DOMAIN g |-> IF m \in ms THEN [g[m] EXCEPT !.state = state] ELSE g[m]]
StatusesOf(g, ms) == {g[m].status : m \in ms} \ {0}
In(g, states) == {m \in DOMAIN g : g[m].state \in states}
-----------------------------------------------------------------------------
(* An admitted prompt becomes a root, or a node below what it replies to,  *)
(* and is claimed when nothing else of its tree is. A prompt that is known *)
(* is a duplicate, and changes nothing.                                    *)
Admit(m, r) ==
    LET s == MaxPrompts + issued + 1
        reply == r # 0
        t == IF reply THEN CHOOSE x \in Trees : r \in References(trees[x]) ELSE m
        g == IF reply THEN trees[t] ELSE Nothing
        claimed == ~reply \/ active[t] = 0
        node == [status |-> s, state |-> IF claimed THEN "in_progress" ELSE "pending",
                 parent |-> IF reply THEN Resolve(g, r) ELSE 0, ref |-> r, born |-> s]
    IN  /\ up /\ command = "none" /\ issued < MaxStatuses
        /\ m \notin Known
        /\ r \in Known \cup {0}
        /\ issued' = issued + 1
        /\ shown' = [shown EXCEPT ![s] = "working"]
        /\ trees' = With(trees, t, With(g, m, node))
        /\ active' = IF claimed THEN With(active, t, m) ELSE active
        /\ store' = Saved(t, trees')
        /\ UNCHANGED <<up, doomed, command, owed, file, stale, texts, commands, crashes,
                       history>>

(* A transition of a claim that is not cancelled, and what is saved of it. *)
OfClaim(t, g, told) ==
    /\ up /\ active[t] # 0 /\ t \notin doomed
    /\ trees' = [trees EXCEPT ![t] = g]
    /\ store' = Saved(t, trees')
    /\ texts' = texts \cup told
    /\ UNCHANGED <<up, active, doomed, command, owed, file, stale, shown, issued, commands,
                   crashes, history>>

(* record_session *)
Record(t) == Holder(t).state = "in_progress" /\ OfClaim(t, trees[t], {})

(* complete_claim, after the last text was handed to the outbox. *)
Complete(t) ==
    /\ Holder(t).state \in {"in_progress", "error"}
    /\ OfClaim(t, Becomes(trees[t], {active[t]}, "completed"), {Holder(t).status})

(* fail_claim, with the pending prompts below when it propagates. *)
Fail(t) ==
    /\ Holder(t).state \in {"in_progress", "error"}
    /\ \E below \in {{}, In(trees[t], {"pending"}) \cap Descendants(trees[t], active[t])} :
          LET failed == {active[t]} \cup below
              told == StatusesOf(trees[t], failed \cap In(trees[t], Runnable))
          IN  OfClaim(t, Becomes(trees[t], failed, "error"), told)

(* finish_and_claim_next: the successor is not saved. *)
Finish(t) ==
    /\ up /\ active[t] # 0
    /\ t \in doomed \/ Holder(t).state # "in_progress"
    /\ LET next == In(trees[t], {"pending"}) IN
       IF next = {} THEN active' = [active EXCEPT ![t] = 0] /\ UNCHANGED trees
       ELSE \E m \in next :
              /\ active' = [active EXCEPT ![t] = m]
              /\ trees' = [trees EXCEPT ![t] = Becomes(trees[t], {m}, "in_progress")]
    /\ doomed' = doomed \ {t}
    /\ UNCHANGED <<up, command, owed, store, file, stale, texts, shown, issued, commands,
                   crashes, history>>
-----------------------------------------------------------------------------
(* A command takes the lock, and keeps it until Conclude. The last text of *)
(* what it stops comes from the runner, or from it after its wait: here it *)
(* is on its way from the start.                                           *)
Begins(what) ==
    /\ up /\ command = "none" /\ commands < MaxCommands
    /\ commands' = commands + 1
    /\ command' = what
    /\ UNCHANGED <<up, store, file, stale, shown, issued, crashes, history>>

(* cancel_node *)
StopReply(t, m) ==
    LET hit == In(trees[t], Runnable) \cap {m}
    IN  /\ Begins("save")
        /\ active[t] = m => ~Bare(t)
        /\ trees' = [trees EXCEPT ![t] = Becomes(trees[t], hit, "error")]
        /\ doomed' = IF active[t] = m THEN doomed \cup {t} ELSE doomed
        /\ texts' = texts \cup StatusesOf(trees[t], hit)
        /\ owed' = {t}
        /\ UNCHANGED active

(* cancel_all *)
StopAll ==
    /\ Begins("save")
    /\ \A t \in Trees : ~Bare(t)
    /\ trees' = [t \in Trees |-> Becomes(trees[t], In(trees[t], Runnable), "error")]
    /\ doomed' = {t \in Trees : active[t] # 0}
    /\ texts' = texts \cup UNION {StatusesOf(trees[t], In(trees[t], Runnable)) : t \in Trees}
    /\ owed' = Trees
    /\ UNCHANGED active

(* remove_nodes, and clear_status for the prompt of a removed status. *)
Cleared(g, gone, owner) ==
    [m \in DOMAIN g \ gone |-> IF m = owner /\ g[m].status \in gone
                               THEN [g[m] EXCEPT !.status = 0, !.state = "error"]
                               ELSE g[m]]

(* remove_message_subtree: a root takes its tree with it. *)
ClearReply(t, r) ==
    LET g == trees[t]
        gone == Subtree(g, r)
        left == Cleared(g, gone, Resolve(g, r))
    IN  /\ Begins("save")
        /\ active[t] \in gone \cup {Resolve(g, r)} => ~Bare(t)
        /\ IF left = Nothing
           THEN /\ trees' = Without(trees, {t})
                /\ active' = Without(active, {t})
                /\ doomed' = doomed \ {t}
           ELSE /\ trees' = [trees EXCEPT ![t] = left]
                /\ doomed' = IF active[t] \in gone \cup {Resolve(g, r)}
                             THEN doomed \cup {t} ELSE doomed
                /\ UNCHANGED active
        /\ owed' = {t}
        /\ UNCHANGED texts

(* clear_scope: the chat's trees are detached at once. *)
ClearChat ==
    /\ Begins("clear")
    /\ \A t \in Trees : ~Bare(t)
    /\ trees' = Nothing /\ active' = Nothing /\ doomed' = {}
    /\ owed' = Trees
    /\ UNCHANGED texts

(* The file is replaced; what has left it is buried. *)
Write(conversation) ==
    /\ file' = conversation
    /\ buried' = buried \cup (Born(file) \ Born(conversation))

\* Mutant of Conclude: a cleared chat is written when the timer fires.
ConcludeLazily ==
    /\ up /\ command # "none"
    /\ command' = "none" /\ owed' = {}
    /\ store' = [t \in (DOMAIN store \ owed) \cup (owed \cap Trees) |->
                   IF t \in owed THEN trees[t] ELSE store[t]]
    /\ buried' = IF command = "clear" THEN buried \cup Born(store) ELSE buried
    /\ UNCHANGED <<up, trees, active, doomed, stale, texts, file, shown, issued, commands,
                   crashes, skipped, excused>>

(* The command's tasks are drained, or have been long enough waited for:   *)
(* the trees are saved as they are; a cleared chat is written at once.     *)
Conclude ==
    /\ up /\ command # "none"
    /\ command' = "none" /\ owed' = {}
    /\ IF command = "clear"
       THEN /\ store' = Nothing
            /\ file' = Nothing
            /\ buried' = buried \cup Born(store) \cup Born(file)
       ELSE /\ store' = [t \in (DOMAIN store \ owed) \cup (owed \cap Trees) |->
                           IF t \in owed THEN trees[t] ELSE store[t]]
            /\ UNCHANGED <<file, buried>>
    /\ UNCHANGED <<up, trees, active, doomed, stale, texts, shown, issued, commands, crashes,
                   skipped, excused>>

(* The debounced save, or the flush of close(). *)
Land ==
    /\ up /\ file # store
    /\ Write(store)
    /\ UNCHANGED <<up, volatile, shown, issued, commands, crashes, skipped, excused>>

(* The last text of a prompt reaches the chat. Whether a runner always     *)
(* hands one over, and when it is given up on its way, is Transcript's and *)
(* Delivery's.                                                             *)
Told(s) ==
    /\ up /\ s \in texts
    /\ texts' = texts \ {s}
    /\ shown' = [shown EXCEPT ![s] = "ended"]
    /\ UNCHANGED <<up, trees, active, doomed, command, owed, store, stale, file, issued,
                   commands, crashes, history>>

Crash ==
    /\ up /\ crashes < MaxCrashes
    /\ up' = FALSE
    /\ crashes' = crashes + 1
    /\ trees' = Nothing /\ active' = Nothing /\ doomed' = {}
    /\ command' = "none" /\ owed' = {}
    /\ store' = Nothing /\ stale' = {} /\ texts' = {}
    /\ UNCHANGED <<file, shown, issued, commands, history>>
-----------------------------------------------------------------------------
(* from_snapshot of the node, the graph and the repository. *)
Exact(n) == IF n.ref = 0 THEN n.parent ELSE n.ref

Ids(g, m) == {m, g[m].status} \ {0}

Accepted(t, g) ==
    /\ t \in DOMAIN g /\ g[t].parent = 0 /\ g[t].ref = 0
    /\ \A m \in DOMAIN g :
        /\ g[m].state \in Runnable => g[m].status # 0
        /\ g[m].status # m
        /\ \A n \in DOMAIN g \ {m} : Ids(g, m) \cap Ids(g, n) = {}
        /\ m # t =>
            /\ g[m].parent \in DOMAIN g
            /\ Exact(g[m]) \in Ids(g, g[m].parent)
    /\ Descendants(g, t) = DOMAIN g

(* What was runnable is interrupted. *)
Interrupted(g) ==
    [m \in DOMAIN g |->
        [g[m] EXCEPT !.ref = Exact(g[m]),
                     !.state = IF g[m].state \in Runnable THEN "error" ELSE g[m].state]]

(* _load, restore: before messages come. Of two trees that share a message *)
(* the first is kept; here both are not, since neither ever happens.       *)
Restart ==
    LET sound == {t \in DOMAIN file : Accepted(t, file[t])}
        kept == {t \in sound : \A x \in sound \ {t} :
                    References(file[t]) \cap References(file[x]) = {}}
        terminal(g) == In(g, {"completed", "error"})
    IN  /\ ~up
        /\ up' = TRUE
        /\ trees' = [t \in kept |-> Interrupted(file[t])]
        /\ active' = [t \in kept |-> 0]
        /\ store' = trees'
        /\ stale' = UNION {StatusesOf(file[t], In(file[t], Runnable)) : t \in kept}
        /\ skipped' = skipped \cup (DOMAIN file \ kept)
        /\ excused' = excused \cup
              {s \in UNION {StatusesOf(file[t], terminal(file[t])) : t \in kept} :
               shown[s] = "working"}
        /\ UNCHANGED <<doomed, command, owed, texts, file, shown, issued, commands, crashes,
                       buried>>

(* repair_restored_statuses: one edit after another, each of which the     *)
(* platform may refuse.                                                    *)
Repair(s) ==
    /\ up /\ s \in stale
    /\ stale' = stale \ {s}
    /\ \/ shown' = [shown EXCEPT ![s] = "interrupted"] /\ UNCHANGED excused
       \/ excused' = excused \cup {s} /\ UNCHANGED shown
    /\ UNCHANGED <<up, trees, active, doomed, command, owed, store, texts, file, issued,
                   commands, crashes, skipped, buried>>

Idle == up /\ crashes = MaxCrashes /\ UNCHANGED restoreVars
-----------------------------------------------------------------------------
(* A file from before replies named the exact message: a prompt that has   *)
(* ended, and one below it that had not.                                   *)
Legacy ==
    LET node(s, state, parent) ==
            [status |-> s, state |-> state, parent |-> parent, ref |-> 0, born |-> s]
    IN  [t \in {1} |-> [m \in {1, 2} |->
            IF m = 1 THEN node(MaxPrompts + 1, "completed", 0)
            ELSE node(MaxPrompts + 2, "in_progress", 1)]]

RestoreInit ==
    /\ up = FALSE
    /\ file \in {Nothing, Legacy}
    /\ issued = Cardinality(Born(file))
    /\ shown = [s \in Statuses |->
                 IF s \notin Born(file) THEN "none"
                 ELSE IF s = MaxPrompts + 1 THEN "ended" ELSE "working"]
    /\ trees = Nothing /\ active = Nothing /\ doomed = {}
    /\ command = "none" /\ owed = {}
    /\ store = Nothing /\ stale = {} /\ texts = {}
    /\ commands = 0 /\ crashes = 0
    /\ skipped = {} /\ excused = {} /\ buried = {}

Claims == \E t \in Trees : Record(t) \/ Complete(t) \/ Fail(t) \/ Finish(t)

Commands ==
    \/ \E t \in Trees : \E m \in DOMAIN trees[t] : StopReply(t, m)
    \/ \E t \in Trees : \E r \in References(trees[t]) : ClearReply(t, r)
    \/ StopAll \/ ClearChat \/ Conclude

RestoreNext ==
    \/ \E m \in Prompts, r \in Known \cup {0} : Admit(m, r)
    \/ Claims \/ Commands \/ Land \/ Crash \/ Restart
    \/ \E s \in Statuses : Told(s) \/ Repair(s)
    \/ Idle

RestoreSpec == RestoreInit /\ [][RestoreNext]_restoreVars
-----------------------------------------------------------------------------
(***************************************************************************)
(* What a process leaves in the file, whenever it dies, the next one takes *)
(* as it is: every tree is accepted, with each prompt where it was; and    *)
(* nothing in it is still to run that no claim or queue has.               *)
(***************************************************************************)
RestoredWhole ==
    /\ skipped = {}
    /\ \A t \in Trees : Accepted(t, trees[t])
    /\ \A t \in Trees : active[t] = 0 => In(trees[t], Runnable) = {}

(* What has left the file, and what a /clear of the chat has removed, does *)
(* not come back, neither by a save that was late nor by a restart.        *)
ClearedStay == Born(trees) \cap buried = {}

(***************************************************************************)
(* Once the statuses are repaired, one that shows its prompt as queued or  *)
(* processed tells the truth, or its last text is on its way; unless the   *)
(* platform refused the edit, or the process died between the save that    *)
(* said the prompt had ended and the delivery of its last text.            *)
(***************************************************************************)
StatusesTrue ==
    up /\ stale = {} =>
        \A t \in Trees : \A m \in DOMAIN trees[t] :
            LET n == trees[t][m] IN
            n.status # 0 /\ shown[n.status] = "working" =>
                n.state \in Runnable \/ n.status \in texts \cup excused

(* A restart loses nothing that was saved, and leaves nothing in limbo. *)
RestartKept == RestoredWhole /\ ClearedStay /\ StatusesTrue

(* "Replace stale queued/processing UI" (workflow.py:195): an answer that  *)
(* is shown is not replaced.                                               *)
AnswersStay == [][\A s \in Statuses : shown[s] = "ended" => shown'[s] = "ended"]_restoreVars
=============================================================================
