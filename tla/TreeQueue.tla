----------------------------- MODULE TreeQueue -----------------------------
(***************************************************************************)
(* Prompts of one chat, the conversation trees they grow into, and the     *)
(* tasks that run them (messaging/workflow.py, turn_intake.py,             *)
(* node_runner.py and messaging/trees/).                                   *)
(*                                                                         *)
(* A turn is one delivery of a platform message.  It becomes at most one   *)
(* node, and a node is claimed at most once, so a turn also names its      *)
(* node, the node's claim and the claim's task; the root's turn names the  *)
(* MessageTree object.  A platform message that is delivered again is      *)
(* another turn with the same `message'.                                   *)
(*                                                                         *)
(* The manager's lock and a tree's lock are never held across a            *)
(* suspension, so each of their critical sections is one step.  The        *)
(* workflow's _state_lock is held while a command waits for the tasks it   *)
(* cancelled: `command' is the command that holds it.  That wait is        *)
(* bounded by a timeout and may therefore end at any time.                 *)
(***************************************************************************)
EXTENDS ChatTurns, Naturals, FiniteSetsExt

VARIABLES
    arrival,        \* a turn's way through intake
    message,        \* the platform message a turn delivers, named by a turn
    reply,          \* the reference a turn's reply was resolved to
    token,          \* the turn's AdmissionToken
    generations,    \* the workflow's stop and clear generations
    command,        \* the command inside _state_lock, and the trees it saves
    closing,        \* workflow.close()
    forest,         \* the published trees: TreeRepository._trees
    index,          \* TreeRepository._reference_to_tree
    tree,           \* the tree a node was added to
    parent,         \* MessageNode.parent_id
    state,          \* MessageNode.state; "bare" is ERROR without a status
    active,         \* MessageTree._active
    condemned,  \* claims whose cancellation_requested is set
    ticket,         \* a node's place in its tree's queue, 0 outside of it
    task,           \* the processor's task for a claim
    stored,         \* the nodes in the session store's snapshots
    overtaken,      \* turns in flight when a stop or a clear committed (history)
    stopped,        \* nodes a command reported as stopped (history)
    aborted,        \* a command raised half-way (history)
    commands        \* commands so far

intake == <<arrival, message, reply, token>>
workflow == <<generations, command, closing, aborted, commands>>
repository == <<forest, index>>
graph == <<tree, parent>>
scheduling == <<state, active, condemned, ticket, task>>
treeVars == <<intake, workflow, repository, graph, scheduling, stored,
          overtaken, stopped>>

Prompt(m) == <<"prompt", m>>
Status(t) == <<"status", t>>
Refs == {"prompt", "status"} \X Turns
NoReply == <<"prompt", None>>

Runnable == {"pending", "in_progress"}
Live == {"created", "killed", "running", "cancelled", "ending"}

Unlocked == [kind |-> "none", of |-> {}]
LockFree == command = Unlocked

TreesInit ==
    /\ arrival = [t \in Turns |-> "new"]
    /\ message = [t \in Turns |-> t]
    /\ reply = [t \in Turns |-> NoReply]
    /\ token = [t \in Turns |-> <<0, 0>>]
    /\ generations = <<0, 0>> /\ command = Unlocked /\ closing = "no"
    /\ forest = {} /\ index = [r \in Refs |-> None]
    /\ tree = [t \in Turns |-> None]
    /\ parent = [t \in Turns |-> None]
    /\ state = [t \in Turns |-> "absent"]
    /\ active = [k \in Turns |-> None]
    /\ condemned = {}
    /\ ticket = [t \in Turns |-> 0]
    /\ task = [t \in Turns |-> "none"]
    /\ stored = {}
    /\ overtaken = {} /\ stopped = {} /\ aborted = FALSE /\ commands = 0

-----------------------------------------------------------------------------
(* The graph and the repository. *)

Present(t) == state[t] # "absent"
NodesOf(k) == {t \in Turns : tree[t] = k /\ Present(t)}

RefsOf(t) ==
    CASE state[t] = "absent" -> {}
      [] state[t] = "bare"   -> {Prompt(message[t])}
      [] OTHER               -> {Prompt(message[t]), Status(t)}

Indexed == {r \in Refs : index[r] # None}
NodeAt(r) == CHOOSE t \in NodesOf(index[r]) : r \in RefsOf(t)

(* S has the replies to each of its nodes. *)
Descends(S) == \A c \in Turns : parent[c] \in S => c \in S

(* A node and the nodes below it: those of the smallest such set it is in. *)
Below(t) ==
    {u \in NodesOf(tree[t]) :
        \A S \in SUBSET Turns : t \in S /\ Descends(S) => u \in S}

(* The nodes of the literal reply subtree of a prompt or of a status. *)
Subtree(r) ==
    IF r[1] = "prompt"
    THEN Below(NodeAt(r))
    ELSE UNION {Below(u) : u \in {c \in NodesOf(index[r]) : reply[c] = r}}

Queue(k) == {t \in NodesOf(k) : ticket[t] # 0}
LastTicket(k) == Max({0} \cup {ticket[u] : u \in Queue(k)})
Dequeue(S) == [t \in Turns |-> IF t \in S THEN 0 ELSE ticket[t]]

(* save_tree_snapshot: the store's entry of this tree identity is replaced. *)
SameIdentity(k) == {t \in Turns : tree[t] # None /\ message[tree[t]] = message[k]}
Saved(k, nodes) == (stored \ SameIdentity(k)) \cup nodes

-----------------------------------------------------------------------------
(* Turns. *)

(* handle_message: the token is taken under _state_lock, the reply is       *)
(* resolved, and the status message goes out.                               *)
Receive(t) ==
    /\ closing = "no" /\ LockFree
    /\ arrival[t] = "new"
    /\ arrival' = [arrival EXCEPT ![t] = "sending"]
    /\ token' = [token EXCEPT ![t] = generations]
    /\ \E m \in {t} \cup {message[u] : u \in {v \in Turns : arrival[v] # "new"}} :
           /\ message' = [message EXCEPT ![t] = m]
           /\ \E r \in {NoReply} \cup (Indexed \ {Prompt(m)}) :
                  reply' = [reply EXCEPT ![t] = r]
    /\ UNCHANGED <<workflow, repository, graph, scheduling, stored,
                   overtaken, stopped>>

Drop(t) ==
    /\ arrival' = [arrival EXCEPT ![t] = "dropped"]
    /\ message' = [message EXCEPT ![t] = t]
    /\ reply' = [reply EXCEPT ![t] = NoReply]
    /\ token' = [token EXCEPT ![t] = <<0, 0>>]
    /\ overtaken' = overtaken \ {t}
    /\ UNCHANGED <<workflow, repository, graph, scheduling, stored, stopped>>

(* The status could not be delivered, or the handler was cancelled. *)
GiveUp(t) == arrival[t] = "sending" /\ Drop(t)

(* The prompt is registered.  admit offers its node to the tree again, which  *)
(* refuses it unless it is pending and in no queue: see Serving.             *)
Duplicate(t) == index[Prompt(message[t])] # None
ParentRemoved(t) == reply[t] # NoReply /\ index[reply[t]] = None

(* _admit_if_current answers None, or admit rejects the turn. *)
Reject(t) ==
    /\ LockFree
    /\ arrival[t] = "sending"
    /\ token[t] # generations \/ Duplicate(t) \/ ParentRemoved(t)
    /\ Drop(t)

(* admit: the node is added, then claimed or queued; both its references    *)
(* are registered and the snapshot is saved.                                *)
Accept(t) ==
    LET k == IF reply[t] = NoReply THEN t ELSE index[reply[t]] IN
    /\ arrival' = [arrival EXCEPT ![t] = "admitted"]
    /\ token' = [token EXCEPT ![t] = <<0, 0>>]
    /\ tree' = [tree EXCEPT ![t] = k]
    /\ parent' = [parent EXCEPT ![t] =
                     IF reply[t] = NoReply THEN None ELSE NodeAt(reply[t])]
    /\ forest' = forest \cup {k}
    /\ index' = [index EXCEPT ![Prompt(message[t])] = k, ![Status(t)] = k]
    /\ IF active[k] = None
       THEN /\ state' = [state EXCEPT ![t] = "in_progress"]
            /\ active' = [active EXCEPT ![k] = t]
            /\ task' = [task EXCEPT ![t] = "created"]
            /\ UNCHANGED ticket
       ELSE /\ state' = [state EXCEPT ![t] = "pending"]
            /\ ticket' = [ticket EXCEPT ![t] = LastTicket(k) + 1]
            /\ UNCHANGED <<active, task>>
    /\ stored' = Saved(k, NodesOf(k) \cup {t})
    /\ UNCHANGED <<message, reply, workflow, condemned, overtaken, stopped>>

(* Mutant: a turn is admitted whatever passed since it was received. *)
AdmitAnyway(t) ==
    /\ LockFree
    /\ arrival[t] = "sending"
    /\ ~Duplicate(t) /\ ~ParentRemoved(t)
    /\ Accept(t)

Admit(t) ==
    /\ LockFree
    /\ arrival[t] = "sending"
    /\ token[t] = generations
    /\ ~Duplicate(t) /\ ~ParentRemoved(t)
    /\ Accept(t)

-----------------------------------------------------------------------------
(* A claim's task. *)

(* The claim may still write to its tree: the tree of its identity is the   *)
(* one it was made by, it holds the claim and nobody has cancelled it.      *)
Holds(t) ==
    /\ tree[t] \in forest
    /\ active[tree[t]] = t
    /\ t \notin condemned

Become(t, place) == task' = [task EXCEPT ![t] = place]

(* The task's body is entered and the node runner started. *)
Enter(t) ==
    /\ task[t] = "created"
    /\ Become(t, "running")
    /\ UNCHANGED <<intake, workflow, repository, graph, state, active, condemned,
                   ticket, stored, overtaken, stopped>>

(* record_session *)
Record(t) ==
    /\ task[t] = "running"
    /\ Holds(t) /\ state[t] = "in_progress"
    /\ stored' = Saved(tree[t], NodesOf(tree[t]))
    /\ UNCHANGED <<intake, workflow, repository, graph, scheduling,
                   overtaken, stopped>>

(* complete_claim: a success also overrides an error reported before. *)
Complete(t) ==
    /\ task[t] = "running"
    /\ Become(t, "ending")
    /\ IF Holds(t) /\ state[t] \in {"in_progress", "error"}
       THEN /\ state' = [state EXCEPT ![t] = "completed"]
            /\ stored' = Saved(tree[t], NodesOf(tree[t]))
       ELSE UNCHANGED <<state, stored>>
    /\ UNCHANGED <<intake, workflow, repository, graph, active, condemned,
                   ticket, overtaken, stopped>>

(* fail_claim: the node fails, and its pending descendants with it if the   *)
(* failure is final.                                                        *)
FailClaim(t, propagate) ==
    LET heirs == IF propagate
                 THEN {u \in Below(t) \ {t} : state[u] = "pending"}
                 ELSE {}
    IN IF Holds(t) /\ Present(t)
       THEN /\ IF state[t] = "completed"
               THEN UNCHANGED <<state, ticket>>
               ELSE /\ state' = [u \in Turns |->
                                   CASE u \in heirs -> "error"
                                     [] u = t /\ state[t] # "bare" -> "error"
                                     [] OTHER -> state[u]]
                    /\ ticket' = Dequeue(heirs)
            /\ stored' = Saved(tree[t], NodesOf(tree[t]))
       ELSE UNCHANGED <<state, ticket, stored>>

Fail(t, before, after, propagate) ==
    /\ task[t] = before
    /\ Become(t, after)
    /\ FailClaim(t, propagate)
    /\ UNCHANGED <<intake, workflow, repository, graph, active, condemned,
                   overtaken, stopped>>

ReportError(t) == Fail(t, "running", "running", FALSE)  \* an error that is not the exit
LimitReached(t) == Fail(t, "running", "ending", FALSE)  \* no session to be had
ExitWithError(t) == Fail(t, "running", "ending", TRUE)  \* a final failure
Unwind(t) == Fail(t, "cancelled", "ending", FALSE)      \* except CancelledError

(* Mutant: the tree is left with a claim that nobody works for. *)
FinishClaimKeepsClaim(t) ==
    /\ Become(t, "finished")
    /\ UNCHANGED <<intake, workflow, repository, graph, state, active, condemned,
                   ticket, stored, overtaken, stopped>>

(* _finish_claim: the claim is released and, in the same critical section,  *)
(* its successor claimed and launched if the tree is still published.       *)
FinishClaim(t) ==
    LET k == tree[t]
        waiting == {u \in Queue(k) : state[u] = "pending"}
        next == CHOOSE u \in waiting : \A v \in waiting : ticket[u] <= ticket[v]
    IN  /\ condemned' = condemned \ {t}
        /\ IF active[k] # t \/ waiting = {}
           THEN /\ active' = [active EXCEPT ![k] = IF @ = t THEN None ELSE @]
                /\ ticket' = IF active[k] = t THEN Dequeue(Queue(k)) ELSE ticket
                /\ Become(t, "finished")
                /\ UNCHANGED state
           ELSE /\ active' = [active EXCEPT ![k] = next]
                /\ state' = [state EXCEPT ![next] = "in_progress"]
                /\ ticket' = Dequeue({u \in Queue(k) : ticket[u] <= ticket[next]})
                /\ task' = [task EXCEPT ![t] = "finished",
                               ![next] = IF k \in forest THEN "created" ELSE @]
        /\ UNCHANGED <<intake, workflow, repository, graph, stored,
                       overtaken, stopped>>

Finish(t) == task[t] = "ending" /\ FinishClaim(t)

(* _recover_unentered_task: the task was cancelled before its body ran. *)
Recover(t) == task[t] = "killed" /\ FinishClaim(t)

-----------------------------------------------------------------------------
(* Commands. *)

(* Mutant: a task that has not started yet is left alone. *)
InterruptStarted(S) ==
    [t \in Turns |->
        IF t \notin S THEN task[t]
        ELSE CASE task[t] = "running"   -> "cancelled"
               [] task[t] = "cancelled" -> "ending"
               [] OTHER                 -> task[t]]

(* TreeQueueProcessor.cancel: a task that has not entered its body never    *)
(* will; a runner unwinds; one that is unwinding skips its last edit.       *)
Interrupt(S) ==
    [t \in Turns |->
        IF t \notin S THEN task[t]
        ELSE CASE task[t] = "created"   -> "killed"
               [] task[t] = "running"   -> "cancelled"
               [] task[t] = "cancelled" -> "ending"
               [] OTHER                 -> task[t]]

Errored(S) == [t \in Turns |-> IF t \in S THEN "error" ELSE state[t]]
RunnableIn(S) == {t \in S : state[t] \in Runnable}
ActiveIn(K) == {active[k] : k \in K} \ {None}

(* Asking a claimed node for its UI target raises once its status is gone. *)
Unnameable(t) == t # None /\ state[t] = "bare"

Issue == commands < MaxCommands /\ closing = "no" /\ commands' = commands + 1

(* Mutant: stopping the active node also releases its tree. *)
CancelNodeReleasing(n) ==
    LET k == tree[n]
        claimed == {n} \cap ActiveIn({k})
    IN  /\ condemned' = condemned \cup claimed
        /\ active' = [active EXCEPT ![k] = IF @ = n THEN None ELSE @]
        /\ task' = Interrupt(claimed)
        /\ ticket' = Dequeue({n})
        /\ state' = Errored(RunnableIn({n}))
        /\ stopped' = stopped \cup RunnableIn({n})
                              \cup {t \in claimed : state[t] = "error"}

(* MessageTree.cancel_node *)
CancelNode(n) ==
    LET claimed == {n} \cap ActiveIn({tree[n]})
    IN  /\ condemned' = condemned \cup claimed
        /\ task' = Interrupt(claimed)
        /\ ticket' = Dequeue({n})
        /\ state' = Errored(RunnableIn({n}))
        /\ stopped' = stopped \cup RunnableIn({n})
                              \cup {t \in claimed : state[t] = "error"}
        /\ UNCHANGED active

(* /stop in reply to a message.  (If the node cannot be named the command   *)
(* raises and nothing has changed.)                                         *)
StopReply(r) ==
    /\ LockFree /\ Issue
    /\ r \in Indexed
    /\ ~(Unnameable(NodeAt(r)) /\ active[index[r]] = NodeAt(r))
    /\ CancelNode(NodeAt(r))
    /\ command' = [kind |-> "trees", of |-> {index[r]}]
    /\ UNCHANGED <<intake, generations, closing, aborted, repository, graph,
                   stored, overtaken>>

(* MessageTree.cancel_all for each tree in K. *)
CancelTrees(K) ==
    LET nodes == UNION {NodesOf(k) : k \in K}
    IN  /\ condemned' = condemned \cup ActiveIn(K)
        /\ task' = Interrupt(ActiveIn(K))
        /\ ticket' = Dequeue(nodes)
        /\ stopped' = stopped \cup RunnableIn(nodes)
                              \cup {t \in ActiveIn(K) : state[t] = "error"}
        /\ UNCHANGED active

Stuck == {k \in forest : Unnameable(active[k])}

(* Turns whose token no longer matches. *)
Overtake == overtaken' = overtaken \cup {t \in Turns : arrival[t] = "sending"}

(* stop_all_tasks: every tree is cancelled under the next stop generation;  *)
(* a tree whose active node cannot be named makes it raise, and the trees   *)
(* behind it in the repository are not reached.                             *)
StopAll ==
    /\ LockFree
    /\ closing \in {"no", "closing"}
    /\ generations[1] < MaxStops
    /\ generations' = [generations EXCEPT ![1] = @ + 1]
    /\ Overtake
    /\ \/ /\ Stuck = {}
          /\ CancelTrees(forest)
          /\ state' = Errored(RunnableIn(UNION {NodesOf(k) : k \in forest}))
          /\ command' = [kind |-> "trees", of |-> forest]
          /\ UNCHANGED aborted
       \/ \E K \in SUBSET (forest \ Stuck) :
              /\ Stuck # {}
              /\ CancelTrees(K)
              /\ state' = Errored(RunnableIn(UNION {NodesOf(k) : k \in K}))
              /\ aborted' = TRUE
              /\ UNCHANGED command
    /\ UNCHANGED <<intake, commands, repository, graph, stored>>

(* /stop, or the API's stop. *)
Stop == StopAll /\ UNCHANGED closing

(* Detaching trees: they leave the repository with all their references. *)
Detach(K) ==
    /\ forest' = forest \ K
    /\ index' = [r \in Refs |-> IF index[r] \in K THEN None ELSE index[r]]

(* /clear: the chat's trees are cancelled and detached under the next clear *)
(* generation.  Where it raises the store is cleared all the same.          *)
ClearChat ==
    /\ LockFree /\ Issue
    /\ generations' = [generations EXCEPT ![2] = @ + 1]
    /\ Overtake
    /\ \E K \in SUBSET (forest \ Stuck) :
           LET gone == UNION {NodesOf(k) : k \in K} IN
           /\ CancelTrees(K)
           /\ Detach(K)
           /\ state' = [t \in Turns |-> IF t \in gone THEN "absent" ELSE state[t]]
           /\ \/ /\ Stuck = {} /\ K = forest
                 /\ command' = [kind |-> "chat", of |-> {}]
                 /\ UNCHANGED <<aborted, stored>>
              \/ /\ Stuck # {}
                 /\ aborted' = TRUE
                 /\ stored' = {}
                 /\ UNCHANGED command
    /\ UNCHANGED <<intake, closing, graph>>

(* /clear in reply to a message: remove_message_subtree. *)
ClearReply(r) ==
    /\ LockFree /\ Issue
    /\ r \in Indexed
    /\ LET k == index[r]
           n == NodeAt(r)
           gone == Subtree(r)
           affected == gone \cup {n}
           claimed == affected \cap ActiveIn({k})
       IN  /\ \A t \in claimed : ~Unnameable(t)
           /\ condemned' = condemned \cup claimed
           /\ task' = Interrupt(claimed)
           /\ ticket' = Dequeue(affected)
           /\ stopped' = stopped \cup RunnableIn(affected)
                                 \cup {t \in claimed : state[t] = "error"}
           /\ state' = [t \in Turns |->
                          CASE t \in gone -> "absent"
                            [] t = n /\ n \notin gone -> "bare"
                            [] OTHER -> state[t]]
           /\ IF k \in gone
              THEN Detach({k})
              ELSE /\ index' = [q \in Refs |->
                                  IF q = r \/ \E t \in gone : q \in RefsOf(t)
                                  THEN None ELSE index[q]]
                   /\ UNCHANGED forest
           /\ command' = [kind |-> "trees", of |-> {k}]
    /\ UNCHANGED <<intake, generations, closing, aborted, active,
                   graph, stored, overtaken>>

(* The same command where the active node in the subtree cannot be named:   *)
(* it raises with any of the other nodes already marked.                    *)
ClearReplyRaises(r) ==
    /\ LockFree /\ Issue
    /\ r \in Indexed
    /\ LET affected == Subtree(r) \cup {NodeAt(r)}
           claimed == affected \cap ActiveIn({index[r]})
       IN  /\ \E t \in claimed : Unnameable(t)
           /\ \E S \in SUBSET (affected \ claimed) :
                  /\ ticket' = Dequeue(S \cup claimed)
                  /\ state' = Errored(RunnableIn(S))
    /\ aborted' = TRUE
    /\ UNCHANGED <<intake, generations, command, closing, repository, graph,
                   active, condemned, task, stored, overtaken, stopped>>

(* Mutant: the snapshots a command took are not saved. *)
ConcludeUnsaved ==
    /\ ~LockFree
    /\ command' = Unlocked
    /\ UNCHANGED <<intake, generations, closing, aborted, commands, repository,
                   graph, scheduling, stored, overtaken, stopped>>

(* The cancelled tasks ended or the wait for them timed out; the command    *)
(* saves what it left behind and releases the lock.                         *)
Conclude ==
    /\ ~LockFree
    /\ stored' = IF command.kind = "chat" THEN {}
                 ELSE (stored \ UNION {SameIdentity(k) : k \in command.of})
                          \cup UNION {NodesOf(k) : k \in command.of}
    /\ command' = Unlocked
    /\ UNCHANGED <<intake, generations, closing, aborted, commands, repository,
                   graph, scheduling, overtaken, stopped>>

(* workflow.close(), after ingress has been quiesced: stop everything ...   *)
Close ==
    /\ StopAll
    /\ closing' = IF Stuck = {} THEN "joining" ELSE "closing"

(* ... and return when the last claim's task is gone. *)
Closed ==
    /\ closing = "joining" /\ LockFree
    /\ \A t \in Turns : task[t] \notin Live
    /\ closing' = "closed"
    /\ UNCHANGED <<intake, generations, command, aborted, commands, repository,
                   graph, scheduling, stored, overtaken, stopped>>

-----------------------------------------------------------------------------

Intake(t) == Receive(t) \/ GiveUp(t) \/ Reject(t) \/ Admit(t)

Run(t) ==
    \/ Enter(t) \/ Record(t) \/ Complete(t)
    \/ ReportError(t) \/ LimitReached(t) \/ ExitWithError(t)
    \/ Unwind(t) \/ Finish(t) \/ Recover(t)

Command ==
    \/ \E r \in Refs : StopReply(r) \/ ClearReply(r) \/ ClearReplyRaises(r)
    \/ Stop \/ ClearChat \/ Conclude \/ Close \/ Closed

TreesNext == (\E t \in Turns : Intake(t) \/ Run(t)) \/ Command

TreesSpec == TreesInit /\ [][TreesNext]_treeVars

(* The event loop runs what is ready; the CLI process of a runner ends;     *)
(* _state_lock is granted in order.  Messages and commands need not come.   *)
TreesFairness ==
    /\ \A t \in Turns :
           /\ SF_treeVars(Reject(t) \/ Admit(t))
           /\ WF_treeVars(Enter(t))
           /\ WF_treeVars(Complete(t) \/ ExitWithError(t))
           /\ WF_treeVars(Unwind(t))
           /\ WF_treeVars(Finish(t) \/ Recover(t))
    /\ WF_treeVars(Conclude)

TreesFairSpec == TreesSpec /\ TreesFairness

-----------------------------------------------------------------------------
(* Properties. *)

TreesTypeOK ==
    /\ arrival \in [Turns -> {"new", "sending", "admitted", "dropped"}]
    /\ message \in [Turns -> Turns]
    /\ reply \in [Turns -> Refs \cup {NoReply}]
    /\ token \in [Turns -> Nat \X Nat]
    /\ generations \in Nat \X Nat
    /\ command \in [kind : {"none", "trees", "chat"}, of : SUBSET Turns]
    /\ closing \in {"no", "closing", "joining", "closed"}
    /\ forest \in SUBSET Turns
    /\ index \in [Refs -> forest \cup {None}]
    /\ tree \in [Turns -> Turns \cup {None}]
    /\ parent \in [Turns -> Turns \cup {None}]
    /\ state \in [Turns -> {"absent", "pending", "in_progress", "completed",
                            "error", "bare"}]
    /\ active \in [Turns -> Turns \cup {None}]
    /\ ticket \in [Turns -> Nat]
    /\ task \in [Turns -> Live \cup {"none", "finished"}]
    /\ condemned \in SUBSET Turns /\ stored \in SUBSET Turns
    /\ overtaken \in SUBSET Turns /\ stopped \in SUBSET Turns
    /\ aborted \in BOOLEAN /\ commands \in Nat

(* One prompt of a tree runs at a time, even while a cancelled one is       *)
(* cleaning up, and no prompt waits in a tree where nothing runs: enqueue,  *)
(* cancel, recovery and finish hand the claim on (trees/runtime.py,         *)
(* trees/processor.py).                                                     *)
Serving ==
    /\ \A t, u \in Turns :
           task[t] \in Live /\ task[u] \in Live /\ tree[t] = tree[u] => t = u
    /\ \A t \in Turns :
           /\ state[t] = "pending" =>
                 /\ ticket[t] # 0
                 /\ active[tree[t]] # None /\ task[active[tree[t]]] \in Live
           /\ state[t] = "in_progress" =>
                 active[tree[t]] = t /\ task[t] \in Live

(* A prompt received before /stop, /clear or close() is not admitted after  *)
(* it, however late its status message is delivered, so that nothing runs   *)
(* once close() has returned (workflow.py, _admit_if_current and close).    *)
Boundaries ==
    /\ \A t \in overtaken : arrival[t] = "sending"
    /\ closing = "closed" => \A t \in Turns : task[t] \notin Live

(* A node that a command reported as stopped is never started afterwards    *)
(* (trees/processor.py, cancel against a task that was just created).       *)
StoppedNeverStart ==
    [][\A t \in stopped : task[t] # "running" => task'[t] # "running"]_treeVars

(* The repository resolves exactly the prompts and statuses of the          *)
(* published trees, each to its own tree (trees/repository.py against       *)
(* trees/graph.py).                                                         *)
IndexMatches ==
    \A r \in Refs :
        LET owners == {t \in Turns : r \in RefsOf(t)} IN
        IF index[r] = None THEN owners = {}
        ELSE \E t \in owners : owners = {t} /\ tree[t] = index[r]

(* Outside the commands' critical section the session store holds the nodes *)
(* of the published trees, no fewer and no more: an admission is saved, and *)
(* a branch removed by /clear does not come back through the snapshot of a  *)
(* runner that was still at work.  (Unless a command raised half-way.)      *)
StoreMatches ==
    LockFree /\ ~aborted => stored = {t \in Turns : Present(t)}

(* The three records of the conversations agree: the graphs of the trees,   *)
(* the repository's index and the session store.                            *)
Bookkeeping == TreesTypeOK /\ IndexMatches /\ StoreMatches

(* Every prompt that is received is dropped, or ends.                       *)
PromptsEnd ==
    \A t \in Turns :
        arrival[t] = "sending" ~>
            \/ arrival[t] = "dropped"
            \/ arrival[t] = "admitted" /\ state[t] \notin Runnable

(* What the docstrings of stop_all_tasks and cancel_all say: a stop reaches *)
(* every pending and active prompt (messaging/workflow.py,                  *)
(* messaging/trees/runtime.py).                                             *)
StopReachesEverything ==
    [][generations'[1] > generations[1] =>
          \A t \in Turns : state'[t] \notin Runnable]_treeVars
=============================================================================
