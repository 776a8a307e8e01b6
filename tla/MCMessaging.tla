---------------------------- MODULE MCMessaging ----------------------------
(***************************************************************************)
(* What the messaging workflow owns, in one run: a behaviour is one of the *)
(* session store's writer, of the conversation trees' on two turns, or of  *)
(* the managed Claude sessions'. The fairness of the other two asks        *)
(* nothing: no step it is about is enabled in an initial state.            *)
(***************************************************************************)
EXTENDS SessionPersistence, ManagedSessions, ChatTurns

VARIABLES component,
    arrival, message, reply, token, generations, command, shut, forest, index,
    nodes, parent, state, active, condemned, ticket, task, stored,
    overtaken, stopped, aborted, commands

Queue == INSTANCE TreeQueue WITH tree <- nodes, closing <- shut

treeVars ==
    <<arrival, message, reply, token, generations, command, shut, forest,
      index, nodes, parent, state, active, condemned, ticket, task, stored,
      overtaken, stopped, aborted, commands>>
all == <<vars, component, treeVars, managedVars>>

(* The trees may come to rest; the writer of the store may not. *)
AtRestTrees == component = "trees" /\ UNCHANGED all

MessagingInit ==
    /\ Init /\ Queue!TreesInit /\ ManagedInit
    /\ component \in {"store", "trees", "sessions"}

MessagingNext ==
    \/ component = "store" /\ Next /\ UNCHANGED <<component, treeVars, managedVars>>
    \/ component = "trees" /\ Queue!TreesNext /\ UNCHANGED <<component, vars, managedVars>>
    \/ component = "sessions" /\ ManagedNext /\ UNCHANGED <<component, vars, treeVars>>
    \/ AtRestTrees

MessagingSpec ==
    /\ MessagingInit
    /\ [][MessagingNext]_all
    /\ Fairness
    /\ Queue!TreesFairness
    /\ ManagedFairness

(* Every prompt that is received is dropped, or ends: see TreeQueue. *)
PromptsEnd == Queue!PromptsEnd
=============================================================================
