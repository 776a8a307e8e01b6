------------------------------ MODULE MCQueues ------------------------------
(***************************************************************************)
(* The places where work waits for its turn, in one run without fairness:  *)
(* a behaviour is one of the admission to a provider, or one of the        *)
(* conversation trees'. Turns and sessions are the same model values, for  *)
(* one symmetry group.                                                     *)
(***************************************************************************)
EXTENDS Admission, TreeQueue, TLC

VARIABLE component

all == <<vars, component, treeVars>>

Symmetry == Permutations(Sessions)

(* The trees may come to rest before every execution has ended. *)
AtRestTrees == component = "trees" /\ UNCHANGED all

QueuesInit == component \in {"admission", "trees"} /\ Init /\ TreesInit

QueuesNext ==
    \/ component = "admission" /\ Next /\ UNCHANGED <<component, treeVars>>
    \/ component = "trees" /\ TreesNext /\ UNCHANGED <<component, vars>>
    \/ AtRestTrees

QueuesSpec == QueuesInit /\ [][QueuesNext]_all
=============================================================================
