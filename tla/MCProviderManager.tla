-------------------------- MODULE MCProviderManager --------------------------
(***************************************************************************)
(* What is replaced while it is in use, what outlives the process, and     *)
(* what is translated as it comes, in one run without fairness: a          *)
(* behaviour is one of the provider manager's, one of conversations across *)
(* a restart, or one of the Responses bridge. Requests, and operations,    *)
(* are interchangeable.                                                    *)
(***************************************************************************)
EXTENDS ProviderManager, ConversationRestore, ResponsesBridge, TLC

VARIABLE component

Symmetry == Permutations(Requests) \union Permutations(Ops)

ManagerInit ==
    /\ component \in {"providers", "conversations", "bridge"}
    /\ component # "conversations" => file = Nothing
    /\ Init /\ RestoreInit /\ BridgeInit

ManagerNext ==
    \/ component = "providers" /\ Next /\ UNCHANGED <<component, restoreVars, bridgeVars>>
    \/ component = "conversations" /\ RestoreNext /\ UNCHANGED <<component, vars, bridgeVars>>
    \/ component = "bridge" /\ BridgeNext /\ UNCHANGED <<component, vars, restoreVars>>

ManagerSpec == ManagerInit /\ [][ManagerNext]_<<component, vars, restoreVars, bridgeVars>>
=============================================================================
