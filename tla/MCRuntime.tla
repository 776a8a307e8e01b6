------------------------------ MODULE MCRuntime ------------------------------
(***************************************************************************)
(* The server's process in one run: a behaviour is one of the application  *)
(* and its supervisor, or one of the provider manager's. The fairness of   *)
(* the other one asks nothing: no step it is about is enabled in an        *)
(* initial state.                                                          *)
(***************************************************************************)
EXTENDS AppLifecycle

CONSTANTS Requests, Ops, Closer, Refresher, MaxGenerations

VARIABLES component,
    current, leases, retired, cleaned, owned, pending, started, lease, refreshTask,
    task, unpublished, unmade, discarded, lock, at, kind, target, todo, batch, flop,
    serving, closing, closed

Manager == INSTANCE ProviderManager
    WITH running <- started, failures <- unmade, pc <- at

managerVars ==
    <<current, leases, retired, cleaned, owned, pending, started, lease,
      refreshTask, task, unpublished, unmade, discarded, lock, at, kind,
      target, todo, batch, flop, serving, closing, closed>>

RuntimeInit ==
    Init /\ Manager!Init /\ component \in {"application", "providers"}

RuntimeNext ==
    \/ component = "application" /\ Next /\ UNCHANGED <<component, managerVars>>
    \/ component = "providers" /\ Manager!Next /\ UNCHANGED <<component, vars>>

RuntimeSpec ==
    /\ RuntimeInit
    /\ [][RuntimeNext]_<<component, vars, managerVars>>
    /\ Fairness
    /\ Manager!Fairness

(* A retired generation nobody uses is cleaned: see ProviderManager. *)
RetiredAreCleaned == Manager!RetiredAreCleaned

(* The operations of the manager return: see ProviderManager. *)
CallsReturn == Manager!CallsReturn
=============================================================================
