----------------------------- MODULE Generations -----------------------------
(***************************************************************************)
(* What ProviderRuntimeManager promises of its provider generations,       *)
(* without locks, tasks or counters: one generation is current until the   *)
(* manager is sealed; only the current one gains users; a retired one is   *)
(* cleaned up when, and for as long as, nobody uses it, once.              *)
(***************************************************************************)
EXTENDS Integers

CONSTANTS
    Users,  \* whoever may be using a generation's providers
    Gens    \* generation ids

VARIABLES
    status, \* the life of each generation
    users,  \* who is using each generation
    sealed  \* no generation is published or gains a user any more

Statuses == {"unborn", "current", "retired", "cleaning", "cleaned"}

TypeOK ==
    /\ status \in [Gens -> Statuses]
    /\ users \in [Gens -> SUBSET Users]
    /\ sealed \in BOOLEAN

Init ==
    /\ status = [g \in Gens |-> IF g = 1 THEN "current" ELSE "unborn"]
    /\ users = [g \in Gens |-> {}]
    /\ sealed = FALSE

\* One step replaces the current generation: there is never none, or two.
Publish(old, new) ==
    /\ ~sealed
    /\ status[old] = "current"
    /\ status[new] = "unborn"
    /\ status' = [status EXCEPT ![old] = "retired", ![new] = "current"]
    /\ UNCHANGED <<users, sealed>>

Enter(u, g) ==
    /\ ~sealed
    /\ status[g] = "current"
    /\ users' = [users EXCEPT ![g] = @ \union {u}]
    /\ UNCHANGED <<status, sealed>>

Leave(u, g) ==
    /\ u \in users[g]
    /\ users' = [users EXCEPT ![g] = @ \ {u}]
    /\ UNCHANGED <<status, sealed>>

Seal ==
    /\ sealed' = TRUE
    /\ UNCHANGED <<status, users>>

RetireLast(g) ==
    /\ sealed
    /\ status[g] = "current"
    /\ status' = [status EXCEPT ![g] = "retired"]
    /\ UNCHANGED <<users, sealed>>

BeginCleanup(g) ==
    /\ status[g] = "retired"
    /\ users[g] = {}
    /\ status' = [status EXCEPT ![g] = "cleaning"]
    /\ UNCHANGED <<users, sealed>>

\* A failed cleanup leaves the generation retired, to be cleaned again.
EndCleanup(g) ==
    /\ status[g] = "cleaning"
    /\ \E outcome \in {"cleaned", "retired"} :
           status' = [status EXCEPT ![g] = outcome]
    /\ UNCHANGED <<users, sealed>>

Next ==
    \/ \E old, new \in Gens : Publish(old, new)
    \/ \E u \in Users, g \in Gens : Enter(u, g) \/ Leave(u, g)
    \/ Seal
    \/ \E g \in Gens : RetireLast(g) \/ BeginCleanup(g) \/ EndCleanup(g)

Spec == Init /\ [][Next]_<<status, users, sealed>>
=============================================================================
