----------------------------- MODULE ChatTurns -----------------------------
(***************************************************************************)
(* The prompts of one chat and the bounds on what is done to them.         *)
(***************************************************************************)
EXTENDS Naturals, NoValue

CONSTANTS
    Turns,          \* deliveries of inbound messages
    MaxCommands,    \* bound: /stop and /clear commands, replies or not
    MaxStops        \* bound: stop_all_tasks(), by /stop, the API or close()

ASSUME TurnsAssumption ==
    None \notin Turns /\ MaxCommands \in Nat /\ MaxStops \in Nat
=============================================================================
