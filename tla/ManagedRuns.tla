---------------------------- MODULE ManagedRuns ----------------------------
(***************************************************************************)
(* The runs of managed Claude sessions and the ids they are known by.      *)
(***************************************************************************)
EXTENDS NoValue

CONSTANTS
    Runners,        \* runs of a prompt; also the sessions they create
    Ids,            \* session ids that claude processes report
    Sweeper         \* the caller of stop_all

ASSUME RunsAssumption ==
    /\ Runners \cap Ids = {}
    /\ None \notin Runners \cup Ids
    /\ Sweeper \notin Runners \cup {None}
=============================================================================
