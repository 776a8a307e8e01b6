----------------------------- MODULE MCAdmission -----------------------------
\* Small instances of Admission.
EXTENDS Admission, TLC

Symmetry == Permutations(Sessions)

(* The chat adapter's loop, of which it is claimed that every execution    *)
(* ends; the codex adapter's is in MCQueues.                               *)
ChatNext == Adapter = "chat" /\ Next

ChatSpec == Init /\ [][ChatNext]_vars /\ Fairness
=============================================================================
