------------------------------- MODULE NoValue -------------------------------
(***************************************************************************)
(* Python's None, for the modules that are composed in one: what a map     *)
(* gives for a key it has not, and what an attribute is before it is set.  *)
(***************************************************************************)
CONSTANT None
=============================================================================
