----------------------------- MODULE MCEngine -----------------------------
(* The instance of Engine for TLC. *)
EXTENDS Engine

=============================================================================
