----------------------------- MODULE MCReactor -----------------------------
(* Instances of Reactor for TLC. *)
EXTENDS Reactor

AllNames == {"accept", "pop", "push"} \cup Conns

=============================================================================
