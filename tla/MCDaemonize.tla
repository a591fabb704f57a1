---------------------------- MODULE MCDaemonize ----------------------------
(* Instances of Daemonize for TLC. *)
EXTENDS Daemonize

=============================================================================
