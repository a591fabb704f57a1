---------------------------- MODULE MCIpcSystem ----------------------------
(* Instances of IpcSystem for TLC. *)
EXTENDS IpcRefinement

=============================================================================
