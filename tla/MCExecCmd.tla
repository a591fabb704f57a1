----------------------------- MODULE MCExecCmd -----------------------------
(* Instances of ExecCmd for TLC. *)
EXTENDS ExecCmd

CONSTANTS n1, n2, r1, r2

(* The first command goes to two nodes, one of them repeated; a second one *)
(* to none.                                                                *)
SomeLists == [r \in Cmds |-> IF r = r1 THEN {<<n1, n2, n1>>} ELSE {<<>>}]

=============================================================================
