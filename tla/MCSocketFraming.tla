-------------------------- MODULE MCSocketFraming --------------------------
(* Instances of SocketFraming for TLC. *)
EXTENDS SocketFraming

(* Channel messages have a route prefix and a body, other routes are one   *)
(* fragment; the fourth message is as large as a reader accepts, the last  *)
(* one is larger.                                                          *)
MixedMsgs == <<<<1, 3>>, <<2>>, <<1, 2>>, <<1, 4>>, <<1, 3>>, <<2, 6>>>>

=============================================================================
