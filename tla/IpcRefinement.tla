--------------------------- MODULE IpcRefinement ---------------------------
(***************************************************************************)
(* The two routers over the pipe implement the channels of RpcChannel.     *)
(***************************************************************************)
EXTENDS IpcSystem

(* How the end of a channel was announced, in the events of its owner. *)
EndIn(s) == IF Ended(s) THEN s[Len(s)].err ELSE "none"

(* The numbers of the responses written, and of those among the events. *)
Sent(s) == {s[i] : i \in 1 .. Len(s)}
Received(s) == {s[i].seq : i \in {j \in 1 .. Len(s) : s[j].kind = "message"}}

(* What the state of both routers says of one channel. *)
ChannelState(c, t) ==
  [asked    |-> cSeq[c][t] > 0,
   released |-> t < nextTag[c] /\ t \notin cLive[c],
   service  |-> IF t \in sLive[c] THEN "working" ELSE IF opened[c][t] > 0 THEN "ended" ELSE "none",
   sent     |-> Sent(sSent[c][t]),
   got      |-> Received(cEvents[c][t]),
   done     |-> EndIn(cEvents[c][t]),
   told     |-> EndIn(sEvents[c][t])]

Rpc == INSTANCE RpcChannel WITH ch <- [c \in Clients |-> [t \in Tags |-> ChannelState(c, t)]]

(* The routers, the pipe and the processes that come and go behave, for    *)
(* the owners of channels, like RpcChannel.                                *)
ImplementsRpcChannel == Rpc!Spec

=============================================================================
