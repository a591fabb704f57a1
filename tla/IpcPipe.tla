------------------------------ MODULE IpcPipe ------------------------------
(***************************************************************************)
(* The pipe between the SDK client processes and the daemon, as the two    *)
(* routers see it: SocketClient (src/common/ipc/pipe/socket_client.cpp) on *)
(* the client side, SocketServer (socket_server.cpp) on the daemon side,   *)
(* and between them a stream socket that carries whole frames in order.    *)
(* How frames are cut from and written to the stream is in SocketFraming.  *)
(*                                                                         *)
(* A client process starts its SocketClient once and never reconnects, and *)
(* SocketServer gives every accepted connection a fresh ClientId, so a     *)
(* connection, its ClientId and its client process are one value c.        *)
(***************************************************************************)
EXTENDS Naturals, Sequences

CONSTANTS
  Clients,  \* the SDK client processes
  NumTags,  \* bound: how many channels one client makes
  Served,   \* tags of the channels made for a service the daemon registered
  CliMax,   \* bound: how many messages a client gateway sends
  SrvMax,   \* bound: how many messages a server gateway sends
  Faults    \* the failures of the environment this instance allows

ASSUME IpcAssumption ==
  /\ NumTags \in Nat \ {0}
  /\ CliMax \in Nat
  /\ SrvMax \in Nat
  /\ Served \subseteq 0 .. NumTags - 1
  /\ Faults \subseteq {"refuse", "readFail", "sendFail", "undecodable",
                       "clientDeath", "serverDeath"}

Tags == 0 .. NumTags - 1

(* Completion codes: what services and clients pass to complete(), and the *)
(* code the routers themselves give when the pipe is lost.                 *)
AppCodes   == {"Success", "Failure"}
ErrorCodes == AppCodes \cup {"Disconnected"}

(* The union Route_0_1. The payload of a channel message is named by its   *)
(* sequence number; versions are sent but never compared.                  *)
RouteConnect          == [kind |-> "connect", tag |-> 0, seq |-> 0, err |-> "Success"]
RouteChannelMsg(t, n) == [kind |-> "msg", tag |-> t, seq |-> n, err |-> "Success"]
\* mutant: the code is left out
MutChannelEndNoCode(t, e) == [kind |-> "end", tag |-> t, seq |-> 0, err |-> "none"]
RouteChannelEnd(t, e) == [kind |-> "end", tag |-> t, seq |-> 0, err |-> e]
Route == [kind : {"connect", "msg", "end"}, tag : Tags, seq : Nat, err : ErrorCodes]

(* The events of a Gateway, as a channel's owner observes them. "late" is  *)
(* an event that reaches the handler of a channel already destroyed.       *)
Connected    == [kind |-> "connected", seq |-> 0, err |-> "Success"]
Message(n)   == [kind |-> "message", seq |-> n, err |-> "Success"]
Completed(e) == [kind |-> "completed", seq |-> 0, err |-> e]
LateEvent    == [kind |-> "late", seq |-> 0, err |-> "Success"]
Event == [kind : {"connected", "message", "completed", "late"}, seq : Nat, err : ErrorCodes]

VARIABLES
  alive,   \* client processes that run
  server,  \* the daemon: "up", "down" (ended), "sigpipe" (ended by SIGPIPE)
  sock,    \* SocketClient: "idle", "connecting", "open", "closed"
  ctx,     \* SocketServer: "none", "queued" (backlog), "open", "closed"
  c2s,     \* frames written by the client and not yet read by the daemon
  s2c      \* frames written by the daemon and not yet read by the client

pipeVars == <<alive, server, sock, ctx, c2s, s2c>>

PipeInit ==
  /\ alive = Clients
  /\ server = "up"
  /\ sock = [c \in Clients |-> "idle"]
  /\ ctx = [c \in Clients |-> "none"]
  /\ c2s = [c \in Clients |-> <<>>]
  /\ s2c = [c \in Clients |-> <<>>]

PipeTypeOK ==
  /\ alive \subseteq Clients
  /\ server \in {"up", "down", "sigpipe"}
  /\ sock \in [Clients -> {"idle", "connecting", "open", "closed"}]
  /\ ctx \in [Clients -> {"none", "queued", "open", "closed"}]
  /\ c2s \in [Clients -> Seq(Route)]
  /\ s2c \in [Clients -> Seq(Route)]

(* Whether the descriptor at either end of connection c is open: a process *)
(* that ends closes its descriptors.                                       *)
ClientEnd(c) == c \in alive /\ sock[c] \in {"connecting", "open"}
ServerEnd(c) == server = "up" /\ ctx[c] \in {"queued", "open"}

(* What ::send(.., MSG_DONTWAIT) of a frame does. With the peer's end open *)
(* it is written, or refused because the socket buffer is full. With the   *)
(* peer's end closed it is swallowed, fails, or - no MSG_NOSIGNAL and no   *)
(* handler for SIGPIPE anywhere - ends the calling process.                *)
SendOutcomes(peerOpen) ==
  IF peerOpen
    THEN {"sent"} \cup {o \in {"failed"} : "sendFail" \in Faults}
    ELSE {"lost", "failed", "killed"}

ClientPipeSend(c, m, o) ==
  /\ o \in SendOutcomes(ServerEnd(c))
  /\ c2s' = IF o = "sent" THEN [c2s EXCEPT ![c] = Append(@, m)] ELSE c2s
  /\ alive' = IF o = "killed" THEN alive \ {c} ELSE alive

ServerPipeSend(c, m, o) ==
  /\ o \in SendOutcomes(ClientEnd(c))
  /\ s2c' = IF o = "sent" THEN [s2c EXCEPT ![c] = Append(@, m)] ELSE s2c
  /\ server' = IF o = "killed" THEN "sigpipe" ELSE server

(* Reading fails: end of stream or reset once the peer's end is closed, or *)
(* a recv error, a bad header or an undecodable payload at any time.       *)
ClientReadFails(c) == ~ServerEnd(c) \/ "readFail" \in Faults
ServerReadFails(c) == ~ClientEnd(c) \/ "readFail" \in Faults

(* SocketClient::handle_disconnect and erasing a ClientContext: the        *)
(* descriptor is closed and the frames nobody read are gone with it.       *)
CloseClientSocket(c) ==
  /\ sock' = [sock EXCEPT ![c] = "closed"]
  /\ s2c' = [s2c EXCEPT ![c] = <<>>]

CloseServerContext(c) ==
  /\ ctx' = [ctx EXCEPT ![c] = "closed"]
  /\ c2s' = [c2s EXCEPT ![c] = <<>>]

(* The environment ends a process. *)
ClientDies(c) ==
  /\ "clientDeath" \in Faults
  /\ c \in alive
  /\ alive' = alive \ {c}
  /\ UNCHANGED <<server, sock, ctx, c2s, s2c>>

ServerDies ==
  /\ "serverDeath" \in Faults
  /\ server = "up"
  /\ server' = "down"
  /\ UNCHANGED <<alive, sock, ctx, c2s, s2c>>

=============================================================================
