---------------------------- MODULE ServerRouter ----------------------------
(***************************************************************************)
(* The router of the daemon (src/common/ipc/server_router.cpp) with the    *)
(* SocketServer below it and the services that own its channels above it.  *)
(*                                                                         *)
(* The daemon runs on one thread and its services only ever destroy their  *)
(* own channel from an event handler, so every handler is one step.        *)
(***************************************************************************)
EXTENDS IpcPipe

VARIABLES
  known,    \* client ids in client_id_to_map_of_gateways_
  sReg,     \* tags in the client's map of gateways
  sLive,    \* tags of the channels the services own
  sSeq,     \* next_sequence_ of each gateway
  sEvents,  \* history: the events each channel's handler got
  opened,   \* history: how often a service was given a channel for the tag
  sSent     \* history: sequence numbers written for the tag

serverVars == <<known, sReg, sLive, sSeq, sEvents, opened, sSent>>

ServerInit ==
  /\ known = {}
  /\ sReg = [c \in Clients |-> {}]
  /\ sLive = [c \in Clients |-> {}]
  /\ sSeq = [c \in Clients |-> [t \in Tags |-> 0]]
  /\ sEvents = [c \in Clients |-> [t \in Tags |-> <<>>]]
  /\ opened = [c \in Clients |-> [t \in Tags |-> 0]]
  /\ sSent = [c \in Clients |-> [t \in Tags |-> <<>>]]

ServerTypeOK ==
  /\ known \subseteq Clients
  /\ sReg \in [Clients -> SUBSET Tags]
  /\ sLive \in [Clients -> SUBSET Tags]
  /\ sSeq \in [Clients -> [Tags -> 0 .. SrvMax]]
  /\ sEvents \in [Clients -> [Tags -> Seq(Event)]]
  /\ opened \in [Clients -> [Tags -> Nat]]
  /\ sSent \in [Clients -> [Tags -> Seq(Nat)]]

(* findAndActOnRegisteredGateway: registered and the weak pointer locks. *)
Findable(c, t) == c \in known /\ t \in sReg[c] /\ t \in sLive[c]

-----------------------------------------------------------------------------
(* SocketServer::handleAccept; the router does nothing on Connected. *)
ServerAccept(c) ==
  /\ server = "up"
  /\ ctx[c] = "queued"
  /\ ctx' = [ctx EXCEPT ![c] = "open"]
  /\ UNCHANGED <<alive, server, sock, c2s, s2c, serverVars>>

\* mutant: the gateways are forgotten, their services are not told
MutForgetSilently(c) ==
  /\ known' = known \ {c}
  /\ sReg' = [sReg EXCEPT ![c] = {}]
  /\ UNCHANGED sEvents

(* The gateways of a client whose pipe is gone: what Disconnected forgets  *)
(* and the Completed it gives to each gateway that was registered.         *)
Forget(c) ==
  /\ known' = known \ {c}
  /\ sReg' = [sReg EXCEPT ![c] = {}]
  /\ sEvents' = [sEvents EXCEPT ![c] = [t \in Tags |->
                   IF Findable(c, t) THEN Append(@[t], Completed("Disconnected")) ELSE @[t]]]

(* A reply that could not be written is returned as an error, and a client *)
(* whose request ends in an error loses its connection.                    *)
HandlesConnect(o) == o \in {"sent", "lost"}

(* handleRouteConnect. *)
ServerHandleRouteConnect(c) ==
  \E o \in SendOutcomes(ClientEnd(c)) :
    /\ ServerPipeSend(c, RouteConnect, o)
    /\ IF o = "failed"
         THEN CloseServerContext(c) /\ Forget(c)
         ELSE /\ known' = IF HandlesConnect(o) THEN known \cup {c} ELSE known
              /\ c2s' = [c2s EXCEPT ![c] = Tail(@)]
              /\ UNCHANGED <<ctx, sReg, sEvents>>
    /\ UNCHANGED <<sLive, sSeq, opened, sSent>>

(* Only the very first message of a sequence triggers the channel factory  *)
(* of a registered service.                                                *)
MutTriggersAlways(c, m) == c \in known /\ m.tag \in Served  \* mutant: any message
TriggersFactory(c, m) == c \in known /\ m.seq = 0 /\ m.tag \in Served

(* The factory decoded the request: the service subscribes to its new      *)
(* channel, which tells it at once that it is connected, and is given the  *)
(* request.                                                                *)
FirstEvents == <<Connected, Message(0)>>

OpenChannel(c, t) ==
  /\ sReg' = [sReg EXCEPT ![c] = @ \cup {t}]
  /\ sLive' = [sLive EXCEPT ![c] = @ \cup {t}]
  /\ sSeq' = [sSeq EXCEPT ![c][t] = 0]
  /\ opened' = [opened EXCEPT ![c][t] = @ + 1]
  /\ sEvents' = [sEvents EXCEPT ![c][t] = @ \o FirstEvents]
  /\ UNCHANGED <<server, s2c>>

(* The factory could not decode it: the gateway goes out of scope at once, *)
(* still registered, and tells the client that the channel has ended.      *)
DropUndecodable(c, t) ==
  /\ "undecodable" \in Faults
  /\ \E o \in SendOutcomes(ClientEnd(c)) : ServerPipeSend(c, RouteChannelEnd(t, "Success"), o)
  /\ UNCHANGED <<sReg, sLive, sSeq, opened, sEvents>>

(* handleRouteChannelMsg. *)
ServerHandleRouteChannelMsg(c, m) ==
  /\ IF Findable(c, m.tag)
       THEN /\ sEvents' = [sEvents EXCEPT ![c][m.tag] = Append(@, Message(m.seq))]
            /\ UNCHANGED <<server, s2c, sReg, sLive, sSeq, opened>>
       ELSE IF TriggersFactory(c, m)
              THEN OpenChannel(c, m.tag) \/ DropUndecodable(c, m.tag)
              ELSE UNCHANGED <<server, s2c, sReg, sLive, sSeq, opened, sEvents>>
  /\ c2s' = [c2s EXCEPT ![c] = Tail(@)]
  /\ UNCHANGED <<ctx, known, sSent>>

(* The registrations left after the channel with this tag has ended. *)
ServerUnregister(reg, t) == reg \ {t}

(* handleRouteChannelEnd. *)
ServerHandleRouteChannelEnd(c, m) ==
  /\ IF Findable(c, m.tag)
       THEN /\ sReg' = [sReg EXCEPT ![c] = ServerUnregister(@, m.tag)]
            /\ sEvents' = [sEvents EXCEPT ![c][m.tag] = Append(@, Completed(m.err))]
       ELSE UNCHANGED <<sReg, sEvents>>
  /\ c2s' = [c2s EXCEPT ![c] = Tail(@)]
  /\ UNCHANGED <<server, ctx, s2c, known, sLive, sSeq, opened, sSent>>

(* SocketServer::handleClientRequest of one whole frame. *)
ServerReceive(c) ==
  /\ server = "up"
  /\ ctx[c] = "open"
  /\ c2s[c] # <<>>
  /\ LET m == Head(c2s[c]) IN
       \/ m.kind = "connect" /\ ServerHandleRouteConnect(c)
       \/ m.kind = "msg" /\ ServerHandleRouteChannelMsg(c, m)
       \/ m.kind = "end" /\ ServerHandleRouteChannelEnd(c, m)
  /\ UNCHANGED <<alive, sock>>

(* SocketServer::handleClientRequest of an end of stream or an error: the  *)
(* context is erased and the router gets Disconnected.                     *)
ServerLosesPipe(c) ==
  /\ server = "up"
  /\ ctx[c] = "open"
  /\ ServerReadFails(c)
  /\ CloseServerContext(c)
  /\ Forget(c)
  /\ UNCHANGED <<alive, server, sock, s2c, sLive, sSeq, opened, sSent>>

-----------------------------------------------------------------------------
(* The guards of GatewayImpl::send. *)
ServerCanSend(c, t) == c \in known /\ t \in sReg[c]

(* A service sends a response on its channel. *)
ServerSend(c, t) ==
  /\ server = "up"
  /\ t \in sLive[c]
  /\ ServerCanSend(c, t)
  /\ sSeq[c][t] < SrvMax
  /\ sSeq' = [sSeq EXCEPT ![c][t] = @ + 1]
  /\ \E o \in SendOutcomes(ClientEnd(c)) :
       /\ ServerPipeSend(c, RouteChannelMsg(t, sSeq[c][t]), o)
       /\ sSent' = IF o = "sent"
                     THEN [sSent EXCEPT ![c][t] = Append(@, sSeq[c][t])]
                     ELSE sSent
  /\ UNCHANGED <<alive, sock, ctx, c2s, known, sReg, sLive, sEvents, opened>>

(* onGatewayDisposal: only a gateway still registered tells the client. *)
MutChEndIfUsed(c, t) == c \in known /\ t \in sReg[c] /\ sSeq[c][t] > 0  \* mutant: the client's rule
ServerSendsChEnd(c, t) == c \in known /\ t \in sReg[c]

(* A service completes its channel with a code and destroys it. *)
ServerDispose(c, t, e) ==
  /\ server = "up"
  /\ t \in sLive[c]
  /\ sLive' = [sLive EXCEPT ![c] = @ \ {t}]
  /\ sReg' = [sReg EXCEPT ![c] = @ \ {t}]
  /\ IF ServerSendsChEnd(c, t)
       THEN \E o \in SendOutcomes(ClientEnd(c)) : ServerPipeSend(c, RouteChannelEnd(t, e), o)
       ELSE UNCHANGED <<server, s2c>>
  /\ UNCHANGED <<alive, sock, ctx, c2s, known, sSeq, sEvents, opened, sSent>>

-----------------------------------------------------------------------------
(* What the services do with their channels. *)
ServerApp(c) ==
  \/ \E t \in Tags : ServerSend(c, t)
  \/ \E t \in Tags, e \in AppCodes : ServerDispose(c, t, e)

(* What the executor of the daemon runs. *)
ServerExecutor(c) == ServerAccept(c) \/ ServerReceive(c) \/ ServerLosesPipe(c)

ServerStep(c) == ServerApp(c) \/ ServerExecutor(c)

=============================================================================
