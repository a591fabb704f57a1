---------------------------- MODULE ClientRouter ----------------------------
(***************************************************************************)
(* The router of an SDK client process (src/common/ipc/client_router.cpp)  *)
(* with the SocketClient below it and the owners of its channels above it. *)
(*                                                                         *)
(* A process runs on one thread, so a handler is one step - except the two *)
(* handlers that loop over the gateways: each round calls an event handler *)
(* of the application, which may make, subscribe, use or destroy channels  *)
(* before the loop goes on. Those loops are unrolled, one step a round.    *)
(*                                                                         *)
(* A gateway lives as long as its channel, except while a loop over the    *)
(* registered gateways holds strong pointers: a channel destroyed meanwhile*)
(* leaves an orphan gateway, which is disposed of when the loop ends.      *)
(***************************************************************************)
EXTENDS IpcPipe

VARIABLES
  conn,     \* clients whose is_connected_ is true
  nextTag,  \* next_tag_
  cReg,     \* tags in map_of_gateways_
  cLive,    \* tags of the channels that exist
  cSub,     \* tags whose gateway has an event_handler_
  cSeq,     \* next_sequence_ of each gateway
  cEvents,  \* history: the events each channel's handler got
  loop,     \* the running loop: "none", "connected" or "completed"
  todo,     \* tags the running loop has still to notify
  held,     \* tags whose gateways gateway_ptrs keeps alive
  inCb      \* clients where a handler called by the loop is running

clientVars == <<conn, nextTag, cReg, cLive, cSub, cSeq, cEvents, loop, todo, held, inCb>>

ClientInit ==
  /\ conn = {}
  /\ nextTag = [c \in Clients |-> 0]
  /\ cReg = [c \in Clients |-> {}]
  /\ cLive = [c \in Clients |-> {}]
  /\ cSub = [c \in Clients |-> {}]
  /\ cSeq = [c \in Clients |-> [t \in Tags |-> 0]]
  /\ cEvents = [c \in Clients |-> [t \in Tags |-> <<>>]]
  /\ loop = [c \in Clients |-> "none"]
  /\ todo = [c \in Clients |-> {}]
  /\ held = [c \in Clients |-> {}]
  /\ inCb = {}

ClientTypeOK ==
  /\ conn \subseteq Clients
  /\ nextTag \in [Clients -> 0 .. NumTags]
  /\ cReg \in [Clients -> SUBSET Tags]
  /\ cLive \in [Clients -> SUBSET Tags]
  /\ cSub \in [Clients -> SUBSET Tags]
  /\ cSeq \in [Clients -> [Tags -> 0 .. CliMax]]
  /\ cEvents \in [Clients -> [Tags -> Seq(Event)]]
  /\ loop \in [Clients -> {"none", "connected", "completed"}]
  /\ todo \in [Clients -> SUBSET Tags]
  /\ held \in [Clients -> SUBSET Tags]
  /\ inCb \subseteq Clients

Idle(c) == c \in alive /\ loop[c] = "none"

(* The application runs between handlers, or inside one it was called from.*)
AppRuns(c) == Idle(c) \/ (c \in alive /\ c \in inCb)

Orphans(c) == held[c] \ cLive[c]

(* Whether a weak pointer to the gateway can still be locked. *)
MutNeverExpires(c, t) == TRUE  \* mutant: plain pointers
GatewayExists(c, t) == t \in cLive[c] \cup held[c]

(* GatewayImpl::event: an unsubscribed gateway drops the event. *)
GatewayEvent(c, t, e) ==
  IF t \in cSub[c]
    THEN [cEvents EXCEPT ![c][t] = Append(@, IF t \in cLive[c] THEN e ELSE LateEvent)]
    ELSE cEvents

-----------------------------------------------------------------------------
(* SocketClient::start: connect() leaves the connection in the backlog of  *)
(* a daemon that listens, or is going to fail.                             *)
ClientStart(c) ==
  /\ Idle(c)
  /\ sock[c] = "idle"
  /\ sock' = [sock EXCEPT ![c] = "connecting"]
  /\ \/ /\ server = "up"
        /\ ctx' = [ctx EXCEPT ![c] = "queued"]
     \/ /\ server # "up" \/ "refuse" \in Faults
        /\ UNCHANGED ctx
  /\ UNCHANGED <<alive, server, c2s, s2c, clientVars>>

(* The router answers a connected pipe with RouteConnect and waits for the *)
(* reply; whether the send worked is ignored by the caller.                *)
SendRouteConnect(c) ==
  \E o \in SendOutcomes(ServerEnd(c)) : ClientPipeSend(c, RouteConnect, o)

(* SocketClient::handle_connect. On an error, Disconnected finds           *)
(* is_connected_ false and so nobody to tell.                              *)
ClientHandleConnect(c) ==
  /\ Idle(c)
  /\ sock[c] = "connecting"
  /\ \/ /\ ctx[c] # "none"
        /\ sock' = [sock EXCEPT ![c] = "open"]
        /\ SendRouteConnect(c)
        /\ UNCHANGED s2c
     \/ /\ ~ServerEnd(c)
        /\ CloseClientSocket(c)
        /\ UNCHANGED <<alive, c2s>>
  /\ UNCHANGED <<server, ctx, clientVars>>

-----------------------------------------------------------------------------
(* makeChannel / makeGateway. *)
ClientMakeGateway(c) ==
  /\ AppRuns(c)
  /\ sock[c] # "idle"
  /\ nextTag[c] < NumTags
  /\ nextTag' = [nextTag EXCEPT ![c] = @ + 1]
  /\ cReg' = [cReg EXCEPT ![c] = @ \cup {nextTag[c]}]
  /\ cLive' = [cLive EXCEPT ![c] = @ \cup {nextTag[c]}]
  /\ UNCHANGED <<pipeVars, conn, cSub, cSeq, cEvents, loop, todo, held, inCb>>

(* Channel::subscribe and onGatewaySubscription: a channel subscribed after*)
(* the handshake is told at once that it is connected.                     *)
ClientSubscribe(c, t) ==
  /\ AppRuns(c)
  /\ t \in cLive[c] \ cSub[c]
  /\ cSub' = [cSub EXCEPT ![c] = @ \cup {t}]
  /\ cEvents' = IF c \in conn /\ t \in cReg[c]
                  THEN [cEvents EXCEPT ![c][t] = Append(@, Connected)]
                  ELSE cEvents
  /\ UNCHANGED <<pipeVars, conn, nextTag, cReg, cLive, cSeq, loop, todo, held, inCb>>

(* The guards of GatewayImpl::send: NotConnected and Shutdown are returned *)
(* without a trace in the state.                                           *)
MutCanSendEarly(c, t) == sock[c] = "open" /\ t \in cReg[c]  \* mutant: no handshake
CanSend(c, t) == c \in conn /\ t \in cReg[c]

(* next_sequence_++ comes before the pipe is tried. *)
NextSeq(n) == n + 1

(* Channel::send. Every client of the SDK sends from its event handler, so *)
(* only after it subscribed.                                               *)
ClientSend(c, t) ==
  /\ AppRuns(c)
  /\ t \in cLive[c] \cap cSub[c]
  /\ CanSend(c, t)
  /\ cSeq[c][t] < CliMax
  /\ cSeq' = [cSeq EXCEPT ![c][t] = NextSeq(@)]
  /\ \E o \in SendOutcomes(ServerEnd(c)) :
       ClientPipeSend(c, RouteChannelMsg(t, cSeq[c][t]), o)
  /\ UNCHANGED <<server, sock, ctx, s2c, conn, nextTag, cReg, cLive, cSub, cEvents,
                 loop, todo, held, inCb>>

(* Whether a gateway that is disposed of tells the daemon: a daemon that   *)
(* never got a message does not know the tag.                              *)
SendsChEnd(c, t) == t \in cReg[c] /\ cSeq[c][t] > 0 /\ c \in conn

\* mutant: a gateway that has nothing to tell stays registered
MutDisposeUnusedStays(c, t, e) ==
  IF SendsChEnd(c, t)
    THEN /\ cReg' = [cReg EXCEPT ![c] = @ \ {t}]
         /\ \E o \in SendOutcomes(ServerEnd(c)) : ClientPipeSend(c, RouteChannelEnd(t, e), o)
    ELSE UNCHANGED <<cReg, c2s, alive>>

(* ~GatewayImpl and onGatewayDisposal, with the code given to complete().  *)
DisposeGateway(c, t, e) ==
  /\ cReg' = [cReg EXCEPT ![c] = @ \ {t}]
  /\ IF SendsChEnd(c, t)
       THEN \E o \in SendOutcomes(ServerEnd(c)) :
              ClientPipeSend(c, RouteChannelEnd(t, e), o)
       ELSE UNCHANGED <<c2s, alive>>

(* The owner calls complete(e), or not, and destroys the channel. *)
ClientDispose(c, t, e) ==
  /\ AppRuns(c)
  /\ t \in cLive[c] \ held[c]
  /\ cLive' = [cLive EXCEPT ![c] = @ \ {t}]
  /\ DisposeGateway(c, t, e)
  /\ UNCHANGED <<server, sock, ctx, s2c, conn, nextTag, cSub, cSeq, cEvents,
                 loop, todo, held, inCb>>

(* The same while the loop over the gateways keeps this one alive. *)
ClientDisposeHeld(c, t) ==
  /\ AppRuns(c)
  /\ t \in cLive[c] \cap held[c]
  /\ cLive' = [cLive EXCEPT ![c] = @ \ {t}]
  /\ UNCHANGED <<pipeVars, conn, nextTag, cReg, cSub, cSeq, cEvents, loop, todo, held, inCb>>

-----------------------------------------------------------------------------
(* handleRouteConnect: the first reply connects the router and starts the  *)
(* loop that tells every registered gateway.                               *)
HandleRouteConnect(c) ==
  /\ IF c \in conn
       THEN UNCHANGED <<conn, loop, todo, held>>
       ELSE LET gateway_ptrs == {t \in cReg[c] : GatewayExists(c, t)} IN
            /\ conn' = conn \cup {c}
            /\ loop' = [loop EXCEPT ![c] = "connected"]
            /\ todo' = [todo EXCEPT ![c] = gateway_ptrs]
            /\ held' = [held EXCEPT ![c] = gateway_ptrs]
  /\ UNCHANGED <<cReg, cEvents>>

(* handleRouteChannelMsg: a message for an unknown tag is ignored. *)
HandleRouteChannelMsg(c, m) ==
  /\ cEvents' = IF m.tag \in cReg[c] /\ GatewayExists(c, m.tag)
                  THEN GatewayEvent(c, m.tag, Message(m.seq))
                  ELSE cEvents
  /\ UNCHANGED <<cReg, conn, loop, todo, held>>

(* The registrations left after the channel with this tag has ended. *)
MutUnregisterNot(reg, t) == reg  \* mutant: notified but not erased
Unregister(reg, t) == reg \ {t}

(* handleRouteChannelEnd: the gateway is unregistered, then notified. *)
HandleRouteChannelEnd(c, m) ==
  /\ IF m.tag \in cReg[c] /\ GatewayExists(c, m.tag)
       THEN /\ cReg' = [cReg EXCEPT ![c] = Unregister(@, m.tag)]
            /\ cEvents' = GatewayEvent(c, m.tag, Completed(m.err))
       ELSE UNCHANGED <<cReg, cEvents>>
  /\ UNCHANGED <<conn, loop, todo, held>>

(* SocketClient::handle_receive of one whole frame. *)
ClientReceive(c) ==
  /\ Idle(c)
  /\ sock[c] = "open"
  /\ s2c[c] # <<>>
  /\ s2c' = [s2c EXCEPT ![c] = Tail(@)]
  /\ LET m == Head(s2c[c]) IN
       \/ m.kind = "connect" /\ HandleRouteConnect(c)
       \/ m.kind = "msg" /\ HandleRouteChannelMsg(c, m)
       \/ m.kind = "end" /\ HandleRouteChannelEnd(c, m)
  /\ UNCHANGED <<alive, server, sock, ctx, c2s, nextTag, cLive, cSub, cSeq, inCb>>

(* What is left in map_of_gateways_ once the pipe is lost: it is swapped   *)
(* for an empty map before the first gateway is notified.                  *)
RegAfterLoss(reg) == {}

(* The gateways the loop then completes: those of the map swapped out. *)
MutNoneToComplete(c) == RegAfterLoss(cReg[c])  \* mutant: iterates over the emptied map
ToComplete(c) == cReg[c]

(* SocketClient::handle_disconnect: a connected router unregisters all its *)
(* gateways and starts the loop that completes them.                       *)
ClientLosesPipe(c) ==
  /\ Idle(c)
  /\ sock[c] = "open"
  /\ ClientReadFails(c)
  /\ CloseClientSocket(c)
  /\ IF c \in conn
       THEN /\ conn' = conn \ {c}
            /\ cReg' = [cReg EXCEPT ![c] = RegAfterLoss(@)]
            /\ loop' = [loop EXCEPT ![c] = "completed"]
            /\ todo' = [todo EXCEPT ![c] = ToComplete(c)]
       ELSE UNCHANGED <<conn, cReg, loop, todo>>
  /\ UNCHANGED <<alive, server, ctx, c2s, nextTag, cLive, cSub, cSeq, cEvents, held, inCb>>

-----------------------------------------------------------------------------
(* What each of the two loops tells a gateway. *)
MutLossIsSuccess(c) == IF loop[c] = "connected" THEN Connected ELSE Completed("Success")  \* mutant
LoopEvent(c) == IF loop[c] = "connected" THEN Connected ELSE Completed("Disconnected")

(* One round of the running loop, in the order the hash map happens to     *)
(* have. A weak pointer that cannot be locked is passed over.              *)
ClientNotify(c, t) ==
  /\ c \in alive
  /\ t \in todo[c]
  /\ todo' = [todo EXCEPT ![c] = @ \ {t}]
  /\ IF GatewayExists(c, t) /\ t \in cSub[c]
       THEN /\ cEvents' = GatewayEvent(c, t, LoopEvent(c))
            /\ inCb' = inCb \cup {c}
       ELSE /\ inCb' = inCb \ {c}
            /\ UNCHANGED cEvents
  /\ UNCHANGED <<pipeVars, conn, nextTag, cReg, cLive, cSub, cSeq, loop, held>>

(* gateway_ptrs goes out of scope: each orphan is disposed of in turn. *)
ClientReleaseOrphan(c, t, e) ==
  /\ c \in alive
  /\ loop[c] # "none"
  /\ todo[c] = {}
  /\ t \in Orphans(c)
  /\ held' = [held EXCEPT ![c] = @ \ {t}]
  /\ inCb' = inCb \ {c}
  /\ DisposeGateway(c, t, e)
  /\ UNCHANGED <<server, sock, ctx, s2c, conn, nextTag, cLive, cSub, cSeq, cEvents, loop, todo>>

ClientLoopEnd(c) ==
  /\ c \in alive
  /\ loop[c] # "none"
  /\ todo[c] = {}
  /\ Orphans(c) = {}
  /\ loop' = [loop EXCEPT ![c] = "none"]
  /\ held' = [held EXCEPT ![c] = {}]
  /\ inCb' = inCb \ {c}
  /\ UNCHANGED <<pipeVars, conn, nextTag, cReg, cLive, cSub, cSeq, cEvents, todo>>

-----------------------------------------------------------------------------
(* What the owner of a channel does with it. *)
ClientApp(c) ==
  \/ ClientMakeGateway(c)
  \/ \E t \in Tags : ClientSubscribe(c, t)
  \/ \E t \in Tags : ClientSend(c, t)
  \/ \E t \in Tags, e \in AppCodes : ClientDispose(c, t, e)
  \/ \E t \in Tags : ClientDisposeHeld(c, t)

(* What the executor of the process runs. *)
ClientExecutor(c) ==
  \/ ClientHandleConnect(c)
  \/ ClientReceive(c)
  \/ ClientLosesPipe(c)
  \/ \E t \in Tags : ClientNotify(c, t)
  \/ \E t \in Tags, e \in AppCodes : ClientReleaseOrphan(c, t, e)
  \/ ClientLoopEnd(c)

ClientStep(c) == ClientStart(c) \/ ClientApp(c) \/ ClientExecutor(c)

=============================================================================
