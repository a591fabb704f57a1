------------------------------ MODULE IpcProofs ------------------------------
(***************************************************************************)
(* Theorems about the clients and the server that talk over the pipe, for  *)
(* any number of clients, channels and messages and any set of faults.     *)
(***************************************************************************)
EXTENDS IpcRefinement, SequenceTheorems, TLAPS

(* What the routers put on the wire is a Route. *)
LEMMA RoutesAreRoutes ==
  /\ RouteConnect \in Route
  /\ \A t \in Tags, n \in Nat : RouteChannelMsg(t, n) \in Route
  /\ \A t \in Tags, e \in AppCodes : RouteChannelEnd(t, e) \in Route
BY IpcAssumption
   DEF RouteConnect, RouteChannelMsg, RouteChannelEnd, Route, Tags, ErrorCodes, AppCodes

(* What the routers tell a channel is an Event. *)
LEMMA EventsAreEvents ==
  /\ Connected \in Event
  /\ LateEvent \in Event
  /\ \A n \in Nat : Message(n) \in Event
  /\ \A e \in ErrorCodes : Completed(e) \in Event
BY DEF Connected, LateEvent, Message, Completed, Event, ErrorCodes, AppCodes

(* Changing the tags of one client keeps a map of tags well typed. *)
LEMMA TagMapUpdate ==
  ASSUME NEW f \in [Clients -> SUBSET Tags], NEW c \in Clients, NEW S \in SUBSET Tags
  PROVE  [f EXCEPT ![c] = S] \in [Clients -> SUBSET Tags]
OBVIOUS

(* One more event for one channel keeps the histories well typed. *)
LEMMA HistoryUpdate ==
  ASSUME NEW f \in [Clients -> [Tags -> Seq(Event)]], NEW c \in Clients, NEW t \in Tags,
         NEW e \in Event
  PROVE  [f EXCEPT ![c][t] = Append(@, e)] \in [Clients -> [Tags -> Seq(Event)]]
OBVIOUS

(* Writing a frame keeps the client's side of the pipe well typed. *)
LEMMA ClientPipeSendType ==
  ASSUME PipeTypeOK, NEW c \in Clients, NEW m \in Route, NEW o, ClientPipeSend(c, m, o)
  PROVE  c2s' \in [Clients -> Seq(Route)] /\ alive' \subseteq Clients
BY DEF PipeTypeOK, ClientPipeSend

(* Writing a frame keeps the daemon's side of the pipe well typed. *)
LEMMA ServerPipeSendType ==
  ASSUME PipeTypeOK, NEW c \in Clients, NEW m \in Route, NEW o, ServerPipeSend(c, m, o)
  PROVE  s2c' \in [Clients -> Seq(Route)] /\ server' \in {"up", "down", "sigpipe"}
BY DEF PipeTypeOK, ServerPipeSend

(* Notifying a gateway keeps the histories well typed. *)
LEMMA GatewayEventType ==
  ASSUME ClientTypeOK, NEW c \in Clients, NEW t \in Tags, NEW e \in Event
  PROVE  GatewayEvent(c, t, e) \in [Clients -> [Tags -> Seq(Event)]]
BY EventsAreEvents DEF ClientTypeOK, GatewayEvent

(* The initial state is well typed. *)
LEMMA InitTypeOK == Init => TypeOK
BY IpcAssumption
   DEF Init, PipeInit, ClientInit, ServerInit, TypeOK, PipeTypeOK, ClientTypeOK, ServerTypeOK, Tags

(* Disposing of a client gateway keeps the types. *)
LEMMA DisposeGatewayType ==
  ASSUME PipeTypeOK, ClientTypeOK, NEW c \in Clients, NEW t \in Tags, NEW e \in AppCodes,
         DisposeGateway(c, t, e)
  PROVE  /\ c2s' \in [Clients -> Seq(Route)]
         /\ alive' \subseteq Clients
         /\ cReg' \in [Clients -> SUBSET Tags]
<1>1. CASE SendsChEnd(c, t)
  BY <1>1, RoutesAreRoutes, ClientPipeSendType DEF DisposeGateway, ClientTypeOK
<1>2. CASE ~SendsChEnd(c, t)
  BY <1>2 DEF DisposeGateway, ClientTypeOK, PipeTypeOK
<1> QED BY <1>1, <1>2

(* A step of a client keeps the types. *)
LEMMA ClientStepTypeOK ==
  ASSUME TypeOK, NEW c \in Clients, ClientStep(c), UNCHANGED serverVars
  PROVE  TypeOK'
<1> USE IpcAssumption DEF TypeOK, PipeTypeOK, ClientTypeOK, ServerTypeOK, serverVars
<1>1. CASE ClientStart(c)
  BY <1>1 DEF ClientStart, clientVars
<1>2. CASE ClientHandleConnect(c)
  <2>1. CASE /\ sock' = [sock EXCEPT ![c] = "open"]
             /\ \E o \in SendOutcomes(ServerEnd(c)) : ClientPipeSend(c, RouteConnect, o)
             /\ UNCHANGED s2c
    <3>1. c2s' \in [Clients -> Seq(Route)] /\ alive' \subseteq Clients
      BY <2>1, ClientPipeSendType, RoutesAreRoutes
    <3> QED BY <1>2, <2>1, <3>1 DEF ClientHandleConnect, SendRouteConnect, clientVars
  <2>2. CASE CloseClientSocket(c) /\ UNCHANGED <<alive, c2s>>
    BY <1>2, <2>2 DEF ClientHandleConnect, SendRouteConnect, CloseClientSocket, clientVars
  <2> QED BY <1>2, <2>1, <2>2 DEF ClientHandleConnect, SendRouteConnect
<1>3. CASE ClientMakeGateway(c)
  <2>1. nextTag[c] \in Tags
    <3>1. nextTag[c] \in 0 .. NumTags
      OBVIOUS
    <3>2. nextTag[c] < NumTags
      BY <1>3 DEF ClientMakeGateway
    <3> HIDE DEF TypeOK, PipeTypeOK, ClientTypeOK, ServerTypeOK
    <3> QED BY <3>1, <3>2 DEF Tags
  <2>2. nextTag' \in [Clients -> 0 .. NumTags]
    BY <1>3 DEF ClientMakeGateway
  <2>3. cReg' \in [Clients -> SUBSET Tags]
    BY <1>3, <2>1 DEF ClientMakeGateway
  <2>4. cLive' \in [Clients -> SUBSET Tags]
    BY <1>3, <2>1 DEF ClientMakeGateway
  <2> QED BY <1>3, <2>2, <2>3, <2>4 DEF ClientMakeGateway, pipeVars
<1>4. ASSUME NEW t \in Tags, ClientSubscribe(c, t)
      PROVE  TypeOK'
  <2>1. cSub' \in [Clients -> SUBSET Tags]
    BY <1>4 DEF ClientSubscribe
  <2>2. cEvents' \in [Clients -> [Tags -> Seq(Event)]]
    BY <1>4, EventsAreEvents DEF ClientSubscribe
  <2> QED BY <1>4, <2>1, <2>2 DEF ClientSubscribe, pipeVars
<1>5. ASSUME NEW t \in Tags, ClientSend(c, t)
      PROVE  TypeOK'
  <2>1. RouteChannelMsg(t, cSeq[c][t]) \in Route
    BY RoutesAreRoutes
  <2>2. c2s' \in [Clients -> Seq(Route)] /\ alive' \subseteq Clients
    BY <1>5, <2>1, ClientPipeSendType DEF ClientSend
  <2>3. cSeq' \in [Clients -> [Tags -> 0 .. CliMax]]
    BY <1>5 DEF ClientSend, NextSeq
  <2> QED BY <1>5, <2>2, <2>3 DEF ClientSend
<1>6. ASSUME NEW t \in Tags, NEW e \in AppCodes, ClientDispose(c, t, e)
      PROVE  TypeOK'
  <2>1. /\ c2s' \in [Clients -> Seq(Route)]
        /\ alive' \subseteq Clients
        /\ cReg' \in [Clients -> SUBSET Tags]
    BY <1>6, DisposeGatewayType DEF ClientDispose
  <2> QED BY <1>6, <2>1 DEF ClientDispose
<1>7. ASSUME NEW t \in Tags, ClientDisposeHeld(c, t)
      PROVE  TypeOK'
  BY <1>7 DEF ClientDisposeHeld, pipeVars
<1>8. CASE ClientReceive(c)
  <2> DEFINE m == Head(s2c[c])
  <2>1. m \in Route /\ s2c' \in [Clients -> Seq(Route)]
    BY <1>8 DEF ClientReceive
  <2>2. m.tag \in Tags /\ m.seq \in Nat /\ m.err \in ErrorCodes
    BY <2>1 DEF Route
  <2>3. CASE HandleRouteConnect(c)
    <3>1. CASE c \in conn
      BY <1>8, <2>1, <2>3, <3>1 DEF ClientReceive, HandleRouteConnect
    <3>2. CASE c \notin conn
      <4> DEFINE S == {t \in cReg[c] : GatewayExists(c, t)}
      <4>1. S \in SUBSET Tags
        OBVIOUS
      <4>2. /\ conn' = conn \cup {c}
            /\ loop' = [loop EXCEPT ![c] = "connected"]
            /\ todo' = [todo EXCEPT ![c] = S]
            /\ held' = [held EXCEPT ![c] = S]
            /\ UNCHANGED <<cReg, cEvents>>
        BY <2>3, <3>2 DEF HandleRouteConnect
      <4> HIDE DEF S
      <4>3. todo' \in [Clients -> SUBSET Tags] /\ held' \in [Clients -> SUBSET Tags]
        BY <4>1, <4>2, TagMapUpdate
      <4> QED BY <1>8, <2>1, <4>2, <4>3 DEF ClientReceive
    <3> QED BY <3>1, <3>2
  <2>4. CASE HandleRouteChannelMsg(c, m)
    <3>1. cEvents' \in [Clients -> [Tags -> Seq(Event)]]
      BY <2>2, <2>4, GatewayEventType, EventsAreEvents DEF HandleRouteChannelMsg
    <3> QED BY <1>8, <2>1, <2>4, <3>1 DEF ClientReceive, HandleRouteChannelMsg
  <2>5. CASE HandleRouteChannelEnd(c, m)
    <3>1. cEvents' \in [Clients -> [Tags -> Seq(Event)]]
      <4>1. Completed(m.err) \in Event
        BY <2>2, EventsAreEvents
      <4>2. GatewayEvent(c, m.tag, Completed(m.err)) \in [Clients -> [Tags -> Seq(Event)]]
        BY <2>2, <4>1, GatewayEventType
      <4> QED BY <2>5, <4>2 DEF HandleRouteChannelEnd
    <3>2. cReg' \in [Clients -> SUBSET Tags]
      <4>1. Unregister(cReg[c], m.tag) \in SUBSET Tags
        BY DEF Unregister
      <4> QED BY <2>5, <4>1 DEF HandleRouteChannelEnd
    <3> QED BY <1>8, <2>1, <2>5, <3>1, <3>2 DEF ClientReceive, HandleRouteChannelEnd
  <2> QED BY <1>8, <2>3, <2>4, <2>5 DEF ClientReceive
<1>9. CASE ClientLosesPipe(c)
  <2>1. sock' \in [Clients -> {"idle", "connecting", "open", "closed"}]
        /\ s2c' \in [Clients -> Seq(Route)]
    BY <1>9 DEF ClientLosesPipe, CloseClientSocket
  <2>2. cReg' \in [Clients -> SUBSET Tags]
    BY <1>9 DEF ClientLosesPipe, RegAfterLoss
  <2>3. todo' \in [Clients -> SUBSET Tags]
    <3>1. cReg[c] \in SUBSET Tags
      OBVIOUS
    <3>2. todo' = todo \/ todo' = [todo EXCEPT ![c] = cReg[c]]
      BY <1>9 DEF ClientLosesPipe, ToComplete
    <3> QED BY <3>1, <3>2, TagMapUpdate
  <2>4. loop' \in [Clients -> {"none", "connected", "completed"}] /\ conn' \subseteq Clients
    BY <1>9 DEF ClientLosesPipe
  <2> QED BY <1>9, <2>1, <2>2, <2>3, <2>4 DEF ClientLosesPipe
<1>10. ASSUME NEW t \in Tags, ClientNotify(c, t)
       PROVE  TypeOK'
  <2>1. LoopEvent(c) \in Event
    BY EventsAreEvents DEF LoopEvent, ErrorCodes
  <2>2. cEvents' \in [Clients -> [Tags -> Seq(Event)]]
    <3>1. GatewayEvent(c, t, LoopEvent(c)) \in [Clients -> [Tags -> Seq(Event)]]
      BY <2>1, GatewayEventType
    <3> QED BY <1>10, <3>1 DEF ClientNotify
  <2> QED BY <1>10, <2>2 DEF ClientNotify, pipeVars
<1>11. ASSUME NEW t \in Tags, NEW e \in AppCodes, ClientReleaseOrphan(c, t, e)
       PROVE  TypeOK'
  <2>1. /\ c2s' \in [Clients -> Seq(Route)]
        /\ alive' \subseteq Clients
        /\ cReg' \in [Clients -> SUBSET Tags]
    BY <1>11, DisposeGatewayType DEF ClientReleaseOrphan
  <2> QED BY <1>11, <2>1 DEF ClientReleaseOrphan
<1>12. CASE ClientLoopEnd(c)
  BY <1>12 DEF ClientLoopEnd, pipeVars
<1> QED
  BY <1>1, <1>2, <1>3, <1>4, <1>5, <1>6, <1>7, <1>8, <1>9, <1>10, <1>11, <1>12
  DEF ClientStep, ClientApp, ClientExecutor

(* What the daemon does on a disconnection keeps the types. *)
LEMMA ForgetType ==
  ASSUME ServerTypeOK, NEW c \in Clients, Forget(c)
  PROVE  /\ known' \subseteq Clients
         /\ sReg' \in [Clients -> SUBSET Tags]
         /\ sEvents' \in [Clients -> [Tags -> Seq(Event)]]
<1>1. Completed("Disconnected") \in Event
  BY EventsAreEvents DEF ErrorCodes
<1>2. sEvents' \in [Clients -> [Tags -> Seq(Event)]]
  <2> DEFINE g == [t \in Tags |-> IF Findable(c, t)
                                   THEN Append(sEvents[c][t], Completed("Disconnected"))
                                   ELSE sEvents[c][t]]
  <2>1. g \in [Tags -> Seq(Event)]
    BY <1>1 DEF ServerTypeOK
  <2>2. sEvents' = [sEvents EXCEPT ![c] = g]
    BY DEF Forget
  <2> HIDE DEF g
  <2> QED BY <2>1, <2>2 DEF ServerTypeOK
<1> QED BY <1>2 DEF Forget, ServerTypeOK

(* A step of the daemon keeps the types. *)
LEMMA ServerStepTypeOK ==
  ASSUME TypeOK, NEW c \in Clients, ServerStep(c), UNCHANGED clientVars
  PROVE  TypeOK'
<1> USE IpcAssumption DEF TypeOK, PipeTypeOK, ServerTypeOK
<1>0. ClientTypeOK'
  BY DEF ClientTypeOK, clientVars
<1>1. CASE ServerAccept(c)
  BY <1>0, <1>1 DEF ServerAccept, serverVars
<1>2. CASE ServerReceive(c)
  <2> DEFINE m == Head(c2s[c])
  <2>1. m \in Route /\ [c2s EXCEPT ![c] = Tail(@)] \in [Clients -> Seq(Route)]
    BY <1>2 DEF ServerReceive
  <2>2. m.tag \in Tags /\ m.seq \in Nat /\ m.err \in ErrorCodes
    BY <2>1 DEF Route
  <2> HIDE DEF m
  <2>3. CASE ServerHandleRouteConnect(c)
    <3>1. PICK o \in SendOutcomes(ClientEnd(c)) :
            /\ ServerPipeSend(c, RouteConnect, o)
            /\ IF o = "failed"
                 THEN CloseServerContext(c) /\ Forget(c)
                 ELSE /\ known' = IF HandlesConnect(o) THEN known \cup {c} ELSE known
                      /\ c2s' = [c2s EXCEPT ![c] = Tail(@)]
                      /\ UNCHANGED <<ctx, sReg, sEvents>>
            /\ UNCHANGED <<sLive, sSeq, opened, sSent>>
      BY <2>3 DEF ServerHandleRouteConnect
    <3>2. s2c' \in [Clients -> Seq(Route)] /\ server' \in {"up", "down", "sigpipe"}
      BY <3>1, RoutesAreRoutes, ServerPipeSendType
    <3>3. CASE o = "failed"
      <4>1. /\ ctx' \in [Clients -> {"none", "queued", "open", "closed"}]
            /\ c2s' \in [Clients -> Seq(Route)]
        <5>1. CloseServerContext(c)
          BY <3>1, <3>3
        <5> QED BY <5>1 DEF CloseServerContext
      <4>2. /\ known' \subseteq Clients
            /\ sReg' \in [Clients -> SUBSET Tags]
            /\ sEvents' \in [Clients -> [Tags -> Seq(Event)]]
        BY <3>1, <3>3, ForgetType
      <4>3. UNCHANGED <<alive, sock, sLive, sSeq, opened, sSent>>
        BY <1>2, <3>1 DEF ServerReceive
      <4> QED BY <1>0, <3>2, <4>1, <4>2, <4>3
    <3>4. CASE o # "failed"
      <4>1. known' \subseteq Clients /\ c2s' \in [Clients -> Seq(Route)]
        BY <2>1, <3>1, <3>4
      <4>2. UNCHANGED <<alive, sock, ctx, sReg, sEvents, sLive, sSeq, opened, sSent>>
        BY <1>2, <3>1, <3>4 DEF ServerReceive
      <4> QED BY <1>0, <3>2, <4>1, <4>2
    <3> QED BY <3>3, <3>4
  <2>4. CASE ServerHandleRouteChannelMsg(c, m)
    <3>1. c2s' \in [Clients -> Seq(Route)] /\ ctx' = ctx /\ known' = known /\ sSent' = sSent
      BY <2>1, <2>4 DEF ServerHandleRouteChannelMsg
    <3>2. CASE Findable(c, m.tag)
      <4>1. sEvents' \in [Clients -> [Tags -> Seq(Event)]]
        <5>1. Message(m.seq) \in Event
          BY <2>2, EventsAreEvents
        <5>2. sEvents' = [sEvents EXCEPT ![c][m.tag] = Append(@, Message(m.seq))]
          BY <2>4, <3>2 DEF ServerHandleRouteChannelMsg
        <5> QED BY <2>2, <5>1, <5>2, HistoryUpdate
      <4> QED BY <1>0, <1>2, <2>4, <3>1, <3>2, <4>1 DEF ServerHandleRouteChannelMsg, ServerReceive
    <3>3. CASE OpenChannel(c, m.tag)
      <4>1. sReg' \in [Clients -> SUBSET Tags]
        <5>1. sReg[c] \cup {m.tag} \in SUBSET Tags
          BY <2>2
        <5> QED BY <3>3, <5>1, TagMapUpdate DEF OpenChannel, FirstEvents
      <4>2. sLive' \in [Clients -> SUBSET Tags]
        <5>1. sLive[c] \cup {m.tag} \in SUBSET Tags
          BY <2>2
        <5> QED BY <3>3, <5>1, TagMapUpdate DEF OpenChannel, FirstEvents
      <4>3. sSeq' \in [Clients -> [Tags -> 0 .. SrvMax]]
        BY <2>2, <3>3 DEF OpenChannel, FirstEvents
      <4>5. opened' \in [Clients -> [Tags -> Nat]]
        BY <2>2, <3>3 DEF OpenChannel, FirstEvents
      <4>4. sEvents' \in [Clients -> [Tags -> Seq(Event)]]
        <5>1. <<Connected, Message(0)>> \in Seq(Event)
          BY EventsAreEvents
        <5>2. sEvents[c][m.tag] \o <<Connected, Message(0)>> \in Seq(Event)
          BY <2>2, <5>1
        <5> QED BY <2>2, <3>3, <5>2 DEF OpenChannel, FirstEvents
      <4> QED BY <1>0, <1>2, <3>1, <3>3, <4>1, <4>2, <4>3, <4>4, <4>5 DEF OpenChannel, FirstEvents, ServerReceive
    <3>4. CASE DropUndecodable(c, m.tag)
      <4>1. RouteChannelEnd(m.tag, "Success") \in Route
        BY <2>2, RoutesAreRoutes DEF AppCodes
      <4>2. s2c' \in [Clients -> Seq(Route)] /\ server' \in {"up", "down", "sigpipe"}
        BY <3>4, <4>1, ServerPipeSendType DEF DropUndecodable
      <4> QED BY <1>0, <1>2, <3>1, <3>4, <4>2 DEF DropUndecodable, ServerReceive
    <3>5. CASE UNCHANGED <<server, s2c, sReg, sLive, sSeq, opened, sEvents>>
      BY <1>0, <1>2, <3>1, <3>5 DEF ServerReceive
    <3> QED BY <2>4, <3>2, <3>3, <3>4, <3>5 DEF ServerHandleRouteChannelMsg
  <2>5. CASE ServerHandleRouteChannelEnd(c, m)
    <3>1. sReg' \in [Clients -> SUBSET Tags]
      <4>1. ServerUnregister(sReg[c], m.tag) \in SUBSET Tags
        BY DEF ServerUnregister
      <4>2. [sReg EXCEPT ![c] = ServerUnregister(@, m.tag)] \in [Clients -> SUBSET Tags]
        BY <4>1, TagMapUpdate
      <4> QED BY <2>5, <4>2 DEF ServerHandleRouteChannelEnd
    <3>2. sEvents' \in [Clients -> [Tags -> Seq(Event)]]
      <4>1. Completed(m.err) \in Event
        BY <2>2, EventsAreEvents
      <4>2. [sEvents EXCEPT ![c][m.tag] = Append(@, Completed(m.err))]
              \in [Clients -> [Tags -> Seq(Event)]]
        BY <2>2, <4>1, HistoryUpdate
      <4> QED BY <2>5, <4>2 DEF ServerHandleRouteChannelEnd
    <3> QED BY <1>0, <1>2, <2>1, <2>5, <3>1, <3>2 DEF ServerHandleRouteChannelEnd, ServerReceive
  <2> QED BY <1>2, <2>3, <2>4, <2>5 DEF ServerReceive, m
<1>3. CASE ServerLosesPipe(c)
  BY <1>0, <1>3, ForgetType DEF ServerLosesPipe, CloseServerContext
<1>4. ASSUME NEW t \in Tags, ServerSend(c, t)
      PROVE  TypeOK'
  <2>1. sSeq' \in [Clients -> [Tags -> 0 .. SrvMax]] /\ RouteChannelMsg(t, sSeq[c][t]) \in Route
    BY <1>4, RoutesAreRoutes DEF ServerSend
  <2>2. s2c' \in [Clients -> Seq(Route)] /\ server' \in {"up", "down", "sigpipe"}
    BY <1>4, <2>1, ServerPipeSendType DEF ServerSend
  <2>3. sSent' \in [Clients -> [Tags -> Seq(Nat)]]
    BY <1>4 DEF ServerSend
  <2> QED BY <1>0, <1>4, <2>1, <2>2, <2>3 DEF ServerSend
<1>5. ASSUME NEW t \in Tags, NEW e \in AppCodes, ServerDispose(c, t, e)
      PROVE  TypeOK'
  <2>1. sReg' \in [Clients -> SUBSET Tags] /\ sLive' \in [Clients -> SUBSET Tags]
    BY <1>5 DEF ServerDispose
  <2>2. s2c' \in [Clients -> Seq(Route)] /\ server' \in {"up", "down", "sigpipe"}
    BY <1>5, RoutesAreRoutes, ServerPipeSendType DEF ServerDispose
  <2> QED BY <1>0, <1>5, <2>1, <2>2 DEF ServerDispose
<1> QED
  BY <1>1, <1>2, <1>3, <1>4, <1>5 DEF ServerStep, ServerApp, ServerExecutor

(* Every step keeps the types. *)
LEMMA NextTypeOK == TypeOK /\ [Next]_vars => TypeOK'
<1> SUFFICES ASSUME TypeOK, [Next]_vars PROVE TypeOK'
  OBVIOUS
<1>1. ASSUME NEW c \in Clients, ClientDies(c), UNCHANGED <<clientVars, serverVars>>
      PROVE  TypeOK'
  BY <1>1 DEF ClientDies, clientVars, serverVars, TypeOK, PipeTypeOK, ClientTypeOK, ServerTypeOK
<1>2. CASE ServerDies /\ UNCHANGED <<clientVars, serverVars>>
  BY <1>2 DEF ServerDies, clientVars, serverVars, TypeOK, PipeTypeOK, ClientTypeOK, ServerTypeOK
<1>3. CASE UNCHANGED vars
  BY <1>3 DEF vars, pipeVars, clientVars, serverVars, TypeOK, PipeTypeOK, ClientTypeOK, ServerTypeOK
<1> QED BY <1>1, <1>2, <1>3, ClientStepTypeOK, ServerStepTypeOK DEF Next

(* Type correctness: in every reachable state of the daemon and any number *)
(* of clients every variable of pipe and routers has its type - sequence   *)
(* numbers and tags stay in range, queues hold routes.                     *)
THEOREM TypeCorrect == Spec => []TypeOK
BY InitTypeOK, NextTypeOK, PTL DEF Spec

-----------------------------------------------------------------------------
(* RegisteredGatewayIsAlive is kept by every step, given that strong       *)
(* pointers are only held while a loop runs: a new loop forgets the old    *)
(* ones.                                                                   *)
HeldOnlyInLoop == \A c \in Clients : loop[c] = "none" => held[c] = {}
GatewayInv == RegisteredGatewayIsAlive /\ HeldOnlyInLoop

(* A step of a client keeps GatewayInv. *)
LEMMA ClientStepGateways ==
  ASSUME TypeOK, GatewayInv, NEW c \in Clients, ClientStep(c), UNCHANGED serverVars
  PROVE  GatewayInv'
<1> SUFFICES ASSUME NEW d \in Clients
             PROVE  /\ cReg'[d] \subseteq cLive'[d] \cup held'[d]
                    /\ loop'[d] = "none" => held'[d] = {}
  BY DEF GatewayInv, RegisteredGatewayIsAlive, HeldOnlyInLoop, serverVars
<1> USE DEF TypeOK, ClientTypeOK, GatewayInv, RegisteredGatewayIsAlive, HeldOnlyInLoop
<1>1. CASE ClientStart(c)
  BY <1>1 DEF ClientStart, clientVars
<1>2. CASE ClientHandleConnect(c)
  BY <1>2 DEF ClientHandleConnect, SendRouteConnect, clientVars
<1>3. CASE ClientMakeGateway(c)
  BY <1>3 DEF ClientMakeGateway
<1>4. ASSUME NEW t \in Tags, ClientSubscribe(c, t) \/ ClientSend(c, t)
      PROVE  UNCHANGED <<cReg, cLive, held, loop>>
  BY <1>4 DEF ClientSubscribe, ClientSend
<1>5. ASSUME NEW t \in Tags, NEW e \in AppCodes, ClientDispose(c, t, e)
      PROVE  /\ cReg'[d] \subseteq cLive'[d] \cup held'[d]
             /\ loop'[d] = "none" => held'[d] = {}
  BY <1>5 DEF ClientDispose, DisposeGateway
<1>6. ASSUME NEW t \in Tags, ClientDisposeHeld(c, t)
      PROVE  /\ cReg'[d] \subseteq cLive'[d] \cup held'[d]
             /\ loop'[d] = "none" => held'[d] = {}
  BY <1>6 DEF ClientDisposeHeld
<1>7. CASE ClientReceive(c)
  <2> DEFINE m == Head(s2c[c])
  <2>1. cLive' = cLive /\ loop[c] = "none"
    BY <1>7 DEF ClientReceive, Idle
  <2>2. CASE HandleRouteConnect(c)
    <3>1. cReg' = cReg
      BY <2>2 DEF HandleRouteConnect
    <3>2. CASE c \in conn
      BY <2>1, <2>2, <3>1, <3>2 DEF HandleRouteConnect
    <3>3. CASE c \notin conn
      <4> DEFINE S == {t \in cReg[c] : GatewayExists(c, t)}
      <4>1. held' = [held EXCEPT ![c] = S] /\ loop' = [loop EXCEPT ![c] = "connected"]
        BY <2>2, <3>3 DEF HandleRouteConnect
      <4>2. cReg[c] \subseteq S
        BY DEF GatewayExists
      <4> HIDE DEF S
      <4> QED BY <2>1, <3>1, <4>1, <4>2
    <3> QED BY <3>2, <3>3
  <2>3. CASE HandleRouteChannelMsg(c, m)
    BY <2>1, <2>3 DEF HandleRouteChannelMsg
  <2>4. CASE HandleRouteChannelEnd(c, m)
    <3> HIDE DEF m
    <3>1. /\ loop' = loop /\ held' = held
          /\ cReg' = cReg \/ cReg' = [cReg EXCEPT ![c] = cReg[c] \ {m.tag}]
      BY <2>4 DEF HandleRouteChannelEnd, Unregister
    <3>2. cReg'[d] \subseteq cReg[d]
      <4>1. cReg \in [Clients -> SUBSET Tags]
        BY DEF TypeOK, ClientTypeOK
      <4>2. CASE cReg' = cReg
        BY <4>2
      <4>3. CASE cReg' = [cReg EXCEPT ![c] = cReg[c] \ {m.tag}]
        <5>1. PICK r : r = cReg[c] \ {m.tag}
          OBVIOUS
        <5>2. r \subseteq cReg[c] /\ cReg'[d] = IF d = c THEN r ELSE cReg[d]
          BY <4>1, <4>3, <5>1
        <5> QED BY <5>2
      <4> QED BY <3>1, <4>2, <4>3
    <3> QED BY <2>1, <3>1, <3>2
  <2> QED BY <1>7, <2>2, <2>3, <2>4 DEF ClientReceive
<1>8. CASE ClientLosesPipe(c)
  BY <1>8 DEF ClientLosesPipe, RegAfterLoss
<1>9. ASSUME NEW t \in Tags, ClientNotify(c, t)
      PROVE  UNCHANGED <<cReg, cLive, held, loop>>
  BY <1>9 DEF ClientNotify
<1>10. ASSUME NEW t \in Tags, NEW e \in AppCodes, ClientReleaseOrphan(c, t, e)
       PROVE  /\ cReg'[d] \subseteq cLive'[d] \cup held'[d]
              /\ loop'[d] = "none" => held'[d] = {}
  BY <1>10 DEF ClientReleaseOrphan, DisposeGateway
<1>11. CASE ClientLoopEnd(c)
  BY <1>11 DEF ClientLoopEnd, Orphans
<1> QED
  BY <1>1, <1>2, <1>3, <1>4, <1>5, <1>6, <1>7, <1>8, <1>9, <1>10, <1>11
  DEF ClientStep, ClientApp, ClientExecutor

(* A step of the daemon keeps GatewayInv. *)
LEMMA ServerStepGateways ==
  ASSUME TypeOK, GatewayInv, NEW c \in Clients, ServerStep(c), UNCHANGED clientVars
  PROVE  GatewayInv'
<1> SUFFICES ASSUME NEW d \in Clients
             PROVE  sReg'[d] \subseteq sLive'[d]
  BY DEF GatewayInv, RegisteredGatewayIsAlive, HeldOnlyInLoop, clientVars
<1> USE DEF TypeOK, ServerTypeOK, GatewayInv, RegisteredGatewayIsAlive
<1>1. CASE ServerAccept(c)
  BY <1>1 DEF ServerAccept, serverVars
<1>2. CASE ServerReceive(c)
  <2> DEFINE m == Head(c2s[c])
  <2> HIDE DEF m
  <2>1. CASE ServerHandleRouteConnect(c)
    BY <2>1 DEF ServerHandleRouteConnect, Forget
  <2>2. CASE ServerHandleRouteChannelMsg(c, m)
    <3>1. CASE OpenChannel(c, m.tag)
      <4>1. /\ sReg' = [sReg EXCEPT ![c] = sReg[c] \cup {m.tag}]
            /\ sLive' = [sLive EXCEPT ![c] = sLive[c] \cup {m.tag}]
        BY <3>1 DEF OpenChannel, FirstEvents
      <4> QED BY <4>1
    <3>2. CASE UNCHANGED <<sReg, sLive>>
      BY <3>2
    <3> QED BY <2>2, <3>1, <3>2 DEF ServerHandleRouteChannelMsg, DropUndecodable
  <2>3. CASE ServerHandleRouteChannelEnd(c, m)
    <3>1. sLive' = sLive /\ (sReg' = sReg \/ sReg' = [sReg EXCEPT ![c] = sReg[c] \ {m.tag}])
      BY <2>3 DEF ServerHandleRouteChannelEnd, ServerUnregister
    <3> QED BY <3>1
  <2> QED BY <1>2, <2>1, <2>2, <2>3 DEF ServerReceive, m
<1>3. CASE ServerLosesPipe(c)
  BY <1>3 DEF ServerLosesPipe, Forget
<1>4. ASSUME NEW t \in Tags, ServerSend(c, t)
      PROVE  UNCHANGED <<sReg, sLive>>
  BY <1>4 DEF ServerSend
<1>5. ASSUME NEW t \in Tags, NEW e \in AppCodes, ServerDispose(c, t, e)
      PROVE  sReg'[d] \subseteq sLive'[d]
  BY <1>5 DEF ServerDispose
<1> QED
  BY <1>1, <1>2, <1>3, <1>4, <1>5 DEF ServerStep, ServerApp, ServerExecutor

(* GatewayInv holds in every reachable state. *)
LEMMA GatewaysInvariant == Spec => []GatewayInv
<1>1. Init => GatewayInv
  BY DEF Init, ClientInit, ServerInit, GatewayInv, RegisteredGatewayIsAlive, HeldOnlyInLoop
<1>2. TypeOK /\ GatewayInv /\ [Next]_vars => GatewayInv'
  <2>1. ASSUME UNCHANGED <<clientVars, serverVars>>, GatewayInv
        PROVE  GatewayInv'
    BY <2>1 DEF clientVars, serverVars, GatewayInv, RegisteredGatewayIsAlive, HeldOnlyInLoop
  <2> QED BY <2>1, ClientStepGateways, ServerStepGateways DEF Next, vars
<1> QED BY <1>1, <1>2, TypeCorrect, PTL DEF Spec

(* The weak pointers of both routers never dangle (map_of_gateways_ and    *)
(* client_id_to_map_of_gateways_): every registered gateway exists, for    *)
(* any order of making, ending and destroying channels, inside or outside  *)
(* the loops over the gateways.                                            *)
THEOREM GatewaysStayAlive == Spec => []RegisteredGatewayIsAlive
BY GatewaysInvariant, PTL DEF GatewayInv

-----------------------------------------------------------------------------
(* Why a channel is opened at most once: the first message of a tag enters *)
(* the wire once, and while it is on its way no service has the tag.       *)
IsFirst(r, t) == r.kind = "msg" /\ r.tag = t /\ r.seq = 0
NoFirst(q, t) == \A i \in 1 .. Len(q) : ~IsFirst(q[i], t)
AtMostOneFirst(q, t) ==
  \A i, j \in 1 .. Len(q) : IsFirst(q[i], t) /\ IsFirst(q[j], t) => i = j

OpenInvAt(c, t) ==
  /\ AtMostOneFirst(c2s[c], t)
  /\ NoFirst(c2s[c], t) \/ (opened[c][t] = 0 /\ cSeq[c][t] > 0)
  /\ cSeq[c][t] = 0 => opened[c][t] = 0
  /\ opened[c][t] <= 1
OpenInv == \A c \in Clients, t \in Tags : OpenInvAt(c, t)

(* A frame that is not a first message adds none to the queue. *)
LEMMA AppendOther ==
  ASSUME NEW q \in Seq(Route), NEW r \in Route, NEW t \in Tags, ~IsFirst(r, t)
  PROVE  /\ NoFirst(q, t) => NoFirst(Append(q, r), t)
         /\ AtMostOneFirst(q, t) => AtMostOneFirst(Append(q, r), t)
BY DEF NoFirst, AtMostOneFirst

(* A queue without a first message has at most one after any append. *)
LEMMA AppendFirst ==
  ASSUME NEW q \in Seq(Route), NEW r \in Route, NEW t \in Tags, NoFirst(q, t)
  PROVE  AtMostOneFirst(Append(q, r), t)
BY DEF NoFirst, AtMostOneFirst

(* Reading a frame adds no first message, and reading the only one leaves  *)
(* none.                                                                   *)
LEMMA TailFirst ==
  ASSUME NEW q \in Seq(Route), q # <<>>, NEW t \in Tags
  PROVE  /\ NoFirst(q, t) => NoFirst(Tail(q), t)
         /\ AtMostOneFirst(q, t) => AtMostOneFirst(Tail(q), t)
         /\ AtMostOneFirst(q, t) /\ IsFirst(Head(q), t) => NoFirst(Tail(q), t)
<1>1. /\ Len(Tail(q)) = Len(q) - 1
      /\ Len(q) \in Nat \ {0}
      /\ \A i \in 1 .. Len(Tail(q)) : Tail(q)[i] = q[i + 1]
      /\ Head(q) = q[1]
  OBVIOUS
<1>2. \A i \in 1 .. Len(Tail(q)) : i + 1 \in 1 .. Len(q)
  BY <1>1
<1>3. NoFirst(q, t) => NoFirst(Tail(q), t)
  BY <1>1, <1>2 DEF NoFirst
<1>4. AtMostOneFirst(q, t) => AtMostOneFirst(Tail(q), t)
  BY <1>1, <1>2 DEF AtMostOneFirst
<1>5. AtMostOneFirst(q, t) /\ IsFirst(Head(q), t) => NoFirst(Tail(q), t)
  <2> SUFFICES ASSUME AtMostOneFirst(q, t), IsFirst(q[1], t),
                      NEW i \in 1 .. Len(Tail(q)), IsFirst(Tail(q)[i], t)
               PROVE  FALSE
    BY <1>1 DEF NoFirst
  <2>1. i + 1 \in 1 .. Len(q) /\ 1 \in 1 .. Len(q) /\ IsFirst(q[i + 1], t)
    BY <1>1, <1>2
  <2>2. i + 1 = 1
    BY <2>1 DEF AtMostOneFirst
  <2> QED BY <2>2
<1> QED BY <1>3, <1>4, <1>5

(* OpenInv does not mind frames other than first messages. *)
LEMMA SendOther ==
  ASSUME TypeOK, OpenInv, NEW c \in Clients, NEW r \in Route, \A t \in Tags : ~IsFirst(r, t),
         c2s' = c2s \/ c2s' = [c2s EXCEPT ![c] = Append(@, r)],
         UNCHANGED <<cSeq, opened>>
  PROVE  OpenInv'
<1> SUFFICES ASSUME NEW d \in Clients, NEW t \in Tags PROVE OpenInvAt(d, t)'
  BY DEF OpenInv
<1>0. OpenInvAt(d, t)
  BY DEF OpenInv
<1>1. CASE c2s'[d] = c2s[d]
  BY <1>0, <1>1 DEF OpenInvAt
<1>2. CASE c2s'[d] = Append(c2s[d], r)
  <2>1. c2s[d] \in Seq(Route)
    BY DEF TypeOK, PipeTypeOK
  <2>2. /\ NoFirst(c2s[d], t) => NoFirst(c2s'[d], t)
        /\ AtMostOneFirst(c2s[d], t) => AtMostOneFirst(c2s'[d], t)
    BY <1>2, <2>1, AppendOther
  <2> QED BY <1>0, <2>2 DEF OpenInvAt
<1> QED BY <1>1, <1>2 DEF TypeOK, PipeTypeOK

(* Neither end of a channel nor a handshake is a first message. *)
LEMMA OtherRoutes ==
  /\ \A t \in Tags : ~IsFirst(RouteConnect, t)
  /\ \A t, u \in Tags, e \in AppCodes : ~IsFirst(RouteChannelEnd(u, e), t)
BY DEF IsFirst, RouteConnect, RouteChannelEnd

(* A step of a client keeps OpenInv. *)
LEMMA ClientStepOpen ==
  ASSUME TypeOK, OpenInv, NEW c \in Clients, ClientStep(c), UNCHANGED serverVars
  PROVE  OpenInv'
<1>0. opened' = opened
  BY DEF serverVars
<1>1. ASSUME UNCHANGED <<c2s, cSeq>> PROVE OpenInv'
  BY <1>0, <1>1 DEF OpenInv, OpenInvAt
<1>2. CASE ClientStart(c)
  BY <1>1, <1>2 DEF ClientStart, clientVars
<1>3. CASE ClientHandleConnect(c)
  <2>1. c2s' = c2s \/ c2s' = [c2s EXCEPT ![c] = Append(@, RouteConnect)]
    BY <1>3 DEF ClientHandleConnect, SendRouteConnect, ClientPipeSend
  <2>2. UNCHANGED <<cSeq, opened>>
    BY <1>0, <1>3 DEF ClientHandleConnect, SendRouteConnect, clientVars
  <2> QED BY <2>1, <2>2, RoutesAreRoutes, OtherRoutes, SendOther
<1>4. CASE ClientMakeGateway(c)
  BY <1>1, <1>4 DEF ClientMakeGateway, pipeVars
<1>5. ASSUME NEW u \in Tags, ClientSubscribe(c, u) PROVE OpenInv'
  BY <1>1, <1>5 DEF ClientSubscribe, pipeVars
<1>6. ASSUME NEW u \in Tags, ClientSend(c, u) PROVE OpenInv'
  <2> DEFINE r == RouteChannelMsg(u, cSeq[c][u])
  <2>1. r \in Route
    BY RoutesAreRoutes, IpcAssumption DEF TypeOK, ClientTypeOK
  <2>2. c2s' = c2s \/ c2s' = [c2s EXCEPT ![c] = Append(@, r)]
    BY <1>6 DEF ClientSend, ClientPipeSend
  <2>3. cSeq' = [cSeq EXCEPT ![c][u] = cSeq[c][u] + 1]
    BY <1>6 DEF ClientSend, NextSeq
  <2>4. \A t \in Tags : IsFirst(r, t) => t = u /\ cSeq[c][u] = 0
    BY DEF IsFirst, RouteChannelMsg
  <2> HIDE DEF r
  <2> SUFFICES ASSUME NEW d \in Clients, NEW t \in Tags PROVE OpenInvAt(d, t)'
    BY DEF OpenInv
  <2>5. OpenInvAt(d, t) /\ c2s[d] \in Seq(Route) /\ cSeq[d][t] \in Nat /\ opened[d][t] \in Nat
    BY IpcAssumption DEF OpenInv, TypeOK, PipeTypeOK, ClientTypeOK, ServerTypeOK
  <2>6. cSeq'[d][t] = cSeq[d][t] \/ (d = c /\ t = u /\ cSeq'[d][t] = cSeq[d][t] + 1)
    BY <2>3 DEF TypeOK, ClientTypeOK
  <2>7. CASE c2s'[d] = c2s[d]
    BY <1>0, <2>5, <2>6, <2>7 DEF OpenInvAt
  <2>8. CASE d = c /\ c2s'[d] = Append(c2s[d], r)
    <3>1. CASE IsFirst(r, t)
      <4>1. NoFirst(c2s[d], t)
        BY <2>4, <2>5, <2>8, <3>1 DEF OpenInvAt
      <4>2. AtMostOneFirst(c2s'[d], t)
        BY <2>1, <2>5, <2>8, <4>1, AppendFirst
      <4>3. t = u /\ cSeq[d][t] = 0 /\ cSeq'[d][t] = cSeq[d][t] + 1
        BY <2>3, <2>4, <2>8, <3>1 DEF TypeOK, ClientTypeOK
      <4> QED BY <1>0, <2>5, <4>2, <4>3 DEF OpenInvAt
    <3>2. CASE ~IsFirst(r, t)
      <4>1. /\ NoFirst(c2s[d], t) => NoFirst(c2s'[d], t)
            /\ AtMostOneFirst(c2s[d], t) => AtMostOneFirst(c2s'[d], t)
        BY <2>1, <2>5, <2>8, <3>2, AppendOther
      <4> QED BY <1>0, <2>5, <2>6, <4>1 DEF OpenInvAt
    <3> QED BY <3>1, <3>2
  <2> QED BY <2>2, <2>7, <2>8 DEF TypeOK, PipeTypeOK
<1>7. ASSUME NEW u \in Tags, NEW e \in AppCodes, DisposeGateway(c, u, e), cSeq' = cSeq
      PROVE  OpenInv'
  <2>1. c2s' = c2s \/ c2s' = [c2s EXCEPT ![c] = Append(@, RouteChannelEnd(u, e))]
    BY <1>7 DEF DisposeGateway, ClientPipeSend
  <2>2. \A t \in Tags : ~IsFirst(RouteChannelEnd(u, e), t)
    BY OtherRoutes
  <2>3. RouteChannelEnd(u, e) \in Route
    BY RoutesAreRoutes
  <2> QED BY <1>0, <1>7, <2>1, <2>2, <2>3, SendOther
<1>8. ASSUME NEW u \in Tags, NEW e \in AppCodes,
             ClientDispose(c, u, e) \/ ClientReleaseOrphan(c, u, e)
      PROVE  OpenInv'
  BY <1>7, <1>8 DEF ClientDispose, ClientReleaseOrphan
<1>9. ASSUME NEW u \in Tags, ClientDisposeHeld(c, u) \/ ClientNotify(c, u) PROVE OpenInv'
  BY <1>1, <1>9 DEF ClientDisposeHeld, ClientNotify, pipeVars
<1>10. CASE ClientReceive(c)
  BY <1>1, <1>10 DEF ClientReceive
<1>11. CASE ClientLosesPipe(c)
  BY <1>1, <1>11 DEF ClientLosesPipe
<1>12. CASE ClientLoopEnd(c)
  BY <1>1, <1>12 DEF ClientLoopEnd, pipeVars
<1> QED
  BY <1>2, <1>3, <1>4, <1>5, <1>6, <1>8, <1>9, <1>10, <1>11, <1>12
  DEF ClientStep, ClientApp, ClientExecutor

(* A step of the daemon keeps OpenInv. *)
LEMMA ServerStepOpen ==
  ASSUME TypeOK, OpenInv, NEW c \in Clients, ServerStep(c), UNCHANGED clientVars
  PROVE  OpenInv'
<1>0. cSeq' = cSeq
  BY DEF clientVars
<1>1. ASSUME UNCHANGED <<c2s, opened>> PROVE OpenInv'
  BY <1>0, <1>1 DEF OpenInv, OpenInvAt
<1>2. ASSUME c2s' = [c2s EXCEPT ![c] = <<>>], opened' = opened PROVE OpenInv'
  <2> SUFFICES ASSUME NEW d \in Clients, NEW t \in Tags PROVE OpenInvAt(d, t)'
    BY DEF OpenInv
  <2>1. OpenInvAt(d, t)
    BY DEF OpenInv
  <2>2. c2s'[d] = c2s[d] \/ c2s'[d] = <<>>
    BY <1>2 DEF TypeOK, PipeTypeOK
  <2> QED BY <1>0, <1>2, <2>1, <2>2 DEF OpenInvAt, NoFirst, AtMostOneFirst
<1>3. CASE ServerAccept(c)
  BY <1>1, <1>3 DEF ServerAccept, serverVars
<1>4. CASE ServerReceive(c)
  <2> DEFINE m == Head(c2s[c])
  <2>1. c2s[c] # <<>> /\ c2s[c] \in Seq(Route) /\ m \in Route /\ m.tag \in Tags
    <3>1. c2s[c] # <<>> /\ c2s[c] \in Seq(Route)
      BY <1>4 DEF ServerReceive, TypeOK, PipeTypeOK
    <3>2. m \in Route
      BY <3>1
    <3> QED BY <3>1, <3>2 DEF Route
  <2>2. ASSUME c2s' = [c2s EXCEPT ![c] = Tail(@)], opened' = opened PROVE OpenInv'
    <3> SUFFICES ASSUME NEW d \in Clients, NEW t \in Tags PROVE OpenInvAt(d, t)'
      BY DEF OpenInv
    <3>1. OpenInvAt(d, t)
      BY DEF OpenInv
    <3>2. c2s'[d] = c2s[d] \/ (d = c /\ c2s'[d] = Tail(c2s[d]))
      BY <2>2 DEF TypeOK, PipeTypeOK
    <3>3. /\ NoFirst(c2s[d], t) => NoFirst(c2s'[d], t)
          /\ AtMostOneFirst(c2s[d], t) => AtMostOneFirst(c2s'[d], t)
      BY <2>1, <3>2, TailFirst
    <3> QED BY <1>0, <2>2, <3>1, <3>3 DEF OpenInvAt
  <2> HIDE DEF m
  <2>3. CASE ServerHandleRouteConnect(c)
    <3>1. /\ opened' = opened
          /\ c2s' = [c2s EXCEPT ![c] = <<>>] \/ c2s' = [c2s EXCEPT ![c] = Tail(@)]
      BY <2>3 DEF ServerHandleRouteConnect, CloseServerContext
    <3> QED BY <1>2, <2>2, <3>1
  <2>4. CASE ServerHandleRouteChannelMsg(c, m) /\ m.kind = "msg"
    <3>1. c2s' = [c2s EXCEPT ![c] = Tail(@)]
      BY <2>4 DEF ServerHandleRouteChannelMsg
    <3>2. CASE opened' = opened
      BY <2>2, <3>1, <3>2
    <3>3. CASE OpenChannel(c, m.tag) /\ TriggersFactory(c, m)
      <4>1. opened' = [opened EXCEPT ![c][m.tag] = opened[c][m.tag] + 1]
        BY <3>3 DEF OpenChannel, FirstEvents
      <4>2. IsFirst(m, m.tag)
        BY <2>4, <3>3 DEF IsFirst, TriggersFactory
      <4> SUFFICES ASSUME NEW d \in Clients, NEW t \in Tags PROVE OpenInvAt(d, t)'
        BY DEF OpenInv
      <4>3. OpenInvAt(d, t) /\ OpenInvAt(c, m.tag)
        BY <2>1 DEF OpenInv
      <4>4. CASE d = c /\ t = m.tag
        <5>1. c2s'[d] = Tail(c2s[d])
          BY <3>1, <4>4 DEF TypeOK, PipeTypeOK
        <5>2. NoFirst(c2s'[d], t) /\ AtMostOneFirst(c2s'[d], t)
          BY <2>1, <4>2, <4>3, <4>4, <5>1, TailFirst DEF OpenInvAt, m
        <5>3. ~NoFirst(c2s[d], t)
          <6>1. 1 \in 1 .. Len(c2s[d]) /\ c2s[d][1] = m
            BY <2>1, <4>4 DEF m
          <6> QED BY <4>2, <4>4, <6>1 DEF NoFirst
        <5>4. opened[d][t] = 0 /\ cSeq[d][t] > 0
          BY <4>3, <5>3 DEF OpenInvAt
        <5>5. opened'[d][t] = 1
          BY <2>1, <4>1, <4>4, <5>4 DEF TypeOK, ServerTypeOK
        <5>6. cSeq[d][t] # 0
          BY <5>4, IpcAssumption DEF TypeOK, ClientTypeOK
        <5> QED BY <1>0, <5>2, <5>5, <5>6 DEF OpenInvAt
      <4>5. CASE ~(d = c /\ t = m.tag)
        <5>1. opened'[d][t] = opened[d][t]
          BY <4>1, <4>5 DEF TypeOK, ServerTypeOK
        <5>2. c2s'[d] = c2s[d] \/ (d = c /\ c2s'[d] = Tail(c2s[d]))
          BY <3>1 DEF TypeOK, PipeTypeOK
        <5>3. /\ NoFirst(c2s[d], t) => NoFirst(c2s'[d], t)
              /\ AtMostOneFirst(c2s[d], t) => AtMostOneFirst(c2s'[d], t)
          BY <2>1, <5>2, TailFirst
        <5> QED BY <1>0, <4>3, <5>1, <5>3 DEF OpenInvAt
      <4> QED BY <4>4, <4>5
    <3> QED BY <2>4, <3>2, <3>3 DEF ServerHandleRouteChannelMsg, DropUndecodable
  <2>5. CASE ServerHandleRouteChannelEnd(c, m)
    BY <2>2, <2>5 DEF ServerHandleRouteChannelEnd
  <2> QED BY <1>4, <2>3, <2>4, <2>5 DEF ServerReceive, m
<1>5. CASE ServerLosesPipe(c)
  BY <1>2, <1>5 DEF ServerLosesPipe, CloseServerContext
<1>6. ASSUME NEW t \in Tags, ServerSend(c, t) PROVE OpenInv'
  BY <1>1, <1>6 DEF ServerSend
<1>7. ASSUME NEW t \in Tags, NEW e \in AppCodes, ServerDispose(c, t, e) PROVE OpenInv'
  BY <1>1, <1>7 DEF ServerDispose
<1> QED
  BY <1>3, <1>4, <1>5, <1>6, <1>7 DEF ServerStep, ServerApp, ServerExecutor

(* OpenInv holds in every reachable state. *)
LEMMA OpenInvariant == Spec => []OpenInv
<1>1. Init => OpenInv
  BY DEF Init, PipeInit, ClientInit, ServerInit, OpenInv, OpenInvAt, NoFirst, AtMostOneFirst
<1>2. TypeOK /\ OpenInv /\ [Next]_vars => OpenInv'
  <2>1. ASSUME UNCHANGED <<c2s, cSeq, opened>>, OpenInv PROVE OpenInv'
    BY <2>1 DEF OpenInv, OpenInvAt
  <2>2. ASSUME NEW c \in Clients, ClientDies(c), UNCHANGED <<clientVars, serverVars>>
        PROVE  UNCHANGED <<c2s, cSeq, opened>>
    BY <2>2 DEF ClientDies, clientVars, serverVars
  <2>3. ASSUME ServerDies, UNCHANGED <<clientVars, serverVars>>
        PROVE  UNCHANGED <<c2s, cSeq, opened>>
    BY <2>3 DEF ServerDies, clientVars, serverVars
  <2>4. ASSUME UNCHANGED vars PROVE UNCHANGED <<c2s, cSeq, opened>>
    BY <2>4 DEF vars, pipeVars, clientVars, serverVars
  <2> QED BY <2>1, <2>2, <2>3, <2>4, ClientStepOpen, ServerStepOpen DEF Next
<1> QED BY <1>1, <1>2, TypeCorrect, PTL DEF Spec

(* A service is given at most one channel for each channel a client makes  *)
(* (handleRouteChannelMsg): for any number of clients, channels and        *)
(* messages, and whatever fails, dies or is sent after either side ended.  *)
THEOREM ChannelsOpenOnce == Spec => []ChannelOpenedOncePerTag
<1>1. OpenInv => ChannelOpenedOncePerTag
  BY DEF OpenInv, OpenInvAt, ChannelOpenedOncePerTag
<1> QED BY <1>1, OpenInvariant, PTL

-----------------------------------------------------------------------------
(***************************************************************************)
(* The way of a request from a client to its service.                      *)
(***************************************************************************)

(* What reading a frame leaves of a queue. *)
LEMMA TailIsRest ==
  ASSUME NEW q \in Seq(Route), q # <<>>
  PROVE  /\ Tail(q) \in Seq(Route)
         /\ Head(q) = q[1] /\ q[1] \in Route
         /\ Len(q) \in Nat /\ Len(q) > 0
         /\ Len(Tail(q)) = Len(q) - 1
         /\ \A i \in 1 .. Len(Tail(q)) : i + 1 \in 1 .. Len(q) /\ Tail(q)[i] = q[i + 1]
<1>1. Tail(q) \in Seq(Route) /\ Len(Tail(q)) = Len(q) - 1 /\ Len(q) \in Nat /\ Len(q) > 0
  OBVIOUS
<1>2. \A i \in 1 .. Len(Tail(q)) : Tail(q)[i] = q[i + 1]
  OBVIOUS
<1>3. \A i \in 1 .. Len(Tail(q)) : i + 1 \in 1 .. Len(q)
  BY <1>1
<1>4. Head(q) = q[1] /\ q[1] \in Route
  BY <1>1
<1> QED BY <1>1, <1>2, <1>3, <1>4

(* What writing a frame, or an event, adds to a sequence. *)
LEMMA AppendIsMore ==
  ASSUME NEW S, NEW q \in Seq(S), NEW r \in S
  PROVE  /\ Append(q, r) \in Seq(S)
         /\ Len(q) \in Nat
         /\ Len(Append(q, r)) = Len(q) + 1
         /\ \A i \in 1 .. Len(q) : i \in 1 .. Len(Append(q, r)) /\ Append(q, r)[i] = q[i]
         /\ Append(q, r)[Len(q) + 1] = r
         /\ \A i \in 1 .. Len(Append(q, r)) : i \in 1 .. Len(q) \/ i = Len(q) + 1
<1>1. Len(q) \in Nat /\ Len(Append(q, r)) = Len(q) + 1 /\ Append(q, r) \in Seq(S)
  OBVIOUS
<1>2. \A i \in 1 .. Len(q) : i \in 1 .. Len(Append(q, r)) /\ Append(q, r)[i] = q[i]
  BY <1>1
<1>3. Append(q, r)[Len(q) + 1] = r
  BY <1>1
<1>4. \A i \in 1 .. Len(Append(q, r)) : i \in 1 .. Len(q) \/ i = Len(q) + 1
  BY <1>1
<1> QED BY <1>1, <1>2, <1>3, <1>4

-----------------------------------------------------------------------------
(* Why a request finds its client: a client that was connected, or is      *)
(* about to be, is known to the daemon as long as their connection stands, *)
(* and only a connected client writes channel frames.                      *)
Carries(q, k) == \E i \in 1 .. Len(q) : q[i].kind = k

Untouched(c) == c \notin conn /\ c2s[c] = <<>> /\ s2c[c] = <<>>
MetByClient(c) ==
  c \in conn \/ Carries(s2c[c], "connect") \/ Carries(c2s[c], "msg") \/ Carries(c2s[c], "end")
HandshakeAt(c) ==
  /\ sock[c] = "idle" => Untouched(c)
  /\ ctx[c] \in {"queued", "open"} /\ MetByClient(c) => c \in known
HandshakeInv == \A c \in Clients : HandshakeAt(c)

(* A queue carries after a write what it carried and what was written. *)
LEMMA AppendCarries ==
  ASSUME NEW q \in Seq(Route), NEW r \in Route, NEW k, Carries(Append(q, r), k)
  PROVE  Carries(q, k) \/ r.kind = k
<1>1. PICK i \in 1 .. Len(Append(q, r)) : Append(q, r)[i].kind = k
  BY DEF Carries
<1>2. CASE i \in 1 .. Len(q)
  BY <1>1, <1>2, AppendIsMore DEF Carries
<1>3. CASE i = Len(q) + 1
  BY <1>1, <1>3, AppendIsMore
<1> QED BY <1>2, <1>3, AppendIsMore

(* A queue carries after a read nothing new. *)
LEMMA TailCarries ==
  ASSUME NEW q \in Seq(Route), q # <<>>, NEW k, Carries(Tail(q), k)
  PROVE  Carries(q, k)
BY TailIsRest DEF Carries

(* The kinds of the frames the routers write. *)
LEMMA RouteKinds ==
  /\ RouteConnect.kind = "connect"
  /\ \A t, n : RouteChannelMsg(t, n).kind = "msg"
  /\ \A t, e : RouteChannelEnd(t, e).kind = "end"
BY DEF RouteConnect, RouteChannelMsg, RouteChannelEnd

(* A step of a client keeps HandshakeInv. *)
LEMMA ClientStepHandshake ==
  ASSUME TypeOK, HandshakeInv, NEW c \in Clients, ClientStep(c), UNCHANGED serverVars
  PROVE  HandshakeInv'
<1> SUFFICES ASSUME NEW d \in Clients PROVE HandshakeAt(d)'
  BY DEF HandshakeInv
<1>a. HandshakeAt(d) /\ HandshakeAt(c) /\ known' = known
  BY DEF HandshakeInv, serverVars
<1>b. /\ c2s[d] \in Seq(Route) /\ s2c[d] \in Seq(Route)
      /\ c2s[c] \in Seq(Route) /\ s2c[c] \in Seq(Route)
  BY DEF TypeOK, PipeTypeOK
<1>c. ASSUME UNCHANGED <<sock, ctx, c2s, s2c, conn>> PROVE HandshakeAt(d)'
  BY <1>a, <1>c DEF HandshakeAt, Untouched, MetByClient
<1>d. ASSUME UNCHANGED <<sock, ctx, s2c, conn>>, c \in conn, NEW r \in Route,
             r.kind \in {"msg", "end"},
             c2s' = c2s \/ c2s' = [c2s EXCEPT ![c] = Append(@, r)]
      PROVE  HandshakeAt(d)'
  <2>1. CASE c2s'[d] = c2s[d]
    BY <1>a, <1>d, <2>1 DEF HandshakeAt, Untouched, MetByClient
  <2>2. CASE d = c
    BY <1>a, <1>d, <2>2 DEF HandshakeAt, Untouched, MetByClient
  <2> QED BY <1>d, <2>1, <2>2 DEF TypeOK, PipeTypeOK
<1>1. CASE ClientStart(c)
  <2>1. CASE d # c
    <3>1. UNCHANGED <<sock[d], ctx[d], c2s, s2c, conn>>
      BY <1>1, <2>1 DEF ClientStart, clientVars, TypeOK, PipeTypeOK
    <3> QED BY <1>a, <3>1 DEF HandshakeAt, Untouched, MetByClient
  <2>2. CASE d = c
    <3>1. Untouched(c)' /\ sock'[c] = "connecting"
      BY <1>1, <1>a DEF ClientStart, clientVars, HandshakeAt, Untouched, TypeOK, PipeTypeOK
    <3> QED BY <2>2, <3>1 DEF HandshakeAt, MetByClient, Untouched, Carries
  <2> QED BY <2>1, <2>2
<1>2. CASE ClientHandleConnect(c)
  <2>1. UNCHANGED <<conn, ctx>> /\ sock[c] = "connecting"
    BY <1>2 DEF ClientHandleConnect, SendRouteConnect, clientVars
  <2>2. CASE d # c
    <3>1. UNCHANGED <<sock[d], c2s[d], s2c[d]>>
      BY <1>2, <2>2
      DEF ClientHandleConnect, SendRouteConnect, ClientPipeSend, CloseClientSocket, TypeOK, PipeTypeOK
    <3> QED BY <1>a, <2>1, <3>1 DEF HandshakeAt, Untouched, MetByClient
  <2>3. CASE d = c
    <3>1. sock'[c] # "idle"
      BY <1>2 DEF ClientHandleConnect, SendRouteConnect, CloseClientSocket, TypeOK, PipeTypeOK
    <3>2. /\ c2s'[c] = c2s[c] \/ c2s'[c] = Append(c2s[c], RouteConnect)
          /\ s2c'[c] = s2c[c] \/ s2c'[c] = <<>>
      BY <1>2
      DEF ClientHandleConnect, SendRouteConnect, ClientPipeSend, CloseClientSocket, TypeOK, PipeTypeOK
    <3>3. /\ Carries(c2s'[c], "msg") => Carries(c2s[c], "msg")
          /\ Carries(c2s'[c], "end") => Carries(c2s[c], "end")
      BY <1>b, <3>2, AppendCarries, RoutesAreRoutes, RouteKinds
    <3>4. Carries(s2c'[c], "connect") => Carries(s2c[c], "connect")
      BY <3>2 DEF Carries
    <3>5. MetByClient(c)' => MetByClient(c)
      BY <2>1, <3>3, <3>4 DEF MetByClient
    <3> QED BY <1>a, <2>1, <2>3, <3>1, <3>5 DEF HandshakeAt
  <2> QED BY <2>2, <2>3
<1>3. CASE ClientMakeGateway(c)
  BY <1>c, <1>3 DEF ClientMakeGateway, pipeVars
<1>4. ASSUME NEW t \in Tags, ClientSubscribe(c, t) PROVE HandshakeAt(d)'
  BY <1>c, <1>4 DEF ClientSubscribe, pipeVars
<1>5. ASSUME NEW t \in Tags, ClientSend(c, t) PROVE HandshakeAt(d)'
  <2> DEFINE r == RouteChannelMsg(t, cSeq[c][t])
  <2>1. r \in Route /\ r.kind = "msg"
    BY RoutesAreRoutes, RouteKinds, IpcAssumption DEF TypeOK, ClientTypeOK
  <2>2. /\ UNCHANGED <<sock, ctx, s2c, conn>> /\ c \in conn
        /\ c2s' = c2s \/ c2s' = [c2s EXCEPT ![c] = Append(@, r)]
    BY <1>5 DEF ClientSend, ClientPipeSend, CanSend
  <2> HIDE DEF r
  <2> QED BY <1>d, <2>1, <2>2
<1>6. ASSUME NEW t \in Tags, NEW e \in AppCodes, DisposeGateway(c, t, e),
             UNCHANGED <<sock, ctx, s2c, conn>>
      PROVE  HandshakeAt(d)'
  <2>1. CASE SendsChEnd(c, t)
    <3> DEFINE r == RouteChannelEnd(t, e)
    <3>1. r \in Route /\ r.kind = "end"
      BY RoutesAreRoutes, RouteKinds
    <3>2. c \in conn /\ (c2s' = c2s \/ c2s' = [c2s EXCEPT ![c] = Append(@, r)])
      BY <1>6, <2>1 DEF DisposeGateway, SendsChEnd, ClientPipeSend
    <3> HIDE DEF r
    <3> QED BY <1>d, <1>6, <3>1, <3>2
  <2>2. CASE ~SendsChEnd(c, t)
    BY <1>c, <1>6, <2>2 DEF DisposeGateway
  <2> QED BY <2>1, <2>2
<1>7. ASSUME NEW t \in Tags, NEW e \in AppCodes,
             ClientDispose(c, t, e) \/ ClientReleaseOrphan(c, t, e)
      PROVE  HandshakeAt(d)'
  BY <1>6, <1>7 DEF ClientDispose, ClientReleaseOrphan
<1>8. ASSUME NEW t \in Tags, ClientDisposeHeld(c, t) \/ ClientNotify(c, t) PROVE HandshakeAt(d)'
  BY <1>c, <1>8 DEF ClientDisposeHeld, ClientNotify, pipeVars
<1>9. CASE ClientReceive(c)
  <2>1. /\ UNCHANGED <<sock, ctx, c2s>> /\ sock[c] = "open" /\ s2c[c] # <<>>
        /\ s2c' = [s2c EXCEPT ![c] = Tail(@)]
    BY <1>9 DEF ClientReceive
  <2>2. conn' = conn \/ (conn' = conn \cup {c} /\ Head(s2c[c]).kind = "connect")
    BY <1>9
    DEF ClientReceive, HandleRouteConnect, HandleRouteChannelMsg, HandleRouteChannelEnd
  <2>3. CASE d # c
    <3>1. s2c'[d] = s2c[d] /\ (d \in conn' <=> d \in conn)
      BY <2>1, <2>2, <2>3 DEF TypeOK, PipeTypeOK
    <3> QED BY <1>a, <2>1, <3>1 DEF HandshakeAt, Untouched, MetByClient
  <2>4. CASE d = c
    <3>1. s2c'[c] = Tail(s2c[c])
      BY <2>1 DEF TypeOK, PipeTypeOK
    <3>2. Carries(s2c'[c], "connect") => Carries(s2c[c], "connect")
      BY <1>b, <2>1, <3>1, TailCarries
    <3>3. Head(s2c[c]).kind = "connect" => Carries(s2c[c], "connect")
      BY <1>b, <2>1 DEF Carries
    <3>4. MetByClient(c)' => MetByClient(c)
      BY <2>1, <2>2, <3>2, <3>3 DEF MetByClient
    <3> QED BY <1>a, <2>1, <2>4, <3>4 DEF HandshakeAt
  <2> QED BY <2>3, <2>4
<1>10. CASE ClientLosesPipe(c)
  <2>1. /\ UNCHANGED <<ctx, c2s>>
        /\ sock' = [sock EXCEPT ![c] = "closed"]
        /\ s2c' = [s2c EXCEPT ![c] = <<>>]
        /\ conn' = conn \ {c} \/ conn' = conn
    BY <1>10 DEF ClientLosesPipe, CloseClientSocket
  <2>2. /\ sock'[d] = sock[d] \/ sock'[d] = "closed"
        /\ s2c'[d] = s2c[d] \/ s2c'[d] = <<>>
        /\ d \in conn' => d \in conn
    BY <2>1 DEF TypeOK, PipeTypeOK
  <2> QED BY <1>a, <2>1, <2>2 DEF HandshakeAt, Untouched, MetByClient, Carries
<1>11. CASE ClientLoopEnd(c)
  BY <1>c, <1>11 DEF ClientLoopEnd, pipeVars
<1> QED
  BY <1>1, <1>2, <1>3, <1>4, <1>5, <1>7, <1>8, <1>9, <1>10, <1>11
  DEF ClientStep, ClientApp, ClientExecutor

(* A step of the daemon keeps HandshakeInv. *)
LEMMA ServerStepHandshake ==
  ASSUME TypeOK, HandshakeInv, NEW c \in Clients, ServerStep(c), UNCHANGED clientVars
  PROVE  HandshakeInv'
<1> SUFFICES ASSUME NEW d \in Clients PROVE HandshakeAt(d)'
  BY DEF HandshakeInv
<1>a. HandshakeAt(d) /\ conn' = conn
  BY DEF HandshakeInv, clientVars
<1>b. /\ c2s[d] \in Seq(Route) /\ s2c[d] \in Seq(Route)
      /\ c2s[c] \in Seq(Route) /\ s2c[c] \in Seq(Route)
  BY DEF TypeOK, PipeTypeOK
<1>c. ASSUME UNCHANGED <<sock, c2s, s2c, known>>, ctx'[d] = "open" => ctx[d] \in {"queued", "open"},
             ctx'[d] = "queued" => ctx[d] = "queued"
      PROVE  HandshakeAt(d)'
  BY <1>a, <1>c DEF HandshakeAt, Untouched, MetByClient
(* Only a client with an open socket is written to. *)
<1>d. ASSUME NEW r \in Route, NEW o, ServerPipeSend(c, r, o), o \in SendOutcomes(ClientEnd(c))
      PROVE  /\ s2c'[d] = s2c[d] \/ (d = c /\ sock[d] # "idle" /\ s2c'[d] = Append(s2c[d], r))
             /\ o = "sent" \/ s2c' = s2c
  BY <1>d DEF ServerPipeSend, SendOutcomes, ClientEnd, TypeOK, PipeTypeOK
<1>e. ASSUME NEW r \in Route, r.kind # "connect",
             s2c'[d] = s2c[d] \/ (sock[d] # "idle" /\ s2c'[d] = Append(s2c[d], r)),
             UNCHANGED <<sock, ctx, known>>,
             c2s'[d] = c2s[d] \/ (c2s'[d] = Tail(c2s[d]) /\ c2s[d] # <<>>)
      PROVE  HandshakeAt(d)'
  <2>2. Carries(s2c'[d], "connect") => Carries(s2c[d], "connect")
    BY <1>b, <1>e, AppendCarries
  <2>3. /\ Carries(c2s'[d], "msg") => Carries(c2s[d], "msg")
        /\ Carries(c2s'[d], "end") => Carries(c2s[d], "end")
    BY <1>b, <1>e, TailCarries
  <2> QED BY <1>a, <1>e, <2>2, <2>3 DEF HandshakeAt, Untouched, MetByClient
(* A frame is read and nothing written. *)
<1>f. ASSUME UNCHANGED <<sock, ctx, s2c, known>>, c2s[c] # <<>>,
             c2s' = [c2s EXCEPT ![c] = Tail(@)]
      PROVE  HandshakeAt(d)'
  <2>1. c2s'[d] = c2s[d] \/ (c2s'[d] = Tail(c2s[d]) /\ c2s[d] # <<>>)
    BY <1>f DEF TypeOK, PipeTypeOK
  <2>2. /\ Carries(c2s'[d], "msg") => Carries(c2s[d], "msg")
        /\ Carries(c2s'[d], "end") => Carries(c2s[d], "end")
    BY <1>b, <2>1, TailCarries
  <2> QED BY <1>a, <1>f, <2>1, <2>2 DEF HandshakeAt, Untouched, MetByClient
(* The connection is closed. *)
<1>g. ASSUME sock' = sock, CloseServerContext(c), known' = known \ {c}, s2c' = s2c
      PROVE  HandshakeAt(d)'
  <2>1. CASE d = c
    BY <1>a, <1>g, <2>1 DEF CloseServerContext, HandshakeAt, Untouched, TypeOK, PipeTypeOK
  <2>2. CASE d # c
    BY <1>a, <1>g, <2>2
    DEF CloseServerContext, HandshakeAt, Untouched, MetByClient, TypeOK, PipeTypeOK
  <2> QED BY <2>1, <2>2
<1>1. CASE ServerAccept(c)
  BY <1>c, <1>1 DEF ServerAccept, serverVars, TypeOK, PipeTypeOK
<1>2. CASE ServerReceive(c)
  <2> DEFINE m == Head(c2s[c])
  <2>1. c2s[c] # <<>> /\ m \in Route /\ sock' = sock
    BY <1>2, <1>b DEF ServerReceive
  <2>2. m.tag \in Tags
    BY <2>1 DEF Route
  <2> HIDE DEF m
  <2>3. CASE ServerHandleRouteConnect(c)
    <3>1. PICK o \in SendOutcomes(ClientEnd(c)) :
            /\ ServerPipeSend(c, RouteConnect, o)
            /\ IF o = "failed"
                 THEN CloseServerContext(c) /\ Forget(c)
                 ELSE /\ known' = IF HandlesConnect(o) THEN known \cup {c} ELSE known
                      /\ c2s' = [c2s EXCEPT ![c] = Tail(@)]
                      /\ UNCHANGED <<ctx, sReg, sEvents>>
      BY <2>3 DEF ServerHandleRouteConnect
    <3>2. CASE o = "failed"
      BY <1>d, <1>g, <2>1, <3>1, <3>2, RoutesAreRoutes DEF Forget
    <3>3. CASE o = "killed"
      <4>1. known' = known /\ ctx' = ctx /\ c2s' = [c2s EXCEPT ![c] = Tail(@)] /\ s2c' = s2c
        BY <1>d, <3>1, <3>3, RoutesAreRoutes DEF HandlesConnect
      <4> QED BY <1>f, <2>1, <4>1
    <3>4. CASE o \in {"sent", "lost"}
      <4>1. known' = known \cup {c} /\ ctx' = ctx /\ c2s' = [c2s EXCEPT ![c] = Tail(@)]
        BY <3>1, <3>4 DEF HandlesConnect
      <4>2. CASE d # c
        <5>1. UNCHANGED <<c2s[d], s2c[d]>> /\ (d \in known => d \in known')
          BY <1>d, <3>1, <4>1, <4>2, RoutesAreRoutes DEF TypeOK, PipeTypeOK
        <5> QED BY <1>a, <2>1, <4>1, <5>1 DEF HandshakeAt, Untouched, MetByClient
      <4>3. CASE d = c
        <5>1. sock[c] # "idle"
          BY <1>a, <2>1, <4>3 DEF HandshakeAt, Untouched
        <5> QED BY <2>1, <4>1, <4>3, <5>1 DEF HandshakeAt
      <4> QED BY <4>2, <4>3
    <3> QED BY <3>2, <3>3, <3>4 DEF SendOutcomes
  <2>4. CASE ServerHandleRouteChannelMsg(c, m)
    <3>1. UNCHANGED <<ctx, known>> /\ c2s' = [c2s EXCEPT ![c] = Tail(@)]
      BY <2>4 DEF ServerHandleRouteChannelMsg
    <3>2. CASE s2c' = s2c
      BY <1>f, <2>1, <3>1, <3>2
    <3>3. CASE DropUndecodable(c, m.tag)
      <4> DEFINE r == RouteChannelEnd(m.tag, "Success")
      <4>1. r \in Route /\ r.kind # "connect"
        BY <2>2, RoutesAreRoutes, RouteKinds DEF AppCodes
      <4>2. s2c'[d] = s2c[d] \/ (sock[d] # "idle" /\ s2c'[d] = Append(s2c[d], r))
        BY <1>d, <3>3, <4>1 DEF DropUndecodable
      <4>3. c2s'[d] = c2s[d] \/ (c2s'[d] = Tail(c2s[d]) /\ c2s[d] # <<>>)
        BY <2>1, <3>1 DEF TypeOK, PipeTypeOK
      <4> HIDE DEF r
      <4> QED BY <1>e, <2>1, <3>1, <4>1, <4>2, <4>3
    <3> QED BY <2>4, <3>2, <3>3 DEF ServerHandleRouteChannelMsg, OpenChannel
  <2>5. CASE ServerHandleRouteChannelEnd(c, m)
    BY <1>f, <2>1, <2>5 DEF ServerHandleRouteChannelEnd
  <2> QED BY <1>2, <2>3, <2>4, <2>5 DEF ServerReceive, m
<1>3. CASE ServerLosesPipe(c)
  BY <1>g, <1>3 DEF ServerLosesPipe, Forget
<1>4. ASSUME NEW t \in Tags, ServerSend(c, t) PROVE HandshakeAt(d)'
  <2> DEFINE r == RouteChannelMsg(t, sSeq[c][t])
  <2>1. r \in Route /\ r.kind # "connect"
    BY RoutesAreRoutes, RouteKinds, IpcAssumption DEF TypeOK, ServerTypeOK
  <2>2. /\ UNCHANGED <<sock, ctx, c2s, known>>
        /\ \E o \in SendOutcomes(ClientEnd(c)) : ServerPipeSend(c, r, o)
    BY <1>4 DEF ServerSend
  <2>3. s2c'[d] = s2c[d] \/ (sock[d] # "idle" /\ s2c'[d] = Append(s2c[d], r))
    BY <1>d, <2>1, <2>2
  <2> HIDE DEF r
  <2> QED BY <1>e, <2>1, <2>2, <2>3
<1>5. ASSUME NEW t \in Tags, NEW e \in AppCodes, ServerDispose(c, t, e) PROVE HandshakeAt(d)'
  <2> DEFINE r == RouteChannelEnd(t, e)
  <2>1. r \in Route /\ r.kind # "connect"
    BY RoutesAreRoutes, RouteKinds
  <2>2. /\ UNCHANGED <<sock, ctx, c2s, known>>
        /\ s2c' = s2c \/ \E o \in SendOutcomes(ClientEnd(c)) : ServerPipeSend(c, r, o)
    BY <1>5 DEF ServerDispose
  <2>3. s2c'[d] = s2c[d] \/ (sock[d] # "idle" /\ s2c'[d] = Append(s2c[d], r))
    BY <1>d, <2>1, <2>2
  <2> HIDE DEF r
  <2> QED BY <1>e, <2>1, <2>2, <2>3
<1> QED
  BY <1>1, <1>2, <1>3, <1>4, <1>5 DEF ServerStep, ServerApp, ServerExecutor

(* HandshakeInv holds in every reachable state. *)
LEMMA HandshakeInvariant == Spec => []HandshakeInv
<1>1. Init => HandshakeInv
  <2> SUFFICES ASSUME Init, NEW c \in Clients PROVE HandshakeAt(c)
    BY DEF HandshakeInv
  <2>1. Untouched(c)
    BY DEF Init, PipeInit, ClientInit, Untouched
  <2>2. ctx[c] = "none"
    BY DEF Init, PipeInit
  <2> QED BY <2>1, <2>2 DEF HandshakeAt
<1>2. TypeOK /\ HandshakeInv /\ [Next]_vars => HandshakeInv'
  <2>1. ASSUME UNCHANGED <<sock, ctx, c2s, s2c, conn, known>>, HandshakeInv PROVE HandshakeInv'
    BY <2>1 DEF HandshakeInv, HandshakeAt, Untouched, MetByClient
  <2>2. ASSUME NEW c \in Clients, ClientDies(c), UNCHANGED <<clientVars, serverVars>>
        PROVE  UNCHANGED <<sock, ctx, c2s, s2c, conn, known>>
    BY <2>2 DEF ClientDies, clientVars, serverVars
  <2>3. ASSUME ServerDies, UNCHANGED <<clientVars, serverVars>>
        PROVE  UNCHANGED <<sock, ctx, c2s, s2c, conn, known>>
    BY <2>3 DEF ServerDies, clientVars, serverVars
  <2>4. ASSUME UNCHANGED vars PROVE UNCHANGED <<sock, ctx, c2s, s2c, conn, known>>
    BY <2>4 DEF vars, pipeVars, clientVars, serverVars
  <2> QED BY <2>1, <2>2, <2>3, <2>4, ClientStepHandshake, ServerStepHandshake DEF Next
<1> QED BY <1>1, <1>2, TypeCorrect, PTL DEF Spec

(* The daemon knows the client of every channel frame it reads             *)
(* (findAndActOnRegisteredGateway, client_id_to_map_of_gateways_): however *)
(* the handshake, refused writes and lost connections fall together, no    *)
(* request is dropped for coming from a stranger.                          *)
THEOREM RequestsFindClients == Spec => []RequestsFindTheirClient
<1>1. TypeOK /\ HandshakeInv => RequestsFindTheirClient
  <2> SUFFICES ASSUME TypeOK, HandshakeInv, NEW c \in Clients, ServerEnd(c), c2s[c] # <<>>,
                      Head(c2s[c]).kind # "connect"
               PROVE  c \in known
    BY DEF RequestsFindTheirClient
  <2>1. /\ c2s[c] \in Seq(Route) /\ HandshakeAt(c)
    BY DEF TypeOK, PipeTypeOK, HandshakeInv
  <2>2. 1 \in 1 .. Len(c2s[c]) /\ Head(c2s[c]) = c2s[c][1] /\ c2s[c][1] \in Route
    BY <2>1, TailIsRest
  <2>3. c2s[c][1].kind \in {"msg", "end"}
    BY <2>2 DEF Route
  <2> QED BY <2>1, <2>2, <2>3 DEF HandshakeAt, MetByClient, Carries, ServerEnd
<1> QED BY <1>1, HandshakeInvariant, TypeCorrect, PTL

-----------------------------------------------------------------------------
(* The frames of one channel in a queue, and its events on the other side, *)
(* in the order of their sequence numbers.                                 *)
IsMsg(r, t) == r.kind = "msg" /\ r.tag = t

QueueIncreases(q, t) ==
  \A i, j \in 1 .. Len(q) : i < j /\ IsMsg(q[i], t) /\ IsMsg(q[j], t) => q[i].seq < q[j].seq
QueuedBelow(q, t, n) == \A i \in 1 .. Len(q) : IsMsg(q[i], t) => q[i].seq < n
QueuedAbove(q, t, n) == \A i \in 1 .. Len(q) : IsMsg(q[i], t) => n < q[i].seq
SeenBelow(s, n) == \A i \in 1 .. Len(s) : s[i].kind = "message" => s[i].seq < n
SeenBefore(s, q, t) ==
  \A i \in 1 .. Len(s) : s[i].kind = "message" => QueuedAbove(q, t, s[i].seq)

(* Reading a frame keeps the order, and a message that was read is behind  *)
(* the ones seen and before the ones left.                                 *)
LEMMA TailInOrder ==
  ASSUME NEW q \in Seq(Route), q # <<>>, NEW t \in Tags, QueueIncreases(q, t)
  PROVE  /\ QueueIncreases(Tail(q), t)
         /\ \A n : QueuedBelow(q, t, n) => QueuedBelow(Tail(q), t, n)
         /\ \A n : QueuedAbove(q, t, n) => QueuedAbove(Tail(q), t, n)
         /\ \A s : SeenBefore(s, q, t) => SeenBefore(s, Tail(q), t)
         /\ IsMsg(Head(q), t) => /\ QueuedAbove(Tail(q), t, Head(q).seq)
                                 /\ \A n : QueuedBelow(q, t, n) => Head(q).seq < n
                                 /\ \A s : SeenBefore(s, q, t) => SeenBelow(s, Head(q).seq)
<1>1. /\ Head(q) = q[1] /\ 1 \in 1 .. Len(q) /\ Len(q) \in Nat
      /\ Len(Tail(q)) \in Nat
      /\ \A i \in 1 .. Len(Tail(q)) : i + 1 \in 1 .. Len(q) /\ Tail(q)[i] = q[i + 1]
  BY TailIsRest
<1>2. QueueIncreases(Tail(q), t)
  <2> SUFFICES ASSUME NEW i \in 1 .. Len(Tail(q)), NEW j \in 1 .. Len(Tail(q)), i < j,
                      IsMsg(Tail(q)[i], t), IsMsg(Tail(q)[j], t)
               PROVE  Tail(q)[i].seq < Tail(q)[j].seq
    BY DEF QueueIncreases
  <2>1. i + 1 < j + 1 /\ i + 1 \in 1 .. Len(q) /\ j + 1 \in 1 .. Len(q)
    BY <1>1
  <2>2. Tail(q)[i] = q[i + 1] /\ Tail(q)[j] = q[j + 1]
    BY <1>1
  <2> QED BY <2>1, <2>2 DEF QueueIncreases
<1>3. \A n : QueuedBelow(q, t, n) => QueuedBelow(Tail(q), t, n)
  BY <1>1 DEF QueuedBelow
<1>4. \A n : QueuedAbove(q, t, n) => QueuedAbove(Tail(q), t, n)
  BY <1>1 DEF QueuedAbove
<1>5. \A s : SeenBefore(s, q, t) => SeenBefore(s, Tail(q), t)
  BY <1>4 DEF SeenBefore
<1>6. ASSUME IsMsg(Head(q), t)
      PROVE  /\ QueuedAbove(Tail(q), t, Head(q).seq)
             /\ \A n : QueuedBelow(q, t, n) => Head(q).seq < n
             /\ \A s : SeenBefore(s, q, t) => SeenBelow(s, Head(q).seq)
  <2>1. QueuedAbove(Tail(q), t, Head(q).seq)
    <3> SUFFICES ASSUME NEW i \in 1 .. Len(Tail(q)), IsMsg(Tail(q)[i], t)
                 PROVE  Head(q).seq < Tail(q)[i].seq
      BY DEF QueuedAbove
    <3>1. 1 < i + 1 /\ i + 1 \in 1 .. Len(q) /\ Tail(q)[i] = q[i + 1]
      BY <1>1
    <3> QED BY <1>1, <1>6, <3>1 DEF QueueIncreases
  <2>2. \A n : QueuedBelow(q, t, n) => Head(q).seq < n
    BY <1>1, <1>6 DEF QueuedBelow
  <2>3. \A s : SeenBefore(s, q, t) => SeenBelow(s, Head(q).seq)
    BY <1>1, <1>6 DEF SeenBefore, SeenBelow, QueuedAbove
  <2> QED BY <2>1, <2>2, <2>3
<1> QED BY <1>2, <1>3, <1>4, <1>5, <1>6

(* Writing a frame keeps the order, if it is no message of the channel or  *)
(* one that is behind all others.                                          *)
LEMMA AppendInOrder ==
  ASSUME NEW q \in Seq(Route), NEW r \in Route, NEW t \in Tags, QueueIncreases(q, t),
         IsMsg(r, t) => QueuedBelow(q, t, r.seq)
  PROVE  /\ QueueIncreases(Append(q, r), t)
         /\ \A n : QueuedBelow(q, t, n) /\ (IsMsg(r, t) => r.seq < n)
                     => QueuedBelow(Append(q, r), t, n)
         /\ \A n : QueuedAbove(q, t, n) /\ (IsMsg(r, t) => n < r.seq)
                     => QueuedAbove(Append(q, r), t, n)
         /\ \A s : SeenBefore(s, q, t) /\ (IsMsg(r, t) => SeenBelow(s, r.seq))
                     => SeenBefore(s, Append(q, r), t)
<1> DEFINE p == Append(q, r)
<1>1. /\ Len(q) \in Nat /\ Len(p) = Len(q) + 1
      /\ \A i \in 1 .. Len(q) : p[i] = q[i]
      /\ p[Len(q) + 1] = r
      /\ \A i \in 1 .. Len(p) : i \in 1 .. Len(q) \/ i = Len(q) + 1
  BY AppendIsMore
<1> HIDE DEF p
<1>2. QueueIncreases(p, t)
  <2> SUFFICES ASSUME NEW i \in 1 .. Len(p), NEW j \in 1 .. Len(p), i < j,
                      IsMsg(p[i], t), IsMsg(p[j], t)
               PROVE  p[i].seq < p[j].seq
    BY DEF QueueIncreases
  <2>1. i \in 1 .. Len(q)
    BY <1>1
  <2>2. CASE j \in 1 .. Len(q)
    BY <1>1, <2>1, <2>2 DEF QueueIncreases
  <2>3. CASE j = Len(q) + 1
    BY <1>1, <2>1, <2>3 DEF QueuedBelow
  <2> QED BY <1>1, <2>2, <2>3
<1>3. \A n : QueuedBelow(q, t, n) /\ (IsMsg(r, t) => r.seq < n) => QueuedBelow(p, t, n)
  BY <1>1 DEF QueuedBelow
<1>4. \A n : QueuedAbove(q, t, n) /\ (IsMsg(r, t) => n < r.seq) => QueuedAbove(p, t, n)
  BY <1>1 DEF QueuedAbove
<1>5. \A s : SeenBefore(s, q, t) /\ (IsMsg(r, t) => SeenBelow(s, r.seq)) => SeenBefore(s, p, t)
  BY <1>4 DEF SeenBefore, SeenBelow
<1> QED BY <1>2, <1>3, <1>4, <1>5 DEF p

(* One more event keeps the messages in order, if it is none or one behind *)
(* all others.                                                             *)
LEMMA EventInOrder ==
  ASSUME NEW s \in Seq(Event), NEW e \in Event, MessagesIncrease(s),
         e.kind = "message" => SeenBelow(s, e.seq)
  PROVE  /\ MessagesIncrease(Append(s, e))
         /\ \A n : SeenBelow(s, n) /\ (e.kind = "message" => e.seq < n) => SeenBelow(Append(s, e), n)
         /\ \A q, t : SeenBefore(s, q, t) /\ (e.kind = "message" => QueuedAbove(q, t, e.seq))
                        => SeenBefore(Append(s, e), q, t)
<1> DEFINE p == Append(s, e)
<1>1. /\ Len(s) \in Nat /\ Len(p) = Len(s) + 1
      /\ \A i \in 1 .. Len(s) : p[i] = s[i]
      /\ p[Len(s) + 1] = e
      /\ \A i \in 1 .. Len(p) : i \in 1 .. Len(s) \/ i = Len(s) + 1
  BY AppendIsMore
<1> HIDE DEF p
<1>2. MessagesIncrease(p)
  <2> SUFFICES ASSUME NEW i \in 1 .. Len(p), NEW j \in 1 .. Len(p), i < j,
                      p[i].kind = "message", p[j].kind = "message"
               PROVE  p[i].seq < p[j].seq
    BY DEF MessagesIncrease
  <2>1. i \in 1 .. Len(s)
    BY <1>1
  <2>2. CASE j \in 1 .. Len(s)
    BY <1>1, <2>1, <2>2 DEF MessagesIncrease
  <2>3. CASE j = Len(s) + 1
    BY <1>1, <2>1, <2>3 DEF SeenBelow
  <2> QED BY <1>1, <2>2, <2>3
<1>3. \A n : SeenBelow(s, n) /\ (e.kind = "message" => e.seq < n) => SeenBelow(p, n)
  BY <1>1 DEF SeenBelow
<1>4. \A q, t : SeenBefore(s, q, t) /\ (e.kind = "message" => QueuedAbove(q, t, e.seq))
                  => SeenBefore(p, q, t)
  BY <1>1 DEF SeenBefore
<1> QED BY <1>2, <1>3, <1>4 DEF p

Completes(s) == \E i \in 1 .. Len(s) : s[i].kind = "completed"

(* An event after those of a channel that has not ended: nothing is behind *)
(* a Completed.                                                            *)
LEMMA EventAfterNoEnd ==
  ASSUME NEW s \in Seq(Event), NEW e \in Event, ~Completes(s)
  PROVE  /\ IsFinal(Append(s, e))
         /\ Completes(Append(s, e)) <=> e.kind = "completed"
<1>1. /\ Len(s) \in Nat /\ Len(Append(s, e)) = Len(s) + 1
      /\ \A i \in 1 .. Len(s) : Append(s, e)[i] = s[i]
      /\ Append(s, e)[Len(s) + 1] = e
      /\ \A i \in 1 .. Len(Append(s, e)) : i \in 1 .. Len(s) \/ i = Len(s) + 1
  BY AppendIsMore
<1>2. Len(s) + 1 \in 1 .. Len(Append(s, e))
  BY <1>1
<1> QED BY <1>1, <1>2 DEF IsFinal, Completes

-----------------------------------------------------------------------------
(* Why a service sees the requests of a channel in order and from the very *)
(* first: what it has seen is before what is queued, and that before what  *)
(* the client will write; and a channel is open only since its first       *)
(* message. An end is final because the channel is then not registered.    *)
FromFirst(s) ==
  \A j \in 1 .. Len(s) : s[j].kind = "message" => \E i \in 1 .. j : s[i] = Message(0)
HasFirst(s) == \E i \in 1 .. Len(s) : s[i] = Message(0)

WayInOrder(c, t) ==
  /\ QueueIncreases(c2s[c], t)
  /\ QueuedBelow(c2s[c], t, cSeq[c][t])
  /\ SeenBefore(sEvents[c][t], c2s[c], t)
  /\ SeenBelow(sEvents[c][t], cSeq[c][t])
ServiceInOrder(c, t) ==
  /\ MessagesIncrease(sEvents[c][t])
  /\ FromFirst(sEvents[c][t])
  /\ t \in sReg[c] => HasFirst(sEvents[c][t])
  /\ opened[c][t] = 0 => sEvents[c][t] = <<>> /\ t \notin sReg[c]
ServiceEnds(c, t) ==
  /\ IsFinal(sEvents[c][t])
  /\ t \in sReg[c] => ~Completes(sEvents[c][t])
RequestInvAt(c, t) == WayInOrder(c, t) /\ ServiceInOrder(c, t) /\ ServiceEnds(c, t)
RequestInv == \A c \in Clients, t \in Tags : RequestInvAt(c, t)

(* What a step can do to the requests of channel t of client c. *)
SameService(c, t) ==
  /\ sEvents'[c][t] = sEvents[c][t]
  /\ opened'[c][t] = opened[c][t]
  /\ t \in sReg'[c] => t \in sReg[c]
Popped(c) == c2s[c] # <<>> /\ c2s'[c] = Tail(c2s[c])
Pushed(c, t, r) == r \in Route /\ ~IsMsg(r, t) /\ c2s'[c] = Append(c2s[c], r)

NoRequestStep(c, t) ==
  /\ SameService(c, t)
  /\ cSeq'[c][t] = cSeq[c][t]
  /\ c2s'[c] = c2s[c] \/ c2s'[c] = <<>> \/ Popped(c) \/ \E r \in Route : Pushed(c, t, r)
RequestSent(c, t) ==
  /\ SameService(c, t)
  /\ cSeq'[c][t] = cSeq[c][t] + 1
  /\ c2s'[c] = c2s[c] \/ c2s'[c] = Append(c2s[c], RouteChannelMsg(t, cSeq[c][t]))
RequestEnded(c, t) ==
  /\ t \in sReg[c] /\ t \notin sReg'[c]
  /\ \E e \in ErrorCodes : sEvents'[c][t] = Append(sEvents[c][t], Completed(e))
  /\ opened'[c][t] = opened[c][t] /\ cSeq'[c][t] = cSeq[c][t]
  /\ c2s'[c] = <<>> \/ Popped(c)
RequestDelivered(c, t) ==
  /\ Popped(c) /\ IsMsg(Head(c2s[c]), t)
  /\ t \in sReg[c]
  /\ sEvents'[c][t] = Append(sEvents[c][t], Message(Head(c2s[c]).seq))
  /\ opened'[c][t] = opened[c][t] /\ cSeq'[c][t] = cSeq[c][t]
RequestOpens(c, t) ==
  /\ Popped(c) /\ IsFirst(Head(c2s[c]), t)
  /\ sEvents'[c][t] = sEvents[c][t] \o FirstEvents
  /\ opened'[c][t] = opened[c][t] + 1 /\ cSeq'[c][t] = cSeq[c][t]
RequestStep(c, t) ==
  \/ NoRequestStep(c, t) \/ RequestSent(c, t) \/ RequestEnded(c, t)
  \/ RequestDelivered(c, t) \/ RequestOpens(c, t)

(* A step of a client does one of these. *)
LEMMA ClientRequestStep ==
  ASSUME TypeOK, NEW c \in Clients, ClientStep(c), UNCHANGED serverVars,
         NEW d \in Clients, NEW t \in Tags
  PROVE  RequestStep(d, t)
<1>a. SameService(d, t)
  BY DEF SameService, serverVars
<1>b. ASSUME UNCHANGED <<c2s, cSeq>> PROVE RequestStep(d, t)
  BY <1>a, <1>b DEF RequestStep, NoRequestStep
<1>c. ASSUME NEW r \in Route, r.kind # "msg", cSeq' = cSeq,
             c2s' = c2s \/ c2s' = [c2s EXCEPT ![c] = Append(@, r)]
      PROVE  RequestStep(d, t)
  <2>1. c2s'[d] = c2s[d] \/ Pushed(d, t, r)
    BY <1>c DEF Pushed, IsMsg, TypeOK, PipeTypeOK
  <2> QED BY <1>a, <1>c, <2>1 DEF RequestStep, NoRequestStep
<1>1. CASE ClientStart(c)
  BY <1>b, <1>1 DEF ClientStart, clientVars
<1>2. CASE ClientHandleConnect(c)
  <2>1. /\ c2s' = c2s \/ c2s' = [c2s EXCEPT ![c] = Append(@, RouteConnect)]
        /\ cSeq' = cSeq
    BY <1>2 DEF ClientHandleConnect, SendRouteConnect, ClientPipeSend, clientVars
  <2> QED BY <1>c, <2>1, RoutesAreRoutes, RouteKinds
<1>3. CASE ClientMakeGateway(c)
  BY <1>b, <1>3 DEF ClientMakeGateway, pipeVars
<1>4. ASSUME NEW u \in Tags, ClientSubscribe(c, u) PROVE RequestStep(d, t)
  BY <1>b, <1>4 DEF ClientSubscribe, pipeVars
<1>5. ASSUME NEW u \in Tags, ClientSend(c, u) PROVE RequestStep(d, t)
  <2> DEFINE r == RouteChannelMsg(u, cSeq[c][u])
  <2>1. r \in Route
    BY RoutesAreRoutes, IpcAssumption DEF TypeOK, ClientTypeOK
  <2>2. c2s' = c2s \/ c2s' = [c2s EXCEPT ![c] = Append(@, r)]
    BY <1>5 DEF ClientSend, ClientPipeSend
  <2>3. cSeq' = [cSeq EXCEPT ![c][u] = cSeq[c][u] + 1]
    BY <1>5 DEF ClientSend, NextSeq
  <2>4. CASE d = c /\ t = u
    BY <1>a, <2>2, <2>3, <2>4
    DEF RequestStep, RequestSent, TypeOK, PipeTypeOK, ClientTypeOK
  <2>5. CASE ~(d = c /\ t = u)
    <3>1. cSeq'[d][t] = cSeq[d][t]
      BY <2>3, <2>5 DEF TypeOK, ClientTypeOK
    <3>2. c2s'[d] = c2s[d] \/ (d = c /\ c2s'[d] = Append(c2s[d], r))
      BY <2>2 DEF TypeOK, PipeTypeOK
    <3>3. t # u => ~IsMsg(r, t)
      BY DEF IsMsg, RouteChannelMsg
    <3>4. c2s'[d] = c2s[d] \/ Pushed(d, t, r)
      BY <2>1, <2>5, <3>2, <3>3 DEF Pushed
    <3> QED BY <1>a, <2>1, <3>1, <3>4 DEF RequestStep, NoRequestStep
  <2> QED BY <2>4, <2>5
<1>6. ASSUME NEW u \in Tags, NEW e \in AppCodes, DisposeGateway(c, u, e), cSeq' = cSeq
      PROVE  RequestStep(d, t)
  <2>1. c2s' = c2s \/ c2s' = [c2s EXCEPT ![c] = Append(@, RouteChannelEnd(u, e))]
    BY <1>6 DEF DisposeGateway, ClientPipeSend
  <2>2. RouteChannelEnd(u, e) \in Route /\ RouteChannelEnd(u, e).kind # "msg"
    BY RoutesAreRoutes, RouteKinds
  <2> QED BY <1>c, <1>6, <2>1, <2>2
<1>7. ASSUME NEW u \in Tags, NEW e \in AppCodes,
             ClientDispose(c, u, e) \/ ClientReleaseOrphan(c, u, e)
      PROVE  RequestStep(d, t)
  BY <1>6, <1>7 DEF ClientDispose, ClientReleaseOrphan
<1>8. ASSUME NEW u \in Tags, ClientDisposeHeld(c, u) \/ ClientNotify(c, u)
      PROVE  RequestStep(d, t)
  BY <1>b, <1>8 DEF ClientDisposeHeld, ClientNotify, pipeVars
<1>9. CASE ClientReceive(c)
  BY <1>b, <1>9 DEF ClientReceive
<1>10. CASE ClientLosesPipe(c)
  BY <1>b, <1>10 DEF ClientLosesPipe
<1>11. CASE ClientLoopEnd(c)
  BY <1>b, <1>11 DEF ClientLoopEnd, pipeVars
<1> QED
  BY <1>1, <1>2, <1>3, <1>4, <1>5, <1>7, <1>8, <1>9, <1>10, <1>11
  DEF ClientStep, ClientApp, ClientExecutor

(* A step of the daemon does one of these. *)
LEMMA ServerRequestStep ==
  ASSUME TypeOK, NEW c \in Clients, ServerStep(c), UNCHANGED clientVars,
         NEW d \in Clients, NEW t \in Tags
  PROVE  RequestStep(d, t)
<1>a. cSeq' = cSeq
  BY DEF clientVars
<1>b. ASSUME SameService(d, t), c2s' = c2s PROVE RequestStep(d, t)
  BY <1>a, <1>b DEF RequestStep, NoRequestStep
<1>c. ASSUME SameService(d, t), c2s[c] # <<>>, c2s' = [c2s EXCEPT ![c] = Tail(@)]
      PROVE  RequestStep(d, t)
  <2>1. c2s'[d] = c2s[d] \/ Popped(d)
    BY <1>c DEF Popped, TypeOK, PipeTypeOK
  <2> QED BY <1>a, <1>c, <2>1 DEF RequestStep, NoRequestStep
<1>d. ASSUME CloseServerContext(c), Forget(c), opened' = opened PROVE RequestStep(d, t)
  <2>1. c2s'[d] = IF d = c THEN <<>> ELSE c2s[d]
    BY <1>d DEF CloseServerContext, TypeOK, PipeTypeOK
  <2>2. sReg'[d] = IF d = c THEN {} ELSE sReg[d]
    BY <1>d DEF Forget, TypeOK, ServerTypeOK
  <2>3. sEvents'[d][t] = IF d = c /\ Findable(c, t)
                           THEN Append(sEvents[c][t], Completed("Disconnected"))
                           ELSE sEvents[d][t]
    BY <1>d DEF Forget, TypeOK, ServerTypeOK
  <2>4. CASE d = c /\ Findable(c, t)
    <3>1. t \in sReg[d] /\ t \notin sReg'[d] /\ c2s'[d] = <<>>
      BY <2>1, <2>2, <2>4 DEF Findable
    <3>2. "Disconnected" \in ErrorCodes
      BY DEF ErrorCodes
    <3> QED BY <1>a, <1>d, <2>3, <2>4, <3>1, <3>2 DEF RequestStep, RequestEnded
  <2>5. CASE ~(d = c /\ Findable(c, t))
    BY <1>a, <1>d, <2>1, <2>2, <2>3, <2>5 DEF RequestStep, NoRequestStep, SameService
  <2> QED BY <2>4, <2>5
<1>1. CASE ServerAccept(c)
  BY <1>b, <1>1 DEF ServerAccept, serverVars, SameService
<1>2. CASE ServerReceive(c)
  <2> DEFINE m == Head(c2s[c])
  <2>1. c2s[c] # <<>> /\ m \in Route
    BY <1>2 DEF ServerReceive, TypeOK, PipeTypeOK
  <2>2. m.tag \in Tags /\ m.err \in ErrorCodes
    BY <2>1 DEF Route
  <2> HIDE DEF m
  <2>3. CASE ServerHandleRouteConnect(c)
    <3>1. opened' = opened
      BY <2>3 DEF ServerHandleRouteConnect
    <3>2. CASE CloseServerContext(c) /\ Forget(c)
      BY <1>d, <3>1, <3>2
    <3>3. CASE c2s' = [c2s EXCEPT ![c] = Tail(@)] /\ UNCHANGED <<sReg, sEvents>>
      BY <1>c, <2>1, <3>1, <3>3 DEF SameService
    <3> QED BY <2>3, <3>2, <3>3 DEF ServerHandleRouteConnect
  <2>4. CASE ServerHandleRouteChannelMsg(c, m) /\ m.kind = "msg"
    <3>1. c2s' = [c2s EXCEPT ![c] = Tail(@)]
      BY <2>4 DEF ServerHandleRouteChannelMsg
    <3>2. Popped(c)
      BY <2>1, <3>1 DEF Popped, TypeOK, PipeTypeOK
    <3>3. CASE UNCHANGED <<sReg, opened, sEvents>>
      BY <1>c, <2>1, <3>1, <3>3 DEF SameService
    <3>4. CASE Findable(c, m.tag)
      <4>1. /\ sEvents' = [sEvents EXCEPT ![c][m.tag] = Append(@, Message(m.seq))]
            /\ UNCHANGED <<sReg, opened>>
        BY <2>4, <3>4 DEF ServerHandleRouteChannelMsg
      <4>2. CASE d = c /\ t = m.tag
        <5>1. sEvents'[d][t] = Append(sEvents[d][t], Message(m.seq))
          BY <4>1, <4>2 DEF TypeOK, ServerTypeOK
        <5>2. t \in sReg[d] /\ IsMsg(Head(c2s[d]), t)
          BY <2>4, <3>4, <4>2 DEF Findable, IsMsg, m
        <5> QED BY <1>a, <3>2, <4>1, <4>2, <5>1, <5>2 DEF RequestStep, RequestDelivered, m
      <4>3. CASE ~(d = c /\ t = m.tag)
        <5>1. SameService(d, t)
          BY <4>1, <4>3 DEF SameService, TypeOK, ServerTypeOK
        <5> QED BY <1>c, <2>1, <3>1, <5>1
      <4> QED BY <4>2, <4>3
    <3>5. CASE OpenChannel(c, m.tag) /\ TriggersFactory(c, m)
      <4>1. /\ sEvents' = [sEvents EXCEPT ![c][m.tag] = @ \o FirstEvents]
            /\ opened' = [opened EXCEPT ![c][m.tag] = @ + 1]
            /\ sReg' = [sReg EXCEPT ![c] = @ \cup {m.tag}]
        BY <3>5 DEF OpenChannel
      <4>2. CASE d = c /\ t = m.tag
        <5>1. /\ sEvents'[d][t] = sEvents[d][t] \o FirstEvents
              /\ opened'[d][t] = opened[d][t] + 1
          BY <4>1, <4>2 DEF TypeOK, ServerTypeOK
        <5>2. IsFirst(Head(c2s[d]), t)
          BY <2>4, <3>5, <4>2 DEF IsFirst, TriggersFactory, m
        <5> QED BY <1>a, <3>2, <4>2, <5>1, <5>2 DEF RequestStep, RequestOpens
      <4>3. CASE ~(d = c /\ t = m.tag)
        <5>1. SameService(d, t)
          BY <4>1, <4>3 DEF SameService, TypeOK, ServerTypeOK
        <5> QED BY <1>c, <2>1, <3>1, <5>1
      <4> QED BY <4>2, <4>3
    <3> QED BY <2>4, <3>3, <3>4, <3>5 DEF ServerHandleRouteChannelMsg, DropUndecodable
  <2>5. CASE ServerHandleRouteChannelEnd(c, m)
    <3>1. c2s' = [c2s EXCEPT ![c] = Tail(@)] /\ opened' = opened
      BY <2>5 DEF ServerHandleRouteChannelEnd
    <3>2. CASE UNCHANGED <<sReg, sEvents>>
      BY <1>c, <2>1, <3>1, <3>2 DEF SameService
    <3>3. CASE Findable(c, m.tag)
      <4>1. /\ sReg' = [sReg EXCEPT ![c] = @ \ {m.tag}]
            /\ sEvents' = [sEvents EXCEPT ![c][m.tag] = Append(@, Completed(m.err))]
        BY <2>5, <3>3 DEF ServerHandleRouteChannelEnd, ServerUnregister
      <4>2. CASE d = c /\ t = m.tag
        <5>1. /\ sEvents'[d][t] = Append(sEvents[d][t], Completed(m.err))
              /\ t \in sReg[d] /\ t \notin sReg'[d]
          BY <3>3, <4>1, <4>2 DEF Findable, TypeOK, ServerTypeOK
        <5>2. Popped(d)
          BY <2>1, <3>1, <4>2 DEF Popped, TypeOK, PipeTypeOK
        <5> QED BY <1>a, <2>2, <3>1, <5>1, <5>2 DEF RequestStep, RequestEnded
      <4>3. CASE ~(d = c /\ t = m.tag)
        <5>1. SameService(d, t)
          BY <3>1, <4>1, <4>3 DEF SameService, TypeOK, ServerTypeOK
        <5> QED BY <1>c, <2>1, <3>1, <5>1
      <4> QED BY <4>2, <4>3
    <3> QED BY <2>5, <3>2, <3>3 DEF ServerHandleRouteChannelEnd
  <2> QED BY <1>2, <2>3, <2>4, <2>5 DEF ServerReceive, m
<1>3. CASE ServerLosesPipe(c)
  BY <1>d, <1>3 DEF ServerLosesPipe
<1>4. ASSUME NEW u \in Tags, ServerSend(c, u) PROVE RequestStep(d, t)
  BY <1>b, <1>4 DEF ServerSend, SameService
<1>5. ASSUME NEW u \in Tags, NEW e \in AppCodes, ServerDispose(c, u, e)
      PROVE  RequestStep(d, t)
  BY <1>b, <1>5 DEF ServerDispose, SameService, TypeOK, ServerTypeOK
<1> QED
  BY <1>1, <1>2, <1>3, <1>4, <1>5 DEF ServerStep, ServerApp, ServerExecutor

(* More events after the first message change nothing about it. *)
LEMMA EventKeepsFirst ==
  ASSUME NEW s \in Seq(Event), NEW e \in Event, FromFirst(s), e.kind = "message" => HasFirst(s)
  PROVE  /\ FromFirst(Append(s, e))
         /\ HasFirst(s) => HasFirst(Append(s, e))
<1> DEFINE p == Append(s, e)
<1>1. /\ Len(s) \in Nat /\ Len(p) = Len(s) + 1
      /\ \A i \in 1 .. Len(s) : i \in 1 .. Len(p) /\ p[i] = s[i]
      /\ p[Len(s) + 1] = e
      /\ \A i \in 1 .. Len(p) : i \in 1 .. Len(s) \/ i = Len(s) + 1
  BY AppendIsMore
<1> HIDE DEF p
<1>2. HasFirst(s) => HasFirst(p)
  BY <1>1 DEF HasFirst
<1>3. FromFirst(p)
  <2> SUFFICES ASSUME NEW j \in 1 .. Len(p), p[j].kind = "message"
               PROVE  \E i \in 1 .. j : p[i] = Message(0)
    BY DEF FromFirst
  <2>1. CASE j \in 1 .. Len(s)
    <3>1. PICK i \in 1 .. j : s[i] = Message(0)
      BY <1>1, <2>1 DEF FromFirst
    <3>2. i \in 1 .. Len(s)
      BY <1>1, <2>1
    <3> QED BY <1>1, <3>1, <3>2
  <2>2. CASE j = Len(s) + 1
    <3>1. PICK i \in 1 .. Len(s) : s[i] = Message(0)
      BY <1>1, <2>2 DEF HasFirst
    <3>2. i \in 1 .. j
      BY <1>1, <2>2
    <3> QED BY <1>1, <3>1, <3>2
  <2> QED BY <1>1, <2>1, <2>2
<1> QED BY <1>2, <1>3 DEF p

(* The events of a channel just opened. *)
LEMMA FirstEventsInOrder ==
  /\ <<>> \o FirstEvents = FirstEvents
  /\ MessagesIncrease(FirstEvents) /\ FromFirst(FirstEvents) /\ HasFirst(FirstEvents)
  /\ IsFinal(FirstEvents) /\ ~Completes(FirstEvents)
  /\ \A n \in Nat : 0 < n => SeenBelow(FirstEvents, n)
  /\ \A q, t : QueuedAbove(q, t, 0) => SeenBefore(FirstEvents, q, t)
<1>1. /\ FirstEvents \in Seq(Event) /\ Len(FirstEvents) = 2
      /\ FirstEvents[1] = Connected /\ FirstEvents[2] = Message(0)
  BY EventsAreEvents DEF FirstEvents
<1>2. \A i \in 1 .. Len(FirstEvents) : i = 1 \/ i = 2
  BY <1>1
<1>3. Connected.kind = "connected" /\ Message(0).kind = "message" /\ Message(0).seq = 0
  BY DEF Connected, Message
<1>4. <<>> \o FirstEvents = FirstEvents
  BY <1>1, ConcatEmptySeq
<1>5. MessagesIncrease(FirstEvents)
  BY <1>1, <1>2, <1>3 DEF MessagesIncrease
<1>6. HasFirst(FirstEvents)
  BY <1>1 DEF HasFirst
<1>7. FromFirst(FirstEvents)
  BY <1>1, <1>2, <1>3 DEF FromFirst
<1>8. ~Completes(FirstEvents)
  BY <1>1, <1>2, <1>3 DEF Completes
<1>9. IsFinal(FirstEvents)
  BY <1>1, <1>2, <1>3 DEF IsFinal
<1>10. \A n \in Nat : 0 < n => SeenBelow(FirstEvents, n)
  BY <1>1, <1>2, <1>3 DEF SeenBelow
<1>11. \A q, t : QueuedAbove(q, t, 0) => SeenBefore(FirstEvents, q, t)
  BY <1>1, <1>2, <1>3 DEF SeenBefore
<1> QED BY <1>4, <1>5, <1>6, <1>7, <1>8, <1>9, <1>10, <1>11

(* Whatever a step does to the requests of a channel, it keeps the order.  *)
LEMMA RequestStepInOrder ==
  ASSUME TypeOK, OpenInv, NEW c \in Clients, NEW t \in Tags, RequestInvAt(c, t), RequestStep(c, t)
  PROVE  RequestInvAt(c, t)'
<1> DEFINE q == c2s[c]
           s == sEvents[c][t]
           n == cSeq[c][t]
<1>a. q \in Seq(Route) /\ s \in Seq(Event) /\ n \in Nat /\ opened[c][t] \in Nat
  <2>1. n \in 0 .. CliMax
    BY DEF TypeOK, ClientTypeOK
  <2>2. n \in Nat
    BY <2>1, IpcAssumption
  <2> QED BY <2>2 DEF TypeOK, PipeTypeOK, ServerTypeOK
<1>b. /\ QueueIncreases(q, t) /\ QueuedBelow(q, t, n) /\ SeenBefore(s, q, t) /\ SeenBelow(s, n)
      /\ MessagesIncrease(s) /\ FromFirst(s)
      /\ IsFinal(s)
  BY DEF RequestInvAt, WayInOrder, ServiceInOrder, ServiceEnds
<1>c. /\ t \in sReg[c] => HasFirst(s) /\ ~Completes(s) /\ opened[c][t] # 0
      /\ opened[c][t] = 0 => s = <<>>
  BY DEF RequestInvAt, ServiceInOrder, ServiceEnds
<1>d. /\ QueueIncreases(<<>>, t) /\ QueuedBelow(<<>>, t, n) /\ SeenBefore(s, <<>>, t)
      /\ \A x : QueuedAbove(<<>>, t, x)
  BY DEF QueueIncreases, QueuedBelow, SeenBefore, QueuedAbove
<1>e. Popped(c) => /\ QueueIncreases(c2s'[c], t) /\ QueuedBelow(c2s'[c], t, n)
                   /\ SeenBefore(s, c2s'[c], t)
  BY <1>a, <1>b, TailInOrder DEF Popped
<1> HIDE DEF q, s, n
<1>1. CASE NoRequestStep(c, t)
  <2>1. sEvents'[c][t] = s /\ cSeq'[c][t] = n /\ opened'[c][t] = opened[c][t]
        /\ (t \in sReg'[c] => t \in sReg[c])
    BY <1>1 DEF NoRequestStep, SameService, s, n
  <2>2. QueueIncreases(c2s'[c], t) /\ QueuedBelow(c2s'[c], t, n) /\ SeenBefore(s, c2s'[c], t)
    <3>1. CASE c2s'[c] = q
      BY <1>b, <3>1
    <3>2. CASE c2s'[c] = <<>>
      BY <1>d, <3>2
    <3>3. CASE Popped(c)
      BY <1>e, <3>3
    <3>4. ASSUME NEW r \in Route, Pushed(c, t, r)
          PROVE  /\ QueueIncreases(c2s'[c], t) /\ QueuedBelow(c2s'[c], t, n)
                 /\ SeenBefore(s, c2s'[c], t)
      BY <1>a, <1>b, <3>4, AppendInOrder DEF Pushed, q
    <3> QED BY <1>1, <3>1, <3>2, <3>3, <3>4 DEF NoRequestStep, q
  <2>3. WayInOrder(c, t)'
    BY <1>b, <2>1, <2>2 DEF WayInOrder
  <2>4. ServiceInOrder(c, t)'
    BY <1>b, <1>c, <2>1 DEF ServiceInOrder
  <2>5. ServiceEnds(c, t)'
    BY <1>b, <1>c, <2>1 DEF ServiceEnds
  <2> QED BY <2>3, <2>4, <2>5 DEF RequestInvAt
<1>2. CASE RequestSent(c, t)
  <2> DEFINE r == RouteChannelMsg(t, n)
  <2>0. r \in Route /\ r.seq = n /\ IsMsg(r, t)
    BY <1>a, RoutesAreRoutes DEF RouteChannelMsg, IsMsg
  <2>1. /\ sEvents'[c][t] = s /\ cSeq'[c][t] = n + 1 /\ opened'[c][t] = opened[c][t]
        /\ t \in sReg'[c] => t \in sReg[c]
        /\ c2s'[c] = q \/ c2s'[c] = Append(q, r)
    BY <1>2 DEF RequestSent, SameService, s, n, q
  <2> HIDE DEF r
  <2>2. QueuedBelow(q, t, n + 1) /\ SeenBelow(s, n + 1)
    <3>1. \A i \in 1 .. Len(q) : q[i].seq \in Nat
      <4>1. \A i \in 1 .. Len(q) : q[i] \in Route
        BY <1>a
      <4>2. \A r0 \in Route : r0.seq \in Nat
        BY DEF Route
      <4> QED BY <4>1, <4>2
    <3>2. \A i \in 1 .. Len(s) : s[i].seq \in Nat
      <4>1. \A i \in 1 .. Len(s) : s[i] \in Event
        BY <1>a
      <4>2. \A e0 \in Event : e0.seq \in Nat
        BY DEF Event
      <4> QED BY <4>1, <4>2
    <3> QED BY <1>a, <1>b, <3>1, <3>2 DEF QueuedBelow, SeenBelow
  <2>3. QueueIncreases(c2s'[c], t) /\ QueuedBelow(c2s'[c], t, n + 1) /\ SeenBefore(s, c2s'[c], t)
    <3>1. CASE c2s'[c] = q
      BY <1>b, <2>2, <3>1
    <3>2. CASE c2s'[c] = Append(q, r)
      <4>1. n < n + 1
        BY <1>a
      <4> QED BY <1>a, <1>b, <2>0, <2>2, <3>2, <4>1, AppendInOrder
    <3> QED BY <2>1, <3>1, <3>2
  <2>4. WayInOrder(c, t)'
    BY <2>1, <2>2, <2>3 DEF WayInOrder
  <2>5. ServiceInOrder(c, t)'
    BY <1>b, <1>c, <2>1 DEF ServiceInOrder
  <2>6. ServiceEnds(c, t)'
    BY <1>b, <1>c, <2>1 DEF ServiceEnds
  <2> QED BY <2>4, <2>5, <2>6 DEF RequestInvAt
<1>3. CASE RequestEnded(c, t)
  <2>1. PICK e \in ErrorCodes : sEvents'[c][t] = Append(s, Completed(e))
    BY <1>3 DEF RequestEnded, s
  <2>2. Completed(e) \in Event /\ Completed(e).kind = "completed"
    BY EventsAreEvents DEF Completed
  <2>3. /\ t \in sReg[c] /\ t \notin sReg'[c]
        /\ cSeq'[c][t] = n /\ opened'[c][t] = opened[c][t]
        /\ c2s'[c] = <<>> \/ Popped(c)
    BY <1>3 DEF RequestEnded, n
  <2>4. QueueIncreases(c2s'[c], t) /\ QueuedBelow(c2s'[c], t, n) /\ SeenBefore(s, c2s'[c], t)
    BY <1>d, <1>e, <2>3
  <2>5. WayInOrder(c, t)'
    BY <1>a, <1>b, <2>1, <2>2, <2>3, <2>4, EventInOrder DEF WayInOrder
  <2>6. ServiceInOrder(c, t)'
    BY <1>a, <1>b, <1>c, <2>1, <2>2, <2>3, EventInOrder, EventKeepsFirst DEF ServiceInOrder
  <2>7. ServiceEnds(c, t)'
    BY <1>a, <1>c, <2>1, <2>2, <2>3, EventAfterNoEnd DEF ServiceEnds
  <2> QED BY <2>5, <2>6, <2>7 DEF RequestInvAt
<1>4. CASE RequestDelivered(c, t)
  <2> DEFINE m == Head(q)
             e == Message(m.seq)
  <2>1. /\ q # <<>> /\ c2s'[c] = Tail(q) /\ IsMsg(m, t) /\ t \in sReg[c]
        /\ sEvents'[c][t] = Append(s, e)
        /\ cSeq'[c][t] = n /\ opened'[c][t] = opened[c][t]
    BY <1>4 DEF RequestDelivered, Popped, q, s, n
  <2>2. m \in Route
    BY <1>a, <2>1
  <2>3. m.seq \in Nat
    BY <2>2 DEF Route
  <2>4. e \in Event /\ e.kind = "message" /\ e.seq = m.seq
    BY <2>3, EventsAreEvents DEF Message
  <2>5. /\ QueuedAbove(Tail(q), t, m.seq) /\ m.seq < n /\ SeenBelow(s, m.seq)
        /\ QueueIncreases(Tail(q), t) /\ QueuedBelow(Tail(q), t, n) /\ SeenBefore(s, Tail(q), t)
    BY <1>a, <1>b, <2>1, TailInOrder
  <2> HIDE DEF e, m
  <2>6. WayInOrder(c, t)'
    BY <1>a, <1>b, <2>1, <2>4, <2>5, EventInOrder DEF WayInOrder
  <2>7. ServiceInOrder(c, t)'
    BY <1>a, <1>b, <1>c, <2>1, <2>4, <2>5, EventInOrder, EventKeepsFirst DEF ServiceInOrder
  <2>8. ServiceEnds(c, t)'
    BY <1>a, <1>c, <2>1, <2>4, EventAfterNoEnd DEF ServiceEnds
  <2> QED BY <2>6, <2>7, <2>8 DEF RequestInvAt
<1>5. CASE RequestOpens(c, t)
  <2>1. /\ q # <<>> /\ c2s'[c] = Tail(q) /\ IsFirst(Head(q), t)
        /\ sEvents'[c][t] = s \o FirstEvents
        /\ cSeq'[c][t] = n /\ opened'[c][t] = opened[c][t] + 1
    BY <1>5 DEF RequestOpens, Popped, q, s, n
  <2>2. opened[c][t] = 0
    <3>1. ~NoFirst(q, t)
      BY <1>a, <2>1, TailIsRest DEF NoFirst
    <3> QED BY <3>1 DEF OpenInv, OpenInvAt, q
  <2>3. sEvents'[c][t] = FirstEvents /\ opened'[c][t] # 0
    <3>1. s = <<>>
      BY <1>c, <2>2
    <3>2. sEvents'[c][t] = FirstEvents
      BY <2>1, <3>1, FirstEventsInOrder
    <3>3. opened'[c][t] = 0 + 1
      BY <2>1, <2>2
    <3> QED BY <3>2, <3>3
  <2>4. IsMsg(Head(q), t) /\ Head(q).seq = 0
    BY <2>1 DEF IsMsg, IsFirst
  <2>5. /\ QueuedAbove(Tail(q), t, 0) /\ 0 < n
        /\ QueueIncreases(Tail(q), t) /\ QueuedBelow(Tail(q), t, n)
    BY <1>a, <1>b, <2>1, <2>4, TailInOrder
  <2>6. WayInOrder(c, t)'
    BY <1>a, <2>1, <2>3, <2>5, FirstEventsInOrder DEF WayInOrder
  <2>7. ServiceInOrder(c, t)'
    BY <2>3, FirstEventsInOrder DEF ServiceInOrder
  <2>8. ServiceEnds(c, t)'
    BY <2>3, FirstEventsInOrder DEF ServiceEnds
  <2> QED BY <2>6, <2>7, <2>8 DEF RequestInvAt
<1> QED BY <1>1, <1>2, <1>3, <1>4, <1>5 DEF RequestStep

(* RequestInv holds in every reachable state. *)
LEMMA RequestInvariant == Spec => []RequestInv
<1>1. Init => RequestInv
  <2> SUFFICES ASSUME Init, NEW c \in Clients, NEW t \in Tags PROVE RequestInvAt(c, t)
    BY DEF RequestInv
  <2>1. c2s[c] = <<>> /\ sEvents[c][t] = <<>> /\ sReg[c] = {}
    BY DEF Init, PipeInit, ServerInit
  <2>2. Len(<<>>) = 0
    OBVIOUS
  <2> QED BY <2>1, <2>2
      DEF RequestInvAt, WayInOrder, ServiceInOrder, ServiceEnds, QueueIncreases, QueuedBelow,
          SeenBefore, SeenBelow, MessagesIncrease, FromFirst, IsFinal
<1>2. TypeOK /\ OpenInv /\ RequestInv /\ [Next]_vars => RequestInv'
  <2> SUFFICES ASSUME TypeOK, OpenInv, RequestInv, [Next]_vars, NEW d \in Clients, NEW t \in Tags
               PROVE  RequestInvAt(d, t)'
    BY DEF RequestInv
  <2>0. RequestInvAt(d, t)
    BY DEF RequestInv
  <2>1. ASSUME UNCHANGED <<c2s, cSeq, sEvents, opened, sReg>> PROVE RequestStep(d, t)
    BY <2>1 DEF RequestStep, NoRequestStep, SameService
  <2>2. ASSUME NEW c \in Clients, ClientDies(c), UNCHANGED <<clientVars, serverVars>>
        PROVE  UNCHANGED <<c2s, cSeq, sEvents, opened, sReg>>
    BY <2>2 DEF ClientDies, clientVars, serverVars
  <2>3. ASSUME ServerDies, UNCHANGED <<clientVars, serverVars>>
        PROVE  UNCHANGED <<c2s, cSeq, sEvents, opened, sReg>>
    BY <2>3 DEF ServerDies, clientVars, serverVars
  <2>4. ASSUME UNCHANGED vars PROVE UNCHANGED <<c2s, cSeq, sEvents, opened, sReg>>
    BY <2>4 DEF vars, pipeVars, clientVars, serverVars
  <2>5. RequestStep(d, t)
    BY <2>1, <2>2, <2>3, <2>4, ClientRequestStep, ServerRequestStep DEF Next
  <2> QED BY <2>0, <2>5, RequestStepInOrder
<1> QED BY <1>1, <1>2, TypeCorrect, OpenInvariant, PTL DEF Spec

(* A service sees the requests of a channel in the order the client wrote  *)
(* them and none before the very first one (handleRouteChannelMsg,         *)
(* sequence == 0): a refused write leaves a gap, never a channel that      *)
(* starts in the middle.                                                   *)
THEOREM RequestsStartAtTheFirst == Spec => []RequestsArriveFromTheFirst
<1>1. RequestInv => RequestsArriveFromTheFirst
  BY DEF RequestInv, RequestInvAt, ServiceInOrder, FromFirst, RequestsArriveFromTheFirst
<1> QED BY <1>1, RequestInvariant, PTL

-----------------------------------------------------------------------------
(***************************************************************************)
(* What the owner of a client channel is told: the way of a response from  *)
(* a service to its client and the end of a channel.                       *)
(***************************************************************************)

(* Notifying a gateway adds an event to its channel and to no other. *)
LEMMA GatewayEventAt ==
  ASSUME ClientTypeOK, NEW c \in Clients, NEW u \in Tags, NEW e \in Event,
         NEW d \in Clients, NEW t \in Tags
  PROVE  GatewayEvent(c, u, e)[d][t] =
           IF d = c /\ t = u /\ u \in cSub[c]
             THEN Append(cEvents[d][t], IF u \in cLive[c] THEN e ELSE LateEvent)
             ELSE cEvents[d][t]
BY DEF ClientTypeOK, GatewayEvent

-----------------------------------------------------------------------------
(* Why nothing follows a Completed at a client: a channel that was told    *)
(* the end is neither registered nor waiting in a loop, and its tag is not *)
(* given out again. Strong pointers are held by the Connected loop alone,  *)
(* so that any other event finds its channel alive.                        *)
TagsBelow(c, t) == t \in cReg[c] \cup todo[c] \cup cLive[c] \cup cSub[c] => t < nextTag[c]
LoopShape(c, t) ==
  /\ loop[c] = "none" => t \notin todo[c]
  /\ loop[c] = "completed" => t \notin todo[c] \cap cReg[c]
  /\ loop[c] # "connected" => held[c] = {}
ClientEnds(c, t) ==
  /\ IsFinal(cEvents[c][t])
  /\ Completes(cEvents[c][t]) => t \notin cReg[c] \cup todo[c] /\ t < nextTag[c]
UsedIsSubscribed(c, t) == cSeq[c][t] > 0 => t \in cSub[c]
OwnerInvAt(c, t) ==
  TagsBelow(c, t) /\ LoopShape(c, t) /\ ClientEnds(c, t) /\ UsedIsSubscribed(c, t)
OwnerInv == \A c \in Clients, t \in Tags : OwnerInvAt(c, t)

(* What a step can tell the owner of channel t of client c: nothing, or an *)
(* event to a channel that has not ended, which is its end only if it then *)
(* is no longer registered.                                                *)
Told(c, t, e) ==
  /\ cEvents'[c][t] = Append(cEvents[c][t], e)
  /\ t \in cReg[c] \cup todo[c]
  /\ e.kind = "completed" => t \notin cReg'[c] \cup todo'[c]
OwnerTold(c, t) ==
  cEvents'[c][t] = cEvents[c][t] \/ \E e \in Event : Told(c, t, e)

(* Being told so keeps ClientEnds, if the tag is not given out again. *)
LEMMA ToldKeepsEnds ==
  ASSUME TypeOK, NEW c \in Clients, NEW t \in Tags, OwnerInvAt(c, t), OwnerTold(c, t),
         t \in cReg'[c] \cup todo'[c] => t \in cReg[c] \cup todo[c] \/ t = nextTag[c],
         nextTag'[c] \in {nextTag[c], nextTag[c] + 1}
  PROVE  ClientEnds(c, t)'
<1>1. cEvents[c][t] \in Seq(Event) /\ nextTag[c] \in Nat /\ t \in Nat
  <2>1. nextTag[c] \in 0 .. NumTags
    BY DEF TypeOK, ClientTypeOK
  <2>2. nextTag[c] \in Nat /\ t \in Nat
    BY <2>1, IpcAssumption DEF Tags
  <2> QED BY <2>2 DEF TypeOK, ClientTypeOK
<1>2. t < nextTag[c] => t < nextTag'[c] /\ t # nextTag[c]
  BY <1>1
<1>3. CASE cEvents'[c][t] = cEvents[c][t]
  BY <1>2, <1>3 DEF OwnerInvAt, ClientEnds
<1>4. ASSUME NEW e \in Event, Told(c, t, e) PROVE ClientEnds(c, t)'
  <2>1. t \in cReg[c] \cup todo[c] /\ cEvents'[c][t] = Append(cEvents[c][t], e)
        /\ (e.kind = "completed" => t \notin cReg'[c] \cup todo'[c])
    BY <1>4 DEF Told
  <2>2. ~Completes(cEvents[c][t]) /\ t < nextTag[c]
    BY <2>1 DEF OwnerInvAt, ClientEnds, TagsBelow
  <2>3. IsFinal(cEvents'[c][t]) /\ (Completes(cEvents'[c][t]) => e.kind = "completed")
    BY <1>1, <2>1, <2>2, EventAfterNoEnd
  <2> QED BY <1>2, <2>1, <2>2, <2>3 DEF ClientEnds
<1> QED BY <1>3, <1>4 DEF OwnerTold

(* A step of a client keeps OwnerInv. *)
LEMMA ClientStepOwner ==
  ASSUME TypeOK, OwnerInv, NEW c \in Clients, ClientStep(c), UNCHANGED serverVars,
         NEW d \in Clients, NEW t \in Tags
  PROVE  OwnerInvAt(d, t)'
<1>a. OwnerInvAt(d, t) /\ OwnerInvAt(c, t)
  BY DEF OwnerInv
<1>t. ClientTypeOK
  BY DEF TypeOK
<1>n. nextTag[d] \in Nat /\ t \in Nat
  <2>1. nextTag[d] \in 0 .. NumTags
    BY <1>t DEF ClientTypeOK
  <2> QED BY <2>1, IpcAssumption DEF Tags
(* It is enough to look at the parts one by one. *)
<1>b. ASSUME OwnerTold(d, t), TagsBelow(d, t)', LoopShape(d, t)', UsedIsSubscribed(d, t)',
             t \in cReg'[d] \cup todo'[d] => t \in cReg[d] \cup todo[d] \/ t = nextTag[d],
             nextTag'[d] \in {nextTag[d], nextTag[d] + 1}
      PROVE  OwnerInvAt(d, t)'
  BY <1>a, <1>b, ToldKeepsEnds DEF OwnerInvAt
<1>c. ASSUME UNCHANGED <<nextTag, cReg, cLive, cSub, cSeq, cEvents, loop, todo, held>>
      PROVE  OwnerInvAt(d, t)'
  BY <1>a, <1>c DEF OwnerInvAt, TagsBelow, LoopShape, ClientEnds, UsedIsSubscribed
<1>1. CASE ClientStart(c)
  BY <1>c, <1>1 DEF ClientStart, clientVars
<1>2. CASE ClientHandleConnect(c)
  BY <1>c, <1>2 DEF ClientHandleConnect, SendRouteConnect, clientVars
<1>3. CASE ClientMakeGateway(c)
  <2>1. /\ nextTag' = [nextTag EXCEPT ![c] = @ + 1]
        /\ cReg' = [cReg EXCEPT ![c] = @ \cup {nextTag[c]}]
        /\ cLive' = [cLive EXCEPT ![c] = @ \cup {nextTag[c]}]
        /\ UNCHANGED <<cSub, cSeq, cEvents, loop, todo, held>>
    BY <1>3 DEF ClientMakeGateway
  <2>2. CASE d # c
    <3>1. UNCHANGED <<nextTag[d], cReg[d], cLive[d]>>
      BY <1>t, <2>1, <2>2 DEF ClientTypeOK
    <3> QED BY <1>a, <2>1, <3>1 DEF OwnerInvAt, TagsBelow, LoopShape, ClientEnds, UsedIsSubscribed
  <2>3. CASE d = c
    <3>1. /\ nextTag'[d] = nextTag[d] + 1
          /\ cReg'[d] = cReg[d] \cup {nextTag[d]}
          /\ cLive'[d] = cLive[d] \cup {nextTag[d]}
      BY <1>t, <2>1, <2>3 DEF ClientTypeOK
    <3>2. TagsBelow(d, t)'
      BY <1>a, <1>n, <2>1, <3>1 DEF OwnerInvAt, TagsBelow
    <3>3. t = nextTag[d] => t \notin todo[d]
      BY <1>a, <1>n DEF OwnerInvAt, TagsBelow
    <3>4. LoopShape(d, t)'
      BY <1>a, <2>1, <3>1, <3>3 DEF OwnerInvAt, LoopShape
    <3>5. UsedIsSubscribed(d, t)'
      BY <1>a, <2>1 DEF OwnerInvAt, UsedIsSubscribed
    <3> QED BY <1>b, <2>1, <3>1, <3>2, <3>4, <3>5 DEF OwnerTold
  <2> QED BY <2>2, <2>3
<1>4. ASSUME NEW u \in Tags, ClientSubscribe(c, u) PROVE OwnerInvAt(d, t)'
  <2>1. /\ u \in cLive[c]
        /\ cSub' = [cSub EXCEPT ![c] = @ \cup {u}]
        /\ UNCHANGED <<nextTag, cReg, cLive, cSeq, loop, todo, held>>
    BY <1>4 DEF ClientSubscribe
  <2>2. cSub'[d] = cSub[d] \/ (d = c /\ cSub'[d] = cSub[d] \cup {u})
    BY <1>t, <2>1 DEF ClientTypeOK
  <2>3. OwnerTold(d, t)
    <3>1. cEvents' = cEvents \/ (u \in cReg[c] /\ cEvents' = [cEvents EXCEPT ![c][u] = Append(@, Connected)])
      BY <1>4 DEF ClientSubscribe
    <3>2. \/ cEvents'[d][t] = cEvents[d][t]
          \/ t \in cReg[d] /\ cEvents'[d][t] = Append(cEvents[d][t], Connected)
      <4>1. CASE cEvents' = cEvents
        BY <4>1
      <4>2. CASE u \in cReg[c] /\ cEvents' = [cEvents EXCEPT ![c][u] = Append(@, Connected)]
        <5>1. cEvents'[d][t] = IF d = c /\ t = u THEN Append(cEvents[d][t], Connected)
                                                ELSE cEvents[d][t]
          BY <1>t, <4>2 DEF ClientTypeOK
        <5> QED BY <4>2, <5>1
      <4> QED BY <3>1, <4>1, <4>2
    <3>3. Connected \in Event /\ Connected.kind # "completed"
      BY EventsAreEvents DEF Connected
    <3> QED BY <3>2, <3>3 DEF OwnerTold, Told
  <2>4. TagsBelow(d, t)'
    BY <1>a, <2>1, <2>2 DEF OwnerInvAt, TagsBelow
  <2>5. LoopShape(d, t)' /\ UsedIsSubscribed(d, t)'
    BY <1>a, <2>1, <2>2 DEF OwnerInvAt, LoopShape, UsedIsSubscribed
  <2> QED BY <1>b, <2>1, <2>3, <2>4, <2>5
<1>5. ASSUME NEW u \in Tags, ClientSend(c, u) PROVE OwnerInvAt(d, t)'
  <2>1. /\ u \in cSub[c]
        /\ cSeq' = [cSeq EXCEPT ![c][u] = cSeq[c][u] + 1]
        /\ UNCHANGED <<nextTag, cReg, cLive, cSub, cEvents, loop, todo, held>>
    BY <1>5 DEF ClientSend, NextSeq
  <2>2. cSeq'[d][t] = cSeq[d][t] \/ t \in cSub[d]
    BY <1>t, <2>1 DEF ClientTypeOK
  <2> QED BY <1>a, <2>1, <2>2 DEF OwnerInvAt, TagsBelow, LoopShape, ClientEnds, UsedIsSubscribed
<1>6. ASSUME cReg'[d] \subseteq cReg[d], cLive'[d] \subseteq cLive[d], held'[d] \subseteq held[d],
             UNCHANGED <<nextTag, cSub, cSeq, cEvents, loop, todo>>
      PROVE  OwnerInvAt(d, t)'
  BY <1>a, <1>6 DEF OwnerInvAt, TagsBelow, LoopShape, ClientEnds, UsedIsSubscribed
<1>7. ASSUME NEW u \in Tags, NEW e \in AppCodes, ClientDispose(c, u, e) PROVE OwnerInvAt(d, t)'
  <2>1. cReg'[d] \subseteq cReg[d] /\ cLive'[d] \subseteq cLive[d] /\ held' = held
    BY <1>t, <1>7 DEF ClientDispose, DisposeGateway, ClientTypeOK
  <2> QED BY <1>6, <1>7, <2>1 DEF ClientDispose
<1>8. ASSUME NEW u \in Tags, NEW e \in AppCodes, ClientReleaseOrphan(c, u, e)
      PROVE  OwnerInvAt(d, t)'
  <2>1. cReg'[d] \subseteq cReg[d] /\ cLive' = cLive /\ held'[d] \subseteq held[d]
    BY <1>t, <1>8 DEF ClientReleaseOrphan, DisposeGateway, ClientTypeOK
  <2> QED BY <1>6, <1>8, <2>1 DEF ClientReleaseOrphan
<1>9. ASSUME NEW u \in Tags, ClientDisposeHeld(c, u) PROVE OwnerInvAt(d, t)'
  <2>1. cReg' = cReg /\ cLive'[d] \subseteq cLive[d] /\ held' = held
    BY <1>t, <1>9 DEF ClientDisposeHeld, ClientTypeOK
  <2> QED BY <1>6, <1>9, <2>1 DEF ClientDisposeHeld
<1>10. CASE ClientReceive(c)
  <2> DEFINE m == Head(s2c[c])
  <2>1. /\ UNCHANGED <<nextTag, cLive, cSub, cSeq>>
        /\ loop[c] = "none" /\ m \in Route
    BY <1>10 DEF ClientReceive, Idle, TypeOK, PipeTypeOK
  <2>2. m.tag \in Tags /\ m.seq \in Nat /\ m.err \in ErrorCodes
    BY <2>1 DEF Route
  <2> HIDE DEF m
  <2>3. CASE HandleRouteConnect(c)
    <3>1. UNCHANGED <<cReg, cEvents>>
      BY <2>3 DEF HandleRouteConnect
    <3>2. CASE c \in conn
      BY <1>c, <2>1, <2>3, <3>1, <3>2 DEF HandleRouteConnect
    <3>3. CASE c \notin conn
      <4> DEFINE S == {u \in cReg[c] : GatewayExists(c, u)}
      <4>1. /\ loop' = [loop EXCEPT ![c] = "connected"]
            /\ todo' = [todo EXCEPT ![c] = S]
            /\ held' = [held EXCEPT ![c] = S]
        BY <2>3, <3>3 DEF HandleRouteConnect
      <4>2. S \subseteq cReg[c]
        OBVIOUS
      <4> HIDE DEF S
      <4>3. CASE d # c
        <5>1. UNCHANGED <<loop[d], todo[d], held[d]>>
          BY <1>t, <4>1, <4>3 DEF ClientTypeOK
        <5> QED BY <1>a, <2>1, <3>1, <5>1
            DEF OwnerInvAt, TagsBelow, LoopShape, ClientEnds, UsedIsSubscribed
      <4>4. CASE d = c
        <5>1. loop'[d] = "connected" /\ todo'[d] = S /\ held'[d] = S
          BY <1>t, <4>1, <4>4 DEF ClientTypeOK
        <5> QED BY <1>a, <2>1, <3>1, <4>2, <4>4, <5>1
            DEF OwnerInvAt, TagsBelow, LoopShape, ClientEnds, UsedIsSubscribed
      <4> QED BY <4>3, <4>4
    <3> QED BY <3>2, <3>3
  <2>4. CASE HandleRouteChannelMsg(c, m)
    <3>1. UNCHANGED <<cReg, loop, todo, held>>
      BY <2>4 DEF HandleRouteChannelMsg
    <3>2. OwnerTold(d, t)
      <4>1. Message(m.seq) \in Event /\ Message(m.seq).kind # "completed"
        BY <2>2, EventsAreEvents DEF Message
      <4>2. LateEvent \in Event /\ LateEvent.kind # "completed"
        BY EventsAreEvents DEF LateEvent
      <4>3. cEvents' = cEvents
            \/ (m.tag \in cReg[c] /\ cEvents' = GatewayEvent(c, m.tag, Message(m.seq)))
        BY <2>4 DEF HandleRouteChannelMsg
      <4>4. \/ cEvents'[d][t] = cEvents[d][t]
            \/ /\ t \in cReg[d]
               /\ \/ cEvents'[d][t] = Append(cEvents[d][t], Message(m.seq))
                  \/ cEvents'[d][t] = Append(cEvents[d][t], LateEvent)
        <5>1. GatewayEvent(c, m.tag, Message(m.seq))[d][t] =
                IF d = c /\ t = m.tag /\ m.tag \in cSub[c]
                  THEN Append(cEvents[d][t], IF m.tag \in cLive[c] THEN Message(m.seq) ELSE LateEvent)
                  ELSE cEvents[d][t]
          BY <1>t, <2>2, <4>1, GatewayEventAt
        <5> QED BY <4>3, <5>1
      <4> QED BY <4>1, <4>2, <4>4 DEF OwnerTold, Told
    <3>3. TagsBelow(d, t)' /\ LoopShape(d, t)' /\ UsedIsSubscribed(d, t)'
      BY <1>a, <2>1, <3>1 DEF OwnerInvAt, TagsBelow, LoopShape, UsedIsSubscribed
    <3> QED BY <1>b, <2>1, <3>1, <3>2, <3>3
  <2>5. CASE HandleRouteChannelEnd(c, m)
    <3>1. UNCHANGED <<loop, todo, held>>
      BY <2>5 DEF HandleRouteChannelEnd
    <3>2. CASE UNCHANGED <<cReg, cEvents>>
      BY <1>c, <2>1, <3>1, <3>2
    <3>3. CASE /\ m.tag \in cReg[c]
               /\ cReg' = [cReg EXCEPT ![c] = cReg[c] \ {m.tag}]
               /\ cEvents' = GatewayEvent(c, m.tag, Completed(m.err))
      <4>1. Completed(m.err) \in Event /\ LateEvent \in Event
        BY <2>2, EventsAreEvents
      <4>2. cReg'[d] \subseteq cReg[d] /\ (d = c => m.tag \notin cReg'[d])
        BY <1>t, <3>3 DEF ClientTypeOK
      <4>3. OwnerTold(d, t)
        <5>1. \/ cEvents'[d][t] = cEvents[d][t]
              \/ /\ d = c /\ t = m.tag
                 /\ \/ cEvents'[d][t] = Append(cEvents[d][t], Completed(m.err))
                    \/ cEvents'[d][t] = Append(cEvents[d][t], LateEvent)
          <6>1. GatewayEvent(c, m.tag, Completed(m.err))[d][t] =
                  IF d = c /\ t = m.tag /\ m.tag \in cSub[c]
                    THEN Append(cEvents[d][t],
                                IF m.tag \in cLive[c] THEN Completed(m.err) ELSE LateEvent)
                    ELSE cEvents[d][t]
            BY <1>t, <2>2, <4>1, GatewayEventAt
          <6> QED BY <3>3, <6>1
        <5>2. d = c /\ t = m.tag => t \in cReg[d] /\ t \notin cReg'[d] \cup todo'[d]
          BY <1>a, <2>1, <3>1, <3>3, <4>2 DEF OwnerInvAt, LoopShape
        <5> QED BY <4>1, <5>1, <5>2 DEF OwnerTold, Told
      <4>4. TagsBelow(d, t)' /\ LoopShape(d, t)' /\ UsedIsSubscribed(d, t)'
        BY <1>a, <2>1, <3>1, <4>2 DEF OwnerInvAt, TagsBelow, LoopShape, UsedIsSubscribed
      <4> QED BY <1>b, <2>1, <3>1, <4>2, <4>3, <4>4
    <3> QED BY <2>5, <3>2, <3>3 DEF HandleRouteChannelEnd, Unregister
  <2> QED BY <1>10, <2>3, <2>4, <2>5 DEF ClientReceive, m
<1>11. CASE ClientLosesPipe(c)
  <2>1. /\ UNCHANGED <<nextTag, cLive, cSub, cSeq, cEvents, held>>
        /\ loop[c] = "none"
    BY <1>11 DEF ClientLosesPipe, Idle
  <2>2. CASE UNCHANGED <<cReg, loop, todo>>
    BY <1>c, <2>1, <2>2
  <2>3. CASE /\ cReg' = [cReg EXCEPT ![c] = {}]
             /\ loop' = [loop EXCEPT ![c] = "completed"]
             /\ todo' = [todo EXCEPT ![c] = cReg[c]]
    <3>1. CASE d # c
      <4>1. UNCHANGED <<cReg[d], loop[d], todo[d]>>
        BY <1>t, <2>3, <3>1 DEF ClientTypeOK
      <4> QED BY <1>a, <2>1, <4>1
          DEF OwnerInvAt, TagsBelow, LoopShape, ClientEnds, UsedIsSubscribed
    <3>2. CASE d = c
      <4>1. cReg'[d] = {} /\ loop'[d] = "completed" /\ todo'[d] = cReg[d]
        BY <1>t, <2>3, <3>2 DEF ClientTypeOK
      <4> QED BY <1>a, <2>1, <3>2, <4>1
          DEF OwnerInvAt, TagsBelow, LoopShape, ClientEnds, UsedIsSubscribed
    <3> QED BY <3>1, <3>2
  <2> QED BY <1>11, <2>2, <2>3 DEF ClientLosesPipe, RegAfterLoss, ToComplete
<1>12. ASSUME NEW u \in Tags, ClientNotify(c, u) PROVE OwnerInvAt(d, t)'
  <2>1. /\ UNCHANGED <<nextTag, cReg, cLive, cSub, cSeq, loop, held>>
        /\ todo' = [todo EXCEPT ![c] = @ \ {u}]
        /\ u \in todo[c]
    BY <1>12 DEF ClientNotify
  <2>2. todo'[d] = IF d = c THEN todo[d] \ {u} ELSE todo[d]
    BY <1>t, <2>1 DEF ClientTypeOK
  <2>3. LoopEvent(c) \in Event /\ LateEvent \in Event
    BY EventsAreEvents DEF LoopEvent, ErrorCodes
  <2>4. LateEvent.kind # "completed" /\ (LoopEvent(c).kind = "completed" => loop[c] # "connected")
    BY DEF LateEvent, LoopEvent, Connected
  <2>5. OwnerTold(d, t)
    <3>1. cEvents' = cEvents \/ cEvents' = GatewayEvent(c, u, LoopEvent(c))
      BY <1>12 DEF ClientNotify
    <3>2. \/ cEvents'[d][t] = cEvents[d][t]
          \/ /\ d = c /\ t = u
             /\ \/ cEvents'[d][t] = Append(cEvents[d][t], LoopEvent(c))
                \/ cEvents'[d][t] = Append(cEvents[d][t], LateEvent)
      <4>1. GatewayEvent(c, u, LoopEvent(c))[d][t] =
              IF d = c /\ t = u /\ u \in cSub[c]
                THEN Append(cEvents[d][t], IF u \in cLive[c] THEN LoopEvent(c) ELSE LateEvent)
                ELSE cEvents[d][t]
        BY <1>t, <2>3, GatewayEventAt
      <4> QED BY <3>1, <4>1
    <3>3. d = c /\ t = u => /\ t \in todo[d] /\ t \notin todo'[d]
                            /\ loop[c] # "connected" => t \notin cReg'[d]
      BY <1>a, <1>t, <2>1, <2>2 DEF OwnerInvAt, LoopShape, ClientTypeOK
    <3> QED BY <2>3, <2>4, <3>2, <3>3 DEF OwnerTold, Told
  <2>6. TagsBelow(d, t)' /\ LoopShape(d, t)' /\ UsedIsSubscribed(d, t)'
    BY <1>a, <2>1, <2>2 DEF OwnerInvAt, TagsBelow, LoopShape, UsedIsSubscribed
  <2> QED BY <1>b, <2>1, <2>2, <2>5, <2>6
<1>13. CASE ClientLoopEnd(c)
  <2>1. /\ UNCHANGED <<nextTag, cReg, cLive, cSub, cSeq, cEvents, todo>>
        /\ todo[c] = {}
        /\ loop' = [loop EXCEPT ![c] = "none"] /\ held' = [held EXCEPT ![c] = {}]
    BY <1>13 DEF ClientLoopEnd
  <2>2. (loop'[d] = loop[d] /\ held'[d] = held[d]) \/ (d = c /\ held'[d] = {})
    BY <1>t, <2>1 DEF ClientTypeOK
  <2> QED BY <1>a, <2>1, <2>2
      DEF OwnerInvAt, TagsBelow, LoopShape, ClientEnds, UsedIsSubscribed
<1> QED
  BY <1>1, <1>2, <1>3, <1>4, <1>5, <1>7, <1>8, <1>9, <1>10, <1>11, <1>12, <1>13
  DEF ClientStep, ClientApp, ClientExecutor

(* OwnerInv holds in every reachable state. *)
LEMMA OwnerInvariant == Spec => []OwnerInv
<1>1. Init => OwnerInv
  <2> SUFFICES ASSUME Init, NEW c \in Clients, NEW t \in Tags PROVE OwnerInvAt(c, t)
    BY DEF OwnerInv
  <2>1. /\ cReg[c] = {} /\ todo[c] = {} /\ cLive[c] = {} /\ cSub[c] = {} /\ held[c] = {}
        /\ cEvents[c][t] = <<>> /\ cSeq[c][t] = 0
    BY DEF Init, ClientInit
  <2>2. Len(<<>>) = 0
    OBVIOUS
  <2> QED BY <2>1, <2>2
      DEF OwnerInvAt, TagsBelow, LoopShape, ClientEnds, UsedIsSubscribed, IsFinal, Completes
<1>2. TypeOK /\ OwnerInv /\ [Next]_vars => OwnerInv'
  <2> SUFFICES ASSUME TypeOK, OwnerInv, [Next]_vars, NEW d \in Clients, NEW t \in Tags
               PROVE  OwnerInvAt(d, t)'
    BY DEF OwnerInv
  <2>1. ASSUME UNCHANGED clientVars PROVE OwnerInvAt(d, t)'
    BY <2>1
    DEF clientVars, OwnerInv, OwnerInvAt, TagsBelow, LoopShape, ClientEnds, UsedIsSubscribed
  <2> QED BY <2>1, ClientStepOwner DEF Next, vars
<1> QED BY <1>1, <1>2, TypeCorrect, PTL DEF Spec

(* Completed is the last event of a channel, at the client and at the      *)
(* service, for any race of ChannelEnd, disposal and loss of the pipe and  *)
(* also when handlers make and destroy channels inside the loops over the  *)
(* gateways (handleRouteChannelEnd, handlePipeEvent of both routers).      *)
THEOREM NothingFollowsCompleted == Spec => []CompletedIsFinal
<1>1. OwnerInv /\ RequestInv => CompletedIsFinal
  BY DEF OwnerInv, OwnerInvAt, ClientEnds, RequestInv, RequestInvAt, ServiceEnds, CompletedIsFinal
<1> QED BY <1>1, OwnerInvariant, RequestInvariant, PTL

-----------------------------------------------------------------------------
(* Whether a step tells channel t of client c something although the       *)
(* channel was destroyed.                                                  *)
ToldLate(c, t) ==
  /\ cEvents'[c][t] # cEvents[c][t]
  /\ cEvents'[c][t][Len(cEvents'[c][t])].kind = "late"

(* The last event after an append. *)
LEMMA LastOfAppend ==
  ASSUME NEW s \in Seq(Event), NEW e \in Event
  PROVE  Append(s, e)[Len(Append(s, e))] = e
BY AppendIsMore

(* Only the loop that announces Connected reaches a destroyed channel. *)
LEMMA ClientStepLate ==
  ASSUME TypeOK, OwnerInv, NEW c \in Clients, ClientStep(c),
         NEW d \in Clients, NEW t \in Tags, ToldLate(d, t)
  PROVE  loop[d] = "connected"
<1>t. ClientTypeOK /\ cEvents[d][t] \in Seq(Event)
  BY DEF TypeOK, ClientTypeOK
<1>a. \A u \in Tags : loop[c] # "connected" /\ GatewayExists(c, u) => u \in cLive[c]
  BY DEF OwnerInv, OwnerInvAt, LoopShape, GatewayExists
<1>b. ASSUME UNCHANGED cEvents PROVE FALSE
  BY <1>b DEF ToldLate
<1>c. ASSUME NEW e \in Event, e.kind # "late", NEW u \in Tags, GatewayExists(c, u),
             loop[c] # "connected", cEvents' = GatewayEvent(c, u, e)
      PROVE  FALSE
  <2>1. GatewayEvent(c, u, e)[d][t] =
          IF d = c /\ t = u /\ u \in cSub[c]
            THEN Append(cEvents[d][t], IF u \in cLive[c] THEN e ELSE LateEvent)
            ELSE cEvents[d][t]
    BY <1>t, GatewayEventAt
  <2>2. cEvents'[d][t] = cEvents[d][t] \/ cEvents'[d][t] = Append(cEvents[d][t], e)
    BY <1>a, <1>c, <2>1
  <2> QED BY <1>c, <1>t, <2>2, LastOfAppend DEF ToldLate
<1>1. ASSUME NEW u \in Tags, ClientSubscribe(c, u) PROVE FALSE
  <2>1. Connected \in Event /\ Connected.kind # "late"
    BY EventsAreEvents DEF Connected
  <2>2. cEvents' = cEvents \/ cEvents' = [cEvents EXCEPT ![c][u] = Append(@, Connected)]
    BY <1>1 DEF ClientSubscribe
  <2>3. cEvents'[d][t] = cEvents[d][t] \/ cEvents'[d][t] = Append(cEvents[d][t], Connected)
    <3>1. CASE cEvents' = [cEvents EXCEPT ![c][u] = Append(@, Connected)]
      <4>1. cEvents'[d][t] = IF d = c /\ t = u THEN Append(cEvents[d][t], Connected)
                                              ELSE cEvents[d][t]
        BY <1>t, <3>1 DEF ClientTypeOK
      <4> QED BY <4>1
    <3> QED BY <2>2, <3>1
  <2> QED BY <1>t, <2>1, <2>3, LastOfAppend DEF ToldLate
<1>2. CASE ClientReceive(c)
  <2> DEFINE m == Head(s2c[c])
  <2>1. loop[c] # "connected" /\ m \in Route
    BY <1>2 DEF ClientReceive, Idle, TypeOK, PipeTypeOK
  <2>2. m.tag \in Tags /\ m.seq \in Nat /\ m.err \in ErrorCodes
    BY <2>1 DEF Route
  <2> HIDE DEF m
  <2>3. /\ Message(m.seq) \in Event /\ Message(m.seq).kind # "late"
        /\ Completed(m.err) \in Event /\ Completed(m.err).kind # "late"
    BY <2>2, EventsAreEvents DEF Message, Completed
  <2>4. CASE HandleRouteConnect(c)
    BY <1>b, <2>4 DEF HandleRouteConnect
  <2>5. CASE HandleRouteChannelMsg(c, m)
    BY <1>b, <1>c, <2>1, <2>2, <2>3, <2>5 DEF HandleRouteChannelMsg
  <2>6. CASE HandleRouteChannelEnd(c, m)
    BY <1>b, <1>c, <2>1, <2>2, <2>3, <2>6 DEF HandleRouteChannelEnd
  <2> QED BY <1>2, <2>4, <2>5, <2>6 DEF ClientReceive, m
<1>3. ASSUME NEW u \in Tags, ClientNotify(c, u) PROVE loop[d] = "connected"
  <2>1. LoopEvent(c) \in Event /\ LoopEvent(c).kind # "late"
    <3>1. LoopEvent(c) = Connected \/ LoopEvent(c) = Completed("Disconnected")
      BY DEF LoopEvent
    <3>2. Connected.kind = "connected" /\ Completed("Disconnected").kind = "completed"
      BY DEF Connected, Completed
    <3> QED BY <3>1, <3>2, EventsAreEvents DEF ErrorCodes
  <2>2. GatewayExists(c, u) /\ cEvents' = GatewayEvent(c, u, LoopEvent(c))
    BY <1>b, <1>3 DEF ClientNotify
  <2>3. loop[c] = "connected"
    BY <1>c, <2>1, <2>2
  <2>4. d = c
    <3>1. d # c => GatewayEvent(c, u, LoopEvent(c))[d][t] = cEvents[d][t]
      BY <1>t, <2>1, GatewayEventAt
    <3> QED BY <2>2, <3>1 DEF ToldLate
  <2> QED BY <2>3, <2>4
<1>4. CASE ClientStart(c)
  BY <1>b, <1>4 DEF ClientStart, clientVars
<1>5. CASE ClientHandleConnect(c)
  BY <1>b, <1>5 DEF ClientHandleConnect, SendRouteConnect, clientVars
<1>6. CASE ClientMakeGateway(c)
  BY <1>b, <1>6 DEF ClientMakeGateway
<1>7. ASSUME NEW u \in Tags, ClientSend(c, u) \/ ClientDisposeHeld(c, u) PROVE FALSE
  BY <1>b, <1>7 DEF ClientSend, ClientDisposeHeld
<1>8. ASSUME NEW u \in Tags, NEW e \in AppCodes,
             ClientDispose(c, u, e) \/ ClientReleaseOrphan(c, u, e)
      PROVE  FALSE
  BY <1>b, <1>8 DEF ClientDispose, ClientReleaseOrphan
<1>9. CASE ClientLosesPipe(c)
  BY <1>b, <1>9 DEF ClientLosesPipe
<1>10. CASE ClientLoopEnd(c)
  BY <1>b, <1>10 DEF ClientLoopEnd
<1> QED
  BY <1>1, <1>2, <1>3, <1>4, <1>5, <1>6, <1>7, <1>8, <1>9, <1>10
  DEF ClientStep, ClientApp, ClientExecutor

(* No message and no Completed reaches the handler of a destroyed channel; *)
(* only the announcement of Connected may, from the loop that holds strong *)
(* pointers to the gateways (forEachRegisteredGateway).                    *)
THEOREM LateEventsAreConnected == Spec => OnlyConnectedComesLate
<1>1. ASSUME TypeOK, OwnerInv, [Next]_vars, NEW d \in Clients, NEW t \in Tags, ToldLate(d, t)
      PROVE  loop[d] = "connected"
  <2>1. ASSUME UNCHANGED clientVars PROVE FALSE
    BY <1>1, <2>1 DEF clientVars, ToldLate
  <2> QED BY <1>1, <2>1, ClientStepLate DEF Next, vars
<1>2. TypeOK /\ OwnerInv /\ [Next]_vars =>
        [\A c \in Clients, t \in Tags :
           LET got == cEvents'[c][t] IN
           got # cEvents[c][t] /\ got[Len(got)].kind = "late" => loop[c] = "connected"]_vars
  BY <1>1 DEF ToldLate
<1> QED BY <1>2, TypeCorrect, OwnerInvariant, PTL DEF Spec, OnlyConnectedComesLate

-----------------------------------------------------------------------------
(* Why no response is left out, late or behind the end of its channel: as  *)
(* long as a channel is registered, every response written is at the owner *)
(* or queued, in the order of their numbers; and once the end is on its    *)
(* way the service has no channel to write to and will not be given one.   *)
IsEnd(r, t) == r.kind = "end" /\ r.tag = t
Concerns(r, t) == IsMsg(r, t) \/ IsEnd(r, t)

Written(sent, n) == \E k \in 1 .. Len(sent) : sent[k] = n
HasQueued(q, t, n) == \E i \in 1 .. Len(q) : IsMsg(q[i], t) /\ q[i].seq = n
HasMessage(s, n) == \E i \in 1 .. Len(s) : s[i] = Message(n)
EndsLast(q, t) ==
  \A i, j \in 1 .. Len(q) : IsEnd(q[i], t) /\ IsMsg(q[j], t) => j < i
DeliveredInOrder(s, sent) ==
  \A i \in 1 .. Len(s) : s[i].kind = "message" =>
    \E k \in 1 .. Len(sent) :
      /\ sent[k] = s[i].seq
      /\ \A l \in 1 .. k - 1 : \E h \in 1 .. i - 1 : s[h] = Message(sent[l])
AllReceived(s, sent) == \A k \in 1 .. Len(sent) : HasMessage(s, sent[k])

Over(c, t) == t \notin sReg[c] /\ NoFirst(c2s[c], t) /\ cSeq[c][t] > 0

Underway(c, t) ==
  /\ QueueIncreases(s2c[c], t)
  /\ SeenBefore(cEvents[c][t], s2c[c], t)
  /\ \A n \in Nat : HasQueued(s2c[c], t, n) => Written(sSent[c][t], n)
  /\ \A i \in 1 .. Len(s2c[c]) : Concerns(s2c[c][i], t) => cSeq[c][t] > 0
WrittenInOrder(c, t) ==
  /\ \A k, l \in 1 .. Len(sSent[c][t]) : k < l => sSent[c][t][k] < sSent[c][t][l]
  /\ \A k \in 1 .. Len(sSent[c][t]) : sSent[c][t][k] < sSeq[c][t]
  /\ opened[c][t] = 0 => sSent[c][t] = <<>>
ReadInOrder(c, t) ==
  /\ MessagesIncrease(cEvents[c][t])
  /\ DeliveredInOrder(cEvents[c][t], sSent[c][t])
NoneLost(c, t) ==
  t \in cReg[c] /\ sock[c] # "closed" =>
    \A k \in 1 .. Len(sSent[c][t]) :
      HasMessage(cEvents[c][t], sSent[c][t][k]) \/ HasQueued(s2c[c], t, sSent[c][t][k])
EndIsLast(c, t) ==
  /\ EndsLast(s2c[c], t)
  /\ \A i \in 1 .. Len(s2c[c]) : IsEnd(s2c[c][i], t) => Over(c, t)
  /\ EndedBy(cEvents[c][t], AppCodes) => Over(c, t) /\ AllReceived(cEvents[c][t], sSent[c][t])
ResponseInvAt(c, t) ==
  /\ Underway(c, t) /\ WrittenInOrder(c, t) /\ ReadInOrder(c, t)
  /\ NoneLost(c, t) /\ EndIsLast(c, t)
ResponseInv == \A c \in Clients, t \in Tags : ResponseInvAt(c, t)

(* Reading a frame of a queue. *)
LEMMA TailOfQueue ==
  ASSUME NEW q \in Seq(Route), q # <<>>, NEW t \in Tags
  PROVE  /\ EndsLast(q, t) => EndsLast(Tail(q), t)
         /\ EndsLast(q, t) /\ IsEnd(Head(q), t) => \A n : ~HasQueued(Tail(q), t, n)
         /\ \A n : HasQueued(Tail(q), t, n) => HasQueued(q, t, n)
         /\ \A n : HasQueued(q, t, n) =>
              HasQueued(Tail(q), t, n) \/ (IsMsg(Head(q), t) /\ Head(q).seq = n)
         /\ IsMsg(Head(q), t) => HasQueued(q, t, Head(q).seq)
<1>1. /\ Head(q) = q[1] /\ 1 \in 1 .. Len(q) /\ Len(q) \in Nat
      /\ Len(Tail(q)) = Len(q) - 1
      /\ \A i \in 1 .. Len(Tail(q)) : i + 1 \in 1 .. Len(q) /\ Tail(q)[i] = q[i + 1]
  BY TailIsRest
<1>2. EndsLast(q, t) => EndsLast(Tail(q), t)
  <2> SUFFICES ASSUME EndsLast(q, t), NEW i \in 1 .. Len(Tail(q)), NEW j \in 1 .. Len(Tail(q)),
                      IsEnd(Tail(q)[i], t), IsMsg(Tail(q)[j], t)
               PROVE  j < i
    BY DEF EndsLast
  <2>1. /\ i + 1 \in 1 .. Len(q) /\ j + 1 \in 1 .. Len(q)
        /\ IsEnd(q[i + 1], t) /\ IsMsg(q[j + 1], t)
    BY <1>1
  <2>2. j + 1 < i + 1
    BY <2>1 DEF EndsLast
  <2> QED BY <2>2
<1>3. ASSUME EndsLast(q, t), IsEnd(Head(q), t), NEW n, HasQueued(Tail(q), t, n) PROVE FALSE
  <2>1. PICK i \in 1 .. Len(Tail(q)) : IsMsg(Tail(q)[i], t)
    BY <1>3 DEF HasQueued
  <2>2. i + 1 \in 1 .. Len(q) /\ IsMsg(q[i + 1], t)
    BY <1>1, <2>1
  <2>3. i + 1 < 1
    BY <1>1, <1>3, <2>2 DEF EndsLast
  <2> QED BY <2>3
<1>4. \A n : HasQueued(Tail(q), t, n) => HasQueued(q, t, n)
  BY <1>1 DEF HasQueued
<1>5. ASSUME NEW n, HasQueued(q, t, n)
      PROVE  HasQueued(Tail(q), t, n) \/ (IsMsg(Head(q), t) /\ Head(q).seq = n)
  <2>1. PICK i \in 1 .. Len(q) : IsMsg(q[i], t) /\ q[i].seq = n
    BY <1>5 DEF HasQueued
  <2>2. CASE i = 1
    BY <1>1, <2>1, <2>2
  <2>3. CASE i # 1
    <3>1. i - 1 \in 1 .. Len(Tail(q)) /\ (i - 1) + 1 = i
      BY <1>1, <2>3
    <3>2. Tail(q)[i - 1] = q[i]
      BY <1>1, <3>1
    <3> QED BY <2>1, <3>1, <3>2 DEF HasQueued
  <2> QED BY <2>2, <2>3
<1>6. IsMsg(Head(q), t) => HasQueued(q, t, Head(q).seq)
  BY <1>1 DEF HasQueued
<1> QED BY <1>2, <1>3, <1>4, <1>5, <1>6

(* Writing a frame to a queue. *)
LEMMA AppendToQueue ==
  ASSUME NEW q \in Seq(Route), NEW r \in Route, NEW t \in Tags
  PROVE  /\ EndsLast(q, t) /\ (IsMsg(r, t) => \A i \in 1 .. Len(q) : ~IsEnd(q[i], t))
              => EndsLast(Append(q, r), t)
         /\ \A n : HasQueued(q, t, n) => HasQueued(Append(q, r), t, n)
         /\ \A n : HasQueued(Append(q, r), t, n) =>
              HasQueued(q, t, n) \/ (IsMsg(r, t) /\ r.seq = n)
         /\ IsMsg(r, t) => HasQueued(Append(q, r), t, r.seq)
<1> DEFINE p == Append(q, r)
<1>1. /\ Len(q) \in Nat /\ Len(p) = Len(q) + 1
      /\ \A i \in 1 .. Len(q) : i \in 1 .. Len(p) /\ p[i] = q[i]
      /\ p[Len(q) + 1] = r
      /\ \A i \in 1 .. Len(p) : i \in 1 .. Len(q) \/ i = Len(q) + 1
      /\ Len(q) + 1 \in 1 .. Len(p)
  BY AppendIsMore
<1> HIDE DEF p
<1>2. ASSUME EndsLast(q, t), IsMsg(r, t) => \A i \in 1 .. Len(q) : ~IsEnd(q[i], t)
      PROVE  EndsLast(p, t)
  <2> SUFFICES ASSUME NEW i \in 1 .. Len(p), NEW j \in 1 .. Len(p), IsEnd(p[i], t), IsMsg(p[j], t)
               PROVE  j < i
    BY DEF EndsLast
  <2>1. ~(IsEnd(r, t) /\ IsMsg(r, t))
    BY DEF IsEnd, IsMsg
  <2>2. CASE i \in 1 .. Len(q) /\ j \in 1 .. Len(q)
    BY <1>1, <1>2, <2>2 DEF EndsLast
  <2>3. CASE i = Len(q) + 1 /\ j \in 1 .. Len(q)
    BY <1>1, <2>3
  <2>4. CASE i \in 1 .. Len(q) /\ j = Len(q) + 1
    BY <1>1, <1>2, <2>4
  <2>5. CASE i = Len(q) + 1 /\ j = Len(q) + 1
    BY <1>1, <2>1, <2>5
  <2> QED BY <1>1, <2>2, <2>3, <2>4, <2>5
<1>3. \A n : HasQueued(q, t, n) => HasQueued(p, t, n)
  BY <1>1 DEF HasQueued
<1>4. \A n : HasQueued(p, t, n) => HasQueued(q, t, n) \/ (IsMsg(r, t) /\ r.seq = n)
  BY <1>1 DEF HasQueued
<1>5. IsMsg(r, t) => HasQueued(p, t, r.seq)
  BY <1>1 DEF HasQueued
<1> QED BY <1>2, <1>3, <1>4, <1>5 DEF p

(* One more event for the owner keeps what was delivered. *)
LEMMA EventKeepsDelivered ==
  ASSUME NEW s \in Seq(Event), NEW e \in Event, NEW sent \in Seq(Nat), DeliveredInOrder(s, sent),
         e.kind = "message" =>
           \E k \in 1 .. Len(sent) : /\ sent[k] = e.seq
                                     /\ \A l \in 1 .. k - 1 : HasMessage(s, sent[l])
  PROVE  /\ DeliveredInOrder(Append(s, e), sent)
         /\ \A n : HasMessage(s, n) => HasMessage(Append(s, e), n)
         /\ HasMessage(Append(s, Message(e.seq)), e.seq)
<1> DEFINE p == Append(s, e)
<1>1. /\ Len(s) \in Nat /\ Len(p) = Len(s) + 1
      /\ \A i \in 1 .. Len(s) : i \in 1 .. Len(p) /\ p[i] = s[i]
      /\ p[Len(s) + 1] = e
      /\ \A i \in 1 .. Len(p) : i \in 1 .. Len(s) \/ i = Len(s) + 1
  BY AppendIsMore
<1> HIDE DEF p
<1>2. \A n : HasMessage(s, n) => HasMessage(p, n)
  BY <1>1 DEF HasMessage
<1>3. DeliveredInOrder(p, sent)
  <2> SUFFICES ASSUME NEW i \in 1 .. Len(p), p[i].kind = "message"
               PROVE  \E k \in 1 .. Len(sent) :
                        /\ sent[k] = p[i].seq
                        /\ \A l \in 1 .. k - 1 : \E h \in 1 .. i - 1 : p[h] = Message(sent[l])
    BY DEF DeliveredInOrder
  <2>1. CASE i \in 1 .. Len(s)
    <3>1. PICK k \in 1 .. Len(sent) :
            /\ sent[k] = s[i].seq
            /\ \A l \in 1 .. k - 1 : \E h \in 1 .. i - 1 : s[h] = Message(sent[l])
      BY <1>1, <2>1 DEF DeliveredInOrder
    <3>2. \A h \in 1 .. i - 1 : p[h] = s[h]
      <4>1. \A h \in 1 .. i - 1 : h \in 1 .. Len(s)
        BY <1>1, <2>1
      <4> QED BY <1>1, <4>1
    <3> QED BY <1>1, <2>1, <3>1, <3>2
  <2>2. CASE i = Len(s) + 1
    <3>1. PICK k \in 1 .. Len(sent) :
            sent[k] = e.seq /\ \A l \in 1 .. k - 1 : HasMessage(s, sent[l])
      BY <1>1, <2>2
    <3>2. \A l \in 1 .. k - 1 : \E h \in 1 .. i - 1 : p[h] = Message(sent[l])
      <4>1. i - 1 = Len(s)
        BY <1>1, <2>2
      <4> QED BY <1>1, <3>1, <4>1 DEF HasMessage
    <3> QED BY <1>1, <2>2, <3>1, <3>2
  <2> QED BY <1>1, <2>1, <2>2
<1>4. HasMessage(Append(s, Message(e.seq)), e.seq)
  <2>1. e.seq \in Nat
    BY DEF Event
  <2>2. Message(e.seq) \in Event
    BY <2>1, EventsAreEvents
  <2>3. /\ Len(s) + 1 \in 1 .. Len(Append(s, Message(e.seq)))
        /\ Append(s, Message(e.seq))[Len(s) + 1] = Message(e.seq)
    BY <1>1, <2>2, AppendIsMore
  <2> QED BY <2>3 DEF HasMessage
<1> QED BY <1>2, <1>3, <1>4 DEF p

(* One more response written keeps what was delivered. *)
LEMMA WriteKeepsDelivered ==
  ASSUME NEW s \in Seq(Event), NEW sent \in Seq(Nat), NEW n \in Nat, DeliveredInOrder(s, sent),
         \A k, l \in 1 .. Len(sent) : k < l => sent[k] < sent[l],
         \A k \in 1 .. Len(sent) : sent[k] < n
  PROVE  LET new == Append(sent, n) IN
         /\ DeliveredInOrder(s, new)
         /\ \A m : Written(sent, m) => Written(new, m)
         /\ Written(new, n)
         /\ \A k, l \in 1 .. Len(new) : k < l => new[k] < new[l]
         /\ \A k \in 1 .. Len(new) : new[k] < n + 1
         /\ \A k \in 1 .. Len(new) : (k \in 1 .. Len(sent) /\ new[k] = sent[k]) \/ new[k] = n
<1> DEFINE new == Append(sent, n)
<1>1. /\ Len(sent) \in Nat /\ Len(new) = Len(sent) + 1
      /\ \A i \in 1 .. Len(sent) : i \in 1 .. Len(new) /\ new[i] = sent[i]
      /\ new[Len(sent) + 1] = n
      /\ \A i \in 1 .. Len(new) : i \in 1 .. Len(sent) \/ i = Len(sent) + 1
      /\ Len(sent) + 1 \in 1 .. Len(new)
  BY AppendIsMore
<1>2. \A k \in 1 .. Len(sent) : sent[k] \in Nat
  OBVIOUS
<1> HIDE DEF new
<1>3. DeliveredInOrder(s, new)
  <2> SUFFICES ASSUME NEW i \in 1 .. Len(s), s[i].kind = "message"
               PROVE  \E k \in 1 .. Len(new) :
                        /\ new[k] = s[i].seq
                        /\ \A l \in 1 .. k - 1 : \E h \in 1 .. i - 1 : s[h] = Message(new[l])
    BY DEF DeliveredInOrder
  <2>1. PICK k \in 1 .. Len(sent) :
          /\ sent[k] = s[i].seq
          /\ \A l \in 1 .. k - 1 : \E h \in 1 .. i - 1 : s[h] = Message(sent[l])
    BY DEF DeliveredInOrder
  <2>2. \A l \in 1 .. k - 1 : new[l] = sent[l]
    BY <1>1
  <2> QED BY <1>1, <2>1, <2>2
<1>4. \A m : Written(sent, m) => Written(new, m)
  BY <1>1 DEF Written
<1>5. Written(new, n)
  BY <1>1 DEF Written
<1>6. ASSUME NEW k \in 1 .. Len(new), NEW l \in 1 .. Len(new), k < l PROVE new[k] < new[l]
  <2>1. k \in 1 .. Len(sent)
    BY <1>1, <1>6
  <2>2. CASE l \in 1 .. Len(sent)
    BY <1>1, <1>6, <2>1, <2>2
  <2>3. CASE l = Len(sent) + 1
    BY <1>1, <2>1, <2>3
  <2> QED BY <1>1, <2>2, <2>3
<1>7. \A k \in 1 .. Len(new) : new[k] < n + 1
  BY <1>1, <1>2
<1>8. \A k \in 1 .. Len(new) : (k \in 1 .. Len(sent) /\ new[k] = sent[k]) \/ new[k] = n
  BY <1>1
<1> QED BY <1>3, <1>4, <1>5, <1>6, <1>7, <1>8 DEF new

-----------------------------------------------------------------------------
(* What a step can do to the responses of channel t of client c. *)
Quiet(e) == e.kind # "message" /\ (e.kind = "completed" => e.err \notin AppCodes)
QuietlyTold(c, t, e) ==
  /\ Quiet(e) /\ cEvents'[c][t] = Append(cEvents[c][t], e)
  /\ t \in cReg[c] \cup todo[c]
  /\ e.kind = "completed" => t \in cLive[c]
Read(c) == s2c[c] # <<>> /\ s2c'[c] = Tail(s2c[c])
OwnerSame(c, t) ==
  /\ cEvents'[c][t] = cEvents[c][t]
  /\ t \in cReg'[c] => t \in cReg[c]
  /\ sock'[c] = sock[c]

NoResponseStep(c, t) ==
  /\ sSent'[c][t] = sSent[c][t]
  /\ sSeq'[c][t] \in {sSeq[c][t], sSeq[c][t] + 1} \/ opened[c][t] = 0
  /\ \/ cEvents'[c][t] = cEvents[c][t]
     \/ \E e \in Event : QuietlyTold(c, t, e)
  /\ t \in cReg'[c] => t \in cReg[c] \/ t = nextTag[c]
  /\ sock[c] = "closed" => sock'[c] = "closed"
  /\ \/ s2c'[c] = s2c[c]
     \/ s2c'[c] = <<>> /\ sock'[c] = "closed"
     \/ Read(c) /\ (t \in cReg[c] => ~Concerns(Head(s2c[c]), t))
     \/ \E r \in Route : ~Concerns(r, t) /\ s2c'[c] = Append(s2c[c], r)
ResponseWritten(c, t) ==
  /\ t \in sReg[c]
  /\ sSent'[c][t] = Append(sSent[c][t], sSeq[c][t])
  /\ sSeq'[c][t] = sSeq[c][t] + 1
  /\ s2c'[c] = Append(s2c[c], RouteChannelMsg(t, sSeq[c][t]))
  /\ OwnerSame(c, t)
EndWritten(c, t) ==
  /\ \E e \in AppCodes : s2c'[c] = Append(s2c[c], RouteChannelEnd(t, e))
  /\ Over(c, t)'
  /\ UNCHANGED <<sSent[c][t], sSeq[c][t]>>
  /\ OwnerSame(c, t)
ResponseDelivered(c, t) ==
  /\ Read(c) /\ IsMsg(Head(s2c[c]), t)
  /\ t \in cReg[c] /\ t \in cLive[c] /\ sock[c] = "open"
  /\ cEvents'[c][t] = Append(cEvents[c][t], Message(Head(s2c[c]).seq))
  /\ UNCHANGED <<sSent[c][t], sSeq[c][t], sock[c]>>
EndDelivered(c, t) ==
  /\ Read(c) /\ IsEnd(Head(s2c[c]), t)
  /\ t \in cReg[c] /\ t \in cLive[c] /\ t \notin cReg'[c] /\ sock[c] = "open"
  /\ cEvents'[c][t] = Append(cEvents[c][t], Completed(Head(s2c[c]).err))
  /\ UNCHANGED <<sSent[c][t], sSeq[c][t], sock[c]>>
ResponseStep(c, t) ==
  \/ NoResponseStep(c, t) \/ ResponseWritten(c, t) \/ EndWritten(c, t)
  \/ ResponseDelivered(c, t) \/ EndDelivered(c, t)

(* A step of the daemon does one of these. *)
LEMMA ServerResponseStep ==
  ASSUME TypeOK, OpenInv, RequestInv, NEW c \in Clients, ServerStep(c), UNCHANGED clientVars,
         NEW d \in Clients, NEW t \in Tags
  PROVE  ResponseStep(d, t)
<1>a. UNCHANGED <<cEvents, cReg, cSeq>>
  BY DEF clientVars
<1>s. s2c[d] \in Seq(Route) /\ s2c[c] \in Seq(Route) /\ c2s[c] \in Seq(Route)
  BY DEF TypeOK, PipeTypeOK
(* Frames of other channels, and none. *)
<1>b. ASSUME sock' = sock, sSent' = sSent,
             sSeq'[d][t] \in {sSeq[d][t], sSeq[d][t] + 1} \/ opened[d][t] = 0,
             NEW r \in Route, ~Concerns(r, t) \/ d # c,
             s2c' = s2c \/ s2c' = [s2c EXCEPT ![c] = Append(@, r)]
      PROVE  ResponseStep(d, t)
  <2>1. s2c'[d] = s2c[d] \/ (~Concerns(r, t) /\ s2c'[d] = Append(s2c[d], r))
    BY <1>b DEF TypeOK, PipeTypeOK
  <2> QED BY <1>a, <1>b, <2>1 DEF ResponseStep, NoResponseStep
(* The end of channel u. *)
<1>c. ASSUME sock' = sock, sSent' = sSent, sSeq' = sSeq, NEW u \in Tags, NEW e \in AppCodes,
             Over(c, u)',
             s2c' = s2c \/ s2c' = [s2c EXCEPT ![c] = Append(@, RouteChannelEnd(u, e))]
      PROVE  ResponseStep(d, t)
  <2>1. RouteChannelEnd(u, e) \in Route /\ (t # u => ~Concerns(RouteChannelEnd(u, e), t))
    BY RoutesAreRoutes DEF Concerns, IsMsg, IsEnd, RouteChannelEnd
  <2>2. CASE ~(d = c /\ t = u) \/ s2c' = s2c
    <3>1. s2c'[d] = s2c[d] \/ (~Concerns(RouteChannelEnd(u, e), t)
                               /\ s2c'[d] = Append(s2c[d], RouteChannelEnd(u, e)))
      BY <1>c, <2>1, <2>2 DEF TypeOK, PipeTypeOK
    <3> QED BY <1>a, <1>c, <2>1, <3>1 DEF ResponseStep, NoResponseStep
  <2>3. CASE d = c /\ t = u /\ s2c' = [s2c EXCEPT ![c] = Append(@, RouteChannelEnd(u, e))]
    <3>1. s2c'[d] = Append(s2c[d], RouteChannelEnd(t, e))
      BY <2>3 DEF TypeOK, PipeTypeOK
    <3> QED BY <1>a, <1>c, <2>3, <3>1 DEF ResponseStep, EndWritten, OwnerSame
  <2> QED BY <1>c, <2>2, <2>3
<1>d. RouteConnect \in Route /\ ~Concerns(RouteConnect, t)
  BY RoutesAreRoutes DEF Concerns, IsMsg, IsEnd, RouteConnect
<1>1. CASE ServerAccept(c)
  BY <1>b, <1>d, <1>1 DEF ServerAccept, serverVars
<1>2. CASE ServerReceive(c)
  <2> DEFINE m == Head(c2s[c])
  <2>1. c2s[c] # <<>> /\ m \in Route /\ sock' = sock
    BY <1>2, <1>s DEF ServerReceive
  <2>2. m.tag \in Tags
    BY <2>1 DEF Route
  <2> HIDE DEF m
  <2>3. CASE ServerHandleRouteConnect(c)
    <3>1. /\ s2c' = s2c \/ s2c' = [s2c EXCEPT ![c] = Append(@, RouteConnect)]
          /\ UNCHANGED <<sSent, sSeq>>
      BY <2>3 DEF ServerHandleRouteConnect, ServerPipeSend
    <3> QED BY <1>b, <1>d, <2>1, <3>1
  <2>4. CASE ServerHandleRouteChannelMsg(c, m) /\ m.kind = "msg"
    <3>1. sSent' = sSent /\ c2s' = [c2s EXCEPT ![c] = Tail(@)]
      BY <2>4 DEF ServerHandleRouteChannelMsg
    <3>2. CASE UNCHANGED <<s2c, sSeq>>
      BY <1>b, <1>d, <2>1, <3>1, <3>2
    <3>3. ASSUME TriggersFactory(c, m)
          PROVE  /\ IsFirst(m, m.tag) /\ opened[c][m.tag] = 0 /\ cSeq[c][m.tag] > 0
                 /\ NoFirst(Tail(c2s[c]), m.tag)
      <4>1. IsFirst(m, m.tag)
        BY <2>4, <3>3 DEF IsFirst, TriggersFactory
      <4>2. ~NoFirst(c2s[c], m.tag)
        BY <1>s, <2>1, <4>1, TailIsRest DEF NoFirst, m
      <4>3. OpenInvAt(c, m.tag)
        BY <2>2 DEF OpenInv
      <4> QED BY <1>s, <2>1, <2>2, <4>1, <4>2, <4>3, TailFirst DEF OpenInvAt, m
    <3>4. CASE TriggersFactory(c, m) /\ OpenChannel(c, m.tag)
      <4>1. s2c' = s2c /\ sSeq' = [sSeq EXCEPT ![c][m.tag] = 0]
        BY <3>4 DEF OpenChannel
      <4>2. sSeq'[d][t] = sSeq[d][t] \/ opened[d][t] = 0
        BY <3>3, <3>4, <4>1 DEF TypeOK, ServerTypeOK
      <4> QED BY <1>b, <1>d, <2>1, <3>1, <4>1, <4>2
    <3>5. CASE TriggersFactory(c, m) /\ DropUndecodable(c, m.tag)
      <4>1. /\ s2c' = s2c \/ s2c' = [s2c EXCEPT ![c] = Append(@, RouteChannelEnd(m.tag, "Success"))]
            /\ UNCHANGED <<sSeq, sReg>>
        BY <3>5 DEF DropUndecodable, ServerPipeSend
      <4>2. m.tag \notin sReg[c]
        BY <2>2, <3>3, <3>5 DEF RequestInv, RequestInvAt, ServiceInOrder
      <4>3. c2s'[c] = Tail(c2s[c])
        BY <3>1 DEF TypeOK, PipeTypeOK
      <4>4. PICK u \in Tags : u = m.tag
        BY <2>2
      <4>5. Over(c, u)'
        BY <1>a, <3>3, <3>5, <4>1, <4>2, <4>3, <4>4 DEF Over
      <4>6. s2c' = s2c \/ s2c' = [s2c EXCEPT ![c] = Append(@, RouteChannelEnd(u, "Success"))]
        BY <4>1, <4>4
      <4>7. "Success" \in AppCodes
        BY DEF AppCodes
      <4> QED BY <1>c, <2>1, <3>1, <4>1, <4>5, <4>6, <4>7
    <3> QED BY <2>4, <3>2, <3>4, <3>5 DEF ServerHandleRouteChannelMsg
  <2>5. CASE ServerHandleRouteChannelEnd(c, m)
    BY <1>b, <1>d, <2>1, <2>5 DEF ServerHandleRouteChannelEnd
  <2> QED BY <1>2, <2>3, <2>4, <2>5 DEF ServerReceive, m
<1>3. CASE ServerLosesPipe(c)
  BY <1>b, <1>d, <1>3 DEF ServerLosesPipe
<1>4. ASSUME NEW u \in Tags, ServerSend(c, u) PROVE ResponseStep(d, t)
  <2> DEFINE r == RouteChannelMsg(u, sSeq[c][u])
  <2>1. r \in Route /\ (t # u => ~Concerns(r, t))
    BY RoutesAreRoutes, IpcAssumption
    DEF TypeOK, ServerTypeOK, Concerns, IsMsg, IsEnd, RouteChannelMsg
  <2>2. /\ u \in sReg[c] /\ sock' = sock
        /\ sSeq' = [sSeq EXCEPT ![c][u] = @ + 1]
        /\ \/ s2c' = s2c /\ sSent' = sSent
           \/ /\ s2c' = [s2c EXCEPT ![c] = Append(@, r)]
              /\ sSent' = [sSent EXCEPT ![c][u] = Append(@, sSeq[c][u])]
    BY <1>4 DEF ServerSend, ServerPipeSend, ServerCanSend
  <2>3. sSeq'[d][t] = IF d = c /\ t = u THEN sSeq[d][t] + 1 ELSE sSeq[d][t]
    BY <2>2 DEF TypeOK, ServerTypeOK
  <2>4. CASE d = c /\ t = u /\ s2c' = [s2c EXCEPT ![c] = Append(@, r)]
                  /\ sSent' = [sSent EXCEPT ![c][u] = Append(@, sSeq[c][u])]
    <3>1. s2c'[d] = Append(s2c[d], RouteChannelMsg(t, sSeq[d][t]))
      BY <2>4 DEF TypeOK, PipeTypeOK
    <3>2. sSent'[d][t] = Append(sSent[d][t], sSeq[d][t])
      BY <2>4 DEF TypeOK, ServerTypeOK
    <3> QED BY <1>a, <2>2, <2>3, <2>4, <3>1, <3>2 DEF ResponseStep, ResponseWritten, OwnerSame
  <2>5. CASE s2c' = s2c /\ sSent' = sSent
    BY <1>a, <2>2, <2>3, <2>5 DEF ResponseStep, NoResponseStep
  <2>6. CASE ~(d = c /\ t = u) /\ s2c' = [s2c EXCEPT ![c] = Append(@, r)]
                  /\ sSent' = [sSent EXCEPT ![c][u] = Append(@, sSeq[c][u])]
    <3>1. s2c'[d] = s2c[d] \/ (~Concerns(r, t) /\ s2c'[d] = Append(s2c[d], r))
      BY <2>1, <2>6 DEF TypeOK, PipeTypeOK
    <3>2. sSent'[d][t] = sSent[d][t]
      BY <2>6 DEF TypeOK, ServerTypeOK
    <3> QED BY <1>a, <2>1, <2>2, <2>3, <2>6, <3>1, <3>2 DEF ResponseStep, NoResponseStep
  <2> QED BY <2>2, <2>4, <2>5, <2>6
<1>5. ASSUME NEW u \in Tags, NEW e \in AppCodes, ServerDispose(c, u, e)
      PROVE  ResponseStep(d, t)
  <2>1. /\ UNCHANGED <<sock, sSent, sSeq, c2s>>
        /\ sReg' = [sReg EXCEPT ![c] = @ \ {u}]
    BY <1>5 DEF ServerDispose
  <2>2. CASE s2c' = s2c
    BY <1>b, <1>d, <2>1, <2>2
  <2>3. CASE u \in sReg[c] /\ s2c' = [s2c EXCEPT ![c] = Append(@, RouteChannelEnd(u, e))]
    <3>1. opened[c][u] # 0 /\ OpenInvAt(c, u)
      BY <2>3 DEF RequestInv, RequestInvAt, ServiceInOrder, OpenInv
    <3>2. NoFirst(c2s[c], u) /\ cSeq[c][u] # 0
      BY <3>1 DEF OpenInvAt
    <3>3. cSeq[c][u] \in 0 .. CliMax
      BY DEF TypeOK, ClientTypeOK
    <3>4. cSeq[c][u] > 0
      BY <3>2, <3>3, IpcAssumption
    <3>5. u \notin sReg'[c]
      BY <2>1 DEF TypeOK, ServerTypeOK
    <3>6. Over(c, u)'
      BY <1>a, <2>1, <3>2, <3>4, <3>5 DEF Over
    <3> QED BY <1>c, <2>1, <2>3, <3>6
  <2> QED BY <1>5, <2>2, <2>3 DEF ServerDispose, ServerSendsChEnd, ServerPipeSend
<1> QED
  BY <1>1, <1>2, <1>3, <1>4, <1>5 DEF ServerStep, ServerApp, ServerExecutor

(* A step of a client does one of these: frames about a channel in use     *)
(* find its gateway registered, subscribed and alive, or not registered.   *)
LEMMA ClientResponseStep ==
  ASSUME TypeOK, GatewayInv, OwnerInv, ResponseInv,
         NEW c \in Clients, ClientStep(c), UNCHANGED serverVars,
         NEW d \in Clients, NEW t \in Tags
  PROVE  ResponseStep(d, t)
<1>a. UNCHANGED <<sSent, sSeq>>
  BY DEF serverVars
<1>t. ClientTypeOK /\ s2c[c] \in Seq(Route) /\ cEvents[d][t] \in Seq(Event)
  BY DEF TypeOK, PipeTypeOK, ClientTypeOK
<1>b. ASSUME UNCHANGED <<s2c, cEvents>>, t \in cReg'[d] => t \in cReg[d] \/ t = nextTag[d],
             sock[d] = "closed" => sock'[d] = "closed"
      PROVE  ResponseStep(d, t)
  BY <1>a, <1>b DEF ResponseStep, NoResponseStep
<1>1. CASE ClientStart(c)
  BY <1>b, <1>1 DEF ClientStart, clientVars, TypeOK, PipeTypeOK
<1>2. CASE ClientHandleConnect(c)
  <2>1. UNCHANGED <<cEvents, cReg>> /\ sock[c] = "connecting"
    BY <1>2 DEF ClientHandleConnect, SendRouteConnect, clientVars
  <2>2. CASE s2c' = s2c /\ sock' = [sock EXCEPT ![c] = "open"]
    BY <1>b, <2>1, <2>2 DEF TypeOK, PipeTypeOK
  <2>3. CASE CloseClientSocket(c)
    <3>1. \/ s2c'[d] = s2c[d] /\ sock'[d] = sock[d]
          \/ s2c'[d] = <<>> /\ sock'[d] = "closed"
      BY <2>3 DEF CloseClientSocket, TypeOK, PipeTypeOK
    <3> QED BY <1>a, <2>1, <3>1 DEF ResponseStep, NoResponseStep
  <2> QED BY <1>2, <2>2, <2>3 DEF ClientHandleConnect, SendRouteConnect
<1>3. CASE ClientMakeGateway(c)
  <2>1. UNCHANGED <<s2c, cEvents, sock>> /\ cReg' = [cReg EXCEPT ![c] = @ \cup {nextTag[c]}]
    BY <1>3 DEF ClientMakeGateway, pipeVars
  <2> QED BY <1>b, <1>t, <2>1 DEF ClientTypeOK
<1>4. ASSUME NEW u \in Tags, ClientSubscribe(c, u) PROVE ResponseStep(d, t)
  <2>1. UNCHANGED <<s2c, cReg, sock>>
    BY <1>4 DEF ClientSubscribe, pipeVars
  <2>2. \/ cEvents' = cEvents
        \/ u \in cReg[c] /\ cEvents' = [cEvents EXCEPT ![c][u] = Append(@, Connected)]
    BY <1>4 DEF ClientSubscribe
  <2>3. \/ cEvents'[d][t] = cEvents[d][t]
        \/ t \in cReg[d] /\ cEvents'[d][t] = Append(cEvents[d][t], Connected)
    <3>1. CASE u \in cReg[c] /\ cEvents' = [cEvents EXCEPT ![c][u] = Append(@, Connected)]
      <4>1. cEvents'[d][t] = IF d = c /\ t = u THEN Append(cEvents[d][t], Connected)
                                              ELSE cEvents[d][t]
        BY <1>t, <3>1 DEF ClientTypeOK
      <4> QED BY <3>1, <4>1
    <3> QED BY <2>2, <3>1
  <2>4. Connected \in Event /\ Quiet(Connected) /\ Connected.kind # "completed"
    BY EventsAreEvents DEF Connected, Quiet
  <2>5. cEvents'[d][t] = cEvents[d][t] \/ QuietlyTold(d, t, Connected)
    BY <2>3, <2>4 DEF QuietlyTold
  <2> QED BY <1>a, <2>1, <2>4, <2>5 DEF ResponseStep, NoResponseStep
<1>5. ASSUME NEW u \in Tags, ClientSend(c, u) PROVE ResponseStep(d, t)
  BY <1>b, <1>5 DEF ClientSend
<1>6. ASSUME NEW u \in Tags, NEW e \in AppCodes,
             ClientDispose(c, u, e) \/ ClientReleaseOrphan(c, u, e)
      PROVE  ResponseStep(d, t)
  <2>1. UNCHANGED <<s2c, cEvents, sock>> /\ cReg' = [cReg EXCEPT ![c] = @ \ {u}]
    BY <1>6 DEF ClientDispose, ClientReleaseOrphan, DisposeGateway
  <2> QED BY <1>b, <1>t, <2>1 DEF ClientTypeOK
<1>7. ASSUME NEW u \in Tags, ClientDisposeHeld(c, u) PROVE ResponseStep(d, t)
  BY <1>b, <1>7 DEF ClientDisposeHeld, pipeVars
<1>8. CASE ClientReceive(c)
  <2> DEFINE m == Head(s2c[c])
  <2>1. /\ UNCHANGED <<sock, cLive, cSub>> /\ sock[c] = "open" /\ loop[c] = "none"
        /\ s2c[c] # <<>> /\ s2c' = [s2c EXCEPT ![c] = Tail(@)]
        /\ m \in Route
    BY <1>8, <1>t DEF ClientReceive, Idle
  <2>2. m.tag \in Tags /\ m.seq \in Nat /\ m.err \in ErrorCodes
    BY <2>1 DEF Route
  <2>3. s2c'[d] = IF d = c THEN Tail(s2c[d]) ELSE s2c[d]
    BY <2>1 DEF TypeOK, PipeTypeOK
  <2>4. d = c => Read(d)
    BY <2>1, <2>3 DEF Read
  (* A registered gateway with a frame can be told. *)
  <2>5. Concerns(m, m.tag) /\ m.tag \in cReg[c] =>
          m.tag \in cSub[c] /\ m.tag \in cLive[c] /\ GatewayExists(c, m.tag)
    <3>1. held[c] = {}
      BY <2>1, <2>2 DEF OwnerInv, OwnerInvAt, LoopShape
    <3>2. m.tag \in cReg[c] => m.tag \in cLive[c]
      BY <3>1 DEF GatewayInv, RegisteredGatewayIsAlive
    <3>3. Concerns(m, m.tag) => cSeq[c][m.tag] > 0
      <4>1. 1 \in 1 .. Len(s2c[c]) /\ m = s2c[c][1]
        BY <1>t, <2>1, TailIsRest
      <4> QED BY <2>2, <4>1 DEF ResponseInv, ResponseInvAt, Underway
    <3>4. cSeq[c][m.tag] > 0 => m.tag \in cSub[c]
      BY <2>2 DEF OwnerInv, OwnerInvAt, UsedIsSubscribed
    <3> QED BY <3>2, <3>3, <3>4 DEF GatewayExists
  <2> HIDE DEF m
  <2>6. ASSUME cEvents'[d][t] = cEvents[d][t], t \in cReg'[d] => t \in cReg[d],
               d = c /\ t \in cReg[d] => ~Concerns(m, t)
        PROVE  ResponseStep(d, t)
    BY <1>a, <2>1, <2>3, <2>4, <2>6 DEF ResponseStep, NoResponseStep, m
  <2>7. CASE m.kind = "connect" /\ HandleRouteConnect(c)
    BY <2>6, <2>7 DEF HandleRouteConnect, Concerns, IsMsg, IsEnd
  <2>8. CASE m.kind = "msg" /\ HandleRouteChannelMsg(c, m)
    <3>1. cReg' = cReg
      BY <2>8 DEF HandleRouteChannelMsg
    <3>2. CASE m.tag \notin cReg[c]
      <4>1. cEvents' = cEvents
        BY <2>8, <3>2 DEF HandleRouteChannelMsg
      <4>2. d = c /\ t \in cReg[d] => ~Concerns(m, t)
        BY <3>2 DEF Concerns, IsMsg, IsEnd
      <4> QED BY <2>6, <3>1, <4>1, <4>2
    <3>3. CASE m.tag \in cReg[c]
      <4>1. m.tag \in cSub[c] /\ m.tag \in cLive[c] /\ GatewayExists(c, m.tag)
        BY <2>5, <2>8, <3>3 DEF Concerns, IsMsg
      <4>2. cEvents' = GatewayEvent(c, m.tag, Message(m.seq))
        BY <2>8, <3>3, <4>1 DEF HandleRouteChannelMsg
      <4>3. Message(m.seq) \in Event
        BY <2>2, EventsAreEvents
      <4>4. GatewayEvent(c, m.tag, Message(m.seq))[d][t] =
              IF d = c /\ t = m.tag /\ m.tag \in cSub[c]
                THEN Append(cEvents[d][t], IF m.tag \in cLive[c] THEN Message(m.seq) ELSE LateEvent)
                ELSE cEvents[d][t]
        BY <1>t, <2>2, <4>3, GatewayEventAt
      <4>5. CASE d = c /\ t = m.tag
        <5>1. cEvents'[d][t] = Append(cEvents[d][t], Message(m.seq))
          BY <4>1, <4>2, <4>4, <4>5
        <5>2. Read(d) /\ IsMsg(m, t) /\ m = Head(s2c[d])
          BY <2>4, <2>8, <4>5 DEF IsMsg, m
        <5> QED BY <1>a, <2>1, <3>3, <4>1, <4>5, <5>1, <5>2 DEF ResponseStep, ResponseDelivered
      <4>6. CASE ~(d = c /\ t = m.tag)
        <5>1. cEvents'[d][t] = cEvents[d][t]
          BY <4>2, <4>4, <4>6
        <5>2. d = c => ~Concerns(m, t)
          BY <4>6 DEF Concerns, IsMsg, IsEnd
        <5> QED BY <2>6, <3>1, <5>1, <5>2
      <4> QED BY <4>5, <4>6
    <3> QED BY <3>2, <3>3
  <2>9. CASE m.kind = "end" /\ HandleRouteChannelEnd(c, m)
    <3>1. CASE m.tag \notin cReg[c]
      <4>1. UNCHANGED <<cEvents, cReg>>
        BY <2>9, <3>1 DEF HandleRouteChannelEnd
      <4>2. d = c /\ t \in cReg[d] => ~Concerns(m, t)
        BY <3>1 DEF Concerns, IsMsg, IsEnd
      <4> QED BY <2>6, <4>1, <4>2
    <3>2. CASE m.tag \in cReg[c]
      <4>1. m.tag \in cSub[c] /\ m.tag \in cLive[c] /\ GatewayExists(c, m.tag)
        BY <2>5, <2>9, <3>2 DEF Concerns, IsEnd
      <4>2. /\ cEvents' = GatewayEvent(c, m.tag, Completed(m.err))
            /\ cReg' = [cReg EXCEPT ![c] = cReg[c] \ {m.tag}]
        BY <2>9, <3>2, <4>1 DEF HandleRouteChannelEnd, Unregister
      <4>3. Completed(m.err) \in Event
        BY <2>2, EventsAreEvents
      <4>4. GatewayEvent(c, m.tag, Completed(m.err))[d][t] =
              IF d = c /\ t = m.tag /\ m.tag \in cSub[c]
                THEN Append(cEvents[d][t], IF m.tag \in cLive[c] THEN Completed(m.err) ELSE LateEvent)
                ELSE cEvents[d][t]
        BY <1>t, <2>2, <4>3, GatewayEventAt
      <4>5. cReg'[d] = IF d = c THEN cReg[d] \ {m.tag} ELSE cReg[d]
        BY <1>t, <4>2 DEF ClientTypeOK
      <4>6. CASE d = c /\ t = m.tag
        <5>1. cEvents'[d][t] = Append(cEvents[d][t], Completed(m.err))
          BY <4>1, <4>2, <4>4, <4>6
        <5>2. Read(d) /\ IsEnd(m, t) /\ m = Head(s2c[d])
          BY <2>4, <2>9, <4>6 DEF IsEnd, m
        <5>3. t \in cReg[d] /\ t \notin cReg'[d]
          BY <3>2, <4>5, <4>6
        <5> QED BY <1>a, <2>1, <4>1, <4>6, <5>1, <5>2, <5>3 DEF ResponseStep, EndDelivered
      <4>7. CASE ~(d = c /\ t = m.tag)
        <5>1. cEvents'[d][t] = cEvents[d][t] /\ (t \in cReg'[d] => t \in cReg[d])
          BY <4>2, <4>4, <4>5, <4>7
        <5>2. d = c => ~Concerns(m, t)
          BY <4>7 DEF Concerns, IsMsg, IsEnd
        <5> QED BY <2>6, <5>1, <5>2
      <4> QED BY <4>6, <4>7
    <3> QED BY <3>1, <3>2
  <2> QED BY <1>8, <2>7, <2>8, <2>9 DEF ClientReceive, m
<1>9. CASE ClientLosesPipe(c)
  <2>1. /\ cEvents' = cEvents /\ CloseClientSocket(c)
        /\ cReg' = cReg \/ cReg' = [cReg EXCEPT ![c] = {}]
    BY <1>9 DEF ClientLosesPipe, RegAfterLoss
  <2>2. /\ t \in cReg'[d] => t \in cReg[d]
        /\ \/ s2c'[d] = s2c[d] /\ sock'[d] = sock[d]
           \/ s2c'[d] = <<>> /\ sock'[d] = "closed"
    BY <1>t, <2>1 DEF CloseClientSocket, TypeOK, PipeTypeOK, ClientTypeOK
  <2> QED BY <1>a, <2>1, <2>2 DEF ResponseStep, NoResponseStep
<1>10. ASSUME NEW u \in Tags, ClientNotify(c, u) PROVE ResponseStep(d, t)
  <2>1. UNCHANGED <<s2c, sock, cReg>> /\ u \in todo[c]
    BY <1>10 DEF ClientNotify, pipeVars
  <2>2. LoopEvent(c) \in Event /\ Quiet(LoopEvent(c)) /\ LateEvent \in Event /\ Quiet(LateEvent)
        /\ LateEvent.kind # "completed"
    <3>1. LoopEvent(c) = Connected \/ LoopEvent(c) = Completed("Disconnected")
      BY DEF LoopEvent
    <3>2. Quiet(Connected) /\ Quiet(Completed("Disconnected")) /\ Quiet(LateEvent)
          /\ LateEvent.kind # "completed"
      BY DEF Connected, Completed, LateEvent, Quiet, AppCodes
    <3> QED BY <3>1, <3>2, EventsAreEvents DEF ErrorCodes
  <2>3. cEvents' = cEvents \/ cEvents' = GatewayEvent(c, u, LoopEvent(c))
    BY <1>10 DEF ClientNotify
  <2>4. \/ cEvents'[d][t] = cEvents[d][t]
        \/ /\ d = c /\ t = u
           /\ \/ t \in cLive[d] /\ cEvents'[d][t] = Append(cEvents[d][t], LoopEvent(c))
              \/ cEvents'[d][t] = Append(cEvents[d][t], LateEvent)
    <3>1. GatewayEvent(c, u, LoopEvent(c))[d][t] =
            IF d = c /\ t = u /\ u \in cSub[c]
              THEN Append(cEvents[d][t], IF u \in cLive[c] THEN LoopEvent(c) ELSE LateEvent)
              ELSE cEvents[d][t]
      BY <1>t, <2>2, GatewayEventAt
    <3> QED BY <2>3, <3>1
  <2>5. \/ cEvents'[d][t] = cEvents[d][t]
        \/ QuietlyTold(d, t, LoopEvent(c)) \/ QuietlyTold(d, t, LateEvent)
    BY <2>1, <2>2, <2>4 DEF QuietlyTold
  <2> QED BY <1>a, <2>1, <2>2, <2>5 DEF ResponseStep, NoResponseStep
<1>11. CASE ClientLoopEnd(c)
  BY <1>b, <1>11 DEF ClientLoopEnd, pipeVars
<1> QED
  BY <1>1, <1>2, <1>3, <1>4, <1>5, <1>6, <1>7, <1>8, <1>9, <1>10, <1>11
  DEF ClientStep, ClientApp, ClientExecutor

(* The types of what the responses of a channel are about. *)
LEMMA ResponseTypes ==
  ASSUME TypeOK, NEW c \in Clients, NEW t \in Tags
  PROVE  /\ s2c[c] \in Seq(Route) /\ c2s[c] \in Seq(Route)
         /\ cEvents[c][t] \in Seq(Event) /\ sSent[c][t] \in Seq(Nat)
         /\ sSeq[c][t] \in Nat /\ cSeq[c][t] \in Nat /\ opened[c][t] \in Nat
<1>1. sSeq[c][t] \in 0 .. SrvMax /\ cSeq[c][t] \in 0 .. CliMax
  BY DEF TypeOK, ServerTypeOK, ClientTypeOK
<1>2. sSeq[c][t] \in Nat /\ cSeq[c][t] \in Nat
  BY <1>1, IpcAssumption
<1> QED BY <1>2 DEF TypeOK, PipeTypeOK, ServerTypeOK, ClientTypeOK

(* A channel once used was used, one once opened was opened, and one that  *)
(* is over stays so: no first message for it can come again.               *)
LEMMA RequestStepGrows ==
  ASSUME TypeOK, NEW c \in Clients, NEW t \in Tags, RequestStep(c, t)
  PROVE  /\ cSeq[c][t] > 0 => cSeq'[c][t] > 0
         /\ opened[c][t] # 0 => opened'[c][t] # 0
         /\ Over(c, t) => Over(c, t)'
<1>t. c2s[c] \in Seq(Route) /\ cSeq[c][t] \in Nat /\ opened[c][t] \in Nat
  BY ResponseTypes
<1>1. cSeq'[c][t] = cSeq[c][t] \/ cSeq'[c][t] = cSeq[c][t] + 1
  BY DEF RequestStep, NoRequestStep, RequestSent, RequestEnded, RequestDelivered, RequestOpens
<1>2. opened'[c][t] = opened[c][t] \/ opened'[c][t] = opened[c][t] + 1
  BY DEF RequestStep, NoRequestStep, RequestSent, RequestEnded, RequestDelivered, RequestOpens,
         SameService
<1>3. cSeq[c][t] > 0 => cSeq'[c][t] > 0
  BY <1>t, <1>1
<1>4. opened[c][t] # 0 => opened'[c][t] # 0
  BY <1>t, <1>2
<1>5. ASSUME Over(c, t) PROVE Over(c, t)'
  <2>1. t \notin sReg[c] /\ NoFirst(c2s[c], t) /\ cSeq[c][t] > 0
    BY <1>5 DEF Over
  <2>2. Popped(c) => NoFirst(c2s'[c], t)
    BY <1>t, <2>1, TailFirst DEF Popped
  <2>3. CASE NoRequestStep(c, t)
    <3>1. NoFirst(<<>>, t)
      BY DEF NoFirst
    <3>2. ASSUME NEW r \in Route, Pushed(c, t, r) PROVE NoFirst(c2s'[c], t)
      <4>1. ~IsFirst(r, t) /\ c2s'[c] = Append(c2s[c], r)
        BY <3>2 DEF Pushed, IsFirst, IsMsg
      <4> QED BY <1>t, <2>1, <4>1, AppendOther
    <3>3. NoFirst(c2s'[c], t)
      BY <2>1, <2>2, <2>3, <3>1, <3>2 DEF NoRequestStep
    <3>4. t \notin sReg'[c]
      BY <2>1, <2>3 DEF NoRequestStep, SameService
    <3> QED BY <1>3, <2>1, <3>3, <3>4 DEF Over
  <2>4. CASE RequestSent(c, t)
    <3> DEFINE r == RouteChannelMsg(t, cSeq[c][t])
    <3>1. r \in Route /\ r.seq = cSeq[c][t]
      BY <1>t, RoutesAreRoutes DEF RouteChannelMsg
    <3>2. ~IsFirst(r, t)
      BY <1>t, <2>1, <3>1 DEF IsFirst
    <3>3. c2s'[c] = c2s[c] \/ c2s'[c] = Append(c2s[c], r)
      BY <2>4 DEF RequestSent
    <3> HIDE DEF r
    <3>4. NoFirst(c2s'[c], t)
      BY <1>t, <2>1, <3>1, <3>2, <3>3, AppendOther
    <3>5. t \notin sReg'[c]
      BY <2>1, <2>4 DEF RequestSent, SameService
    <3> QED BY <1>3, <2>1, <3>4, <3>5 DEF Over
  <2>5. CASE RequestEnded(c, t) \/ RequestDelivered(c, t)
    BY <2>1, <2>5 DEF RequestEnded, RequestDelivered
  <2>6. CASE RequestOpens(c, t)
    <3>1. c2s[c] # <<>> /\ IsFirst(Head(c2s[c]), t)
      BY <2>6 DEF RequestOpens, Popped
    <3> QED BY <1>t, <2>1, <3>1, TailIsRest DEF NoFirst
  <2> QED BY <2>3, <2>4, <2>5, <2>6 DEF RequestStep
<1> QED BY <1>3, <1>4, <1>5

(* Events other than messages and ends from the service. *)
LEMMA QuietEvent ==
  ASSUME NEW s \in Seq(Event), NEW e \in Event, Quiet(e)
  PROVE  ~EndedBy(Append(s, e), AppCodes)
<1>1. Append(s, e)[Len(Append(s, e))] = e
  BY LastOfAppend
<1> QED BY <1>1 DEF EndedBy, Quiet

(* A step that neither writes nor reads a response of the channel.         *)
LEMMA NoResponseInOrder ==
  ASSUME TypeOK, OpenInv, OwnerInv, NEW c \in Clients, NEW t \in Tags, ResponseInvAt(c, t),
         RequestStep(c, t), NoResponseStep(c, t)
  PROVE  ResponseInvAt(c, t)'
<1> DEFINE q == s2c[c]
           s == cEvents[c][t]
           sent == sSent[c][t]
<1>t. /\ q \in Seq(Route) /\ s \in Seq(Event) /\ sent \in Seq(Nat)
      /\ sSeq[c][t] \in Nat /\ cSeq[c][t] \in Nat /\ opened[c][t] \in Nat
  BY ResponseTypes
<1>g. /\ cSeq[c][t] > 0 => cSeq'[c][t] > 0
      /\ opened[c][t] # 0 => opened'[c][t] # 0
      /\ Over(c, t) => Over(c, t)'
  BY RequestStepGrows
<1>a. Underway(c, t) /\ WrittenInOrder(c, t) /\ ReadInOrder(c, t) /\ NoneLost(c, t) /\ EndIsLast(c, t)
  BY DEF ResponseInvAt
<1>n. sSent'[c][t] = sent
  BY DEF NoResponseStep
(* What becomes of the queue. *)
<1>1. /\ QueueIncreases(s2c'[c], t) /\ SeenBefore(s, s2c'[c], t) /\ EndsLast(s2c'[c], t)
      /\ \A n : HasQueued(s2c'[c], t, n) => HasQueued(q, t, n)
      /\ \A i \in 1 .. Len(s2c'[c]) : Concerns(s2c'[c][i], t) =>
           \E j \in 1 .. Len(q) : s2c'[c][i] = q[j]
      /\ t \in cReg[c] /\ sock'[c] # "closed" =>
           \A n : HasQueued(q, t, n) => HasQueued(s2c'[c], t, n)
  <2>a. QueueIncreases(q, t) /\ SeenBefore(s, q, t) /\ EndsLast(q, t)
    BY <1>a DEF Underway, EndIsLast
  <2> HIDE DEF q, s
  <2>1. CASE s2c'[c] = q
    BY <2>a, <2>1
  <2>2. CASE s2c'[c] = <<>> /\ sock'[c] = "closed"
    BY <2>2 DEF QueueIncreases, SeenBefore, QueuedAbove, EndsLast, HasQueued
  <2>3. CASE Read(c) /\ (t \in cReg[c] => ~Concerns(Head(q), t))
    <3>1. q # <<>> /\ s2c'[c] = Tail(q)
      BY <2>3 DEF Read, q
    <3>2. QueueIncreases(Tail(q), t) /\ SeenBefore(s, Tail(q), t)
      BY <1>t, <2>a, <3>1, TailInOrder
    <3>3. /\ EndsLast(Tail(q), t)
          /\ \A n : HasQueued(Tail(q), t, n) => HasQueued(q, t, n)
          /\ t \in cReg[c] => \A n : HasQueued(q, t, n) => HasQueued(Tail(q), t, n)
      BY <1>t, <2>a, <2>3, <3>1, TailOfQueue DEF Concerns
    <3>4. \A i \in 1 .. Len(Tail(q)) : \E j \in 1 .. Len(q) : Tail(q)[i] = q[j]
      BY <1>t, <3>1, TailIsRest
    <3> QED BY <3>1, <3>2, <3>3, <3>4
  <2>4. ASSUME NEW r \in Route, ~Concerns(r, t), s2c'[c] = Append(q, r)
        PROVE  <1>1!:
    <3>1. ~IsMsg(r, t) /\ ~IsEnd(r, t)
      BY <2>4 DEF Concerns
    <3>2. QueueIncreases(Append(q, r), t) /\ SeenBefore(s, Append(q, r), t)
      BY <1>t, <2>a, <3>1, AppendInOrder
    <3>3. /\ EndsLast(Append(q, r), t)
          /\ \A n : HasQueued(Append(q, r), t, n) <=> HasQueued(q, t, n)
      BY <1>t, <2>a, <3>1, AppendToQueue
    <3>4. \A i \in 1 .. Len(Append(q, r)) : Concerns(Append(q, r)[i], t) =>
            \E j \in 1 .. Len(q) : Append(q, r)[i] = q[j]
      BY <1>t, <2>4, AppendIsMore
    <3> QED BY <2>4, <3>2, <3>3, <3>4
  <2> QED BY <2>1, <2>2, <2>3, <2>4 DEF NoResponseStep, q
(* What becomes of the events. *)
<1>2. /\ MessagesIncrease(cEvents'[c][t]) /\ DeliveredInOrder(cEvents'[c][t], sent)
      /\ \A p : SeenBefore(s, p, t) => SeenBefore(cEvents'[c][t], p, t)
      /\ \A n : HasMessage(s, n) => HasMessage(cEvents'[c][t], n)
      /\ EndedBy(cEvents'[c][t], AppCodes) => cEvents'[c][t] = s
  <2>a. MessagesIncrease(s) /\ DeliveredInOrder(s, sent)
    BY <1>a DEF ReadInOrder
  <2> HIDE DEF s, sent
  <2>1. CASE cEvents'[c][t] = s
    BY <2>a, <2>1
  <2>2. ASSUME NEW e \in Event, Quiet(e), cEvents'[c][t] = Append(s, e)
        PROVE  <1>2!:
    <3>1. e.kind # "message"
      BY <2>2 DEF Quiet
    <3>2. MessagesIncrease(Append(s, e)) /\ \A p : SeenBefore(s, p, t) => SeenBefore(Append(s, e), p, t)
      BY <1>t, <2>a, <3>1, EventInOrder
    <3>3. /\ DeliveredInOrder(Append(s, e), sent)
          /\ \A n : HasMessage(s, n) => HasMessage(Append(s, e), n)
      BY <1>t, <2>a, <3>1, EventKeepsDelivered
    <3>4. ~EndedBy(Append(s, e), AppCodes)
      BY <1>t, <2>2, QuietEvent
    <3> QED BY <2>2, <3>2, <3>3, <3>4
  <2> QED BY <2>1, <2>2 DEF NoResponseStep, QuietlyTold, s
<1>3. Underway(c, t)'
  <2>1. \A n \in Nat : HasQueued(s2c'[c], t, n) => Written(sSent'[c][t], n)
    BY <1>1, <1>a, <1>n DEF Underway
  <2>2. \A i \in 1 .. Len(s2c'[c]) : Concerns(s2c'[c][i], t) => cSeq'[c][t] > 0
    BY <1>1, <1>a, <1>g DEF Underway
  <2> QED BY <1>1, <1>2, <2>1, <2>2 DEF Underway
<1>4. WrittenInOrder(c, t)'
  <2>1. opened'[c][t] = 0 => sent = <<>>
    BY <1>a, <1>g DEF WrittenInOrder
  <2>2. \A k \in 1 .. Len(sent) : sent[k] \in Nat /\ sent[k] < sSeq'[c][t]
    <3>1. \A k \in 1 .. Len(sent) : sent[k] \in Nat /\ sent[k] < sSeq[c][t]
      BY <1>t, <1>a DEF WrittenInOrder
    <3>2. CASE opened[c][t] = 0
      BY <1>a, <3>2 DEF WrittenInOrder
    <3>3. CASE sSeq'[c][t] = sSeq[c][t]
      BY <3>1, <3>3
    <3>4. CASE sSeq'[c][t] = sSeq[c][t] + 1
      <4> HIDE DEF sent
      <4> QED BY <1>t, <3>1, <3>4
    <3> QED BY <3>2, <3>3, <3>4 DEF NoResponseStep
  <2> QED BY <1>a, <1>n, <2>1, <2>2 DEF WrittenInOrder
<1>5. ReadInOrder(c, t)'
  BY <1>2, <1>n DEF ReadInOrder
<1>6. NoneLost(c, t)'
  <2> SUFFICES ASSUME t \in cReg'[c], sock'[c] # "closed", NEW k \in 1 .. Len(sent)
               PROVE  HasMessage(cEvents'[c][t], sent[k]) \/ HasQueued(s2c'[c], t, sent[k])
    BY <1>n DEF NoneLost
  <2>1. sock[c] # "closed" /\ (t \in cReg[c] \/ t = nextTag[c])
    BY DEF NoResponseStep
  <2>2. CASE t \in cReg[c]
    <3>1. HasMessage(s, sent[k]) \/ HasQueued(q, t, sent[k])
      BY <1>a, <2>1, <2>2 DEF NoneLost
    <3> QED BY <1>1, <1>2, <2>2, <3>1
  <2>3. CASE t = nextTag[c]
    <3>1. t \notin cSub[c]
      <4>1. t \in Nat
        BY IpcAssumption DEF Tags
      <4>2. ~(t < nextTag[c])
        BY <2>3, <4>1
      <4> QED BY <4>2 DEF OwnerInv, OwnerInvAt, TagsBelow
    <3>2. ~(cSeq[c][t] > 0)
      BY <3>1 DEF OwnerInv, OwnerInvAt, UsedIsSubscribed
    <3>3. cSeq[c][t] = 0
      BY <1>t, <3>2
    <3>4. opened[c][t] = 0
      BY <3>3 DEF OpenInv, OpenInvAt
    <3>5. sent = <<>>
      BY <1>a, <3>4 DEF WrittenInOrder
    <3> QED BY <3>5
  <2> QED BY <2>1, <2>2, <2>3
<1>7. EndIsLast(c, t)'
  <2>1. \A i \in 1 .. Len(s2c'[c]) : IsEnd(s2c'[c][i], t) => Over(c, t)'
    BY <1>1, <1>a, <1>g DEF EndIsLast, Concerns
  <2>2. EndedBy(cEvents'[c][t], AppCodes) => Over(c, t)' /\ AllReceived(cEvents'[c][t], sent)
    BY <1>2, <1>a, <1>g DEF EndIsLast
  <2> QED BY <1>1, <1>n, <2>1, <2>2 DEF EndIsLast
<1> QED BY <1>3, <1>4, <1>5, <1>6, <1>7 DEF ResponseInvAt

(* A service writes a response: its number is behind all others, and the   *)
(* end of the channel is not on its way.                                   *)
LEMMA WriteInOrder ==
  ASSUME TypeOK, OpenInv, RequestInv, NEW c \in Clients, NEW t \in Tags, ResponseInvAt(c, t),
         RequestStep(c, t), ResponseWritten(c, t)
  PROVE  ResponseInvAt(c, t)'
<1> DEFINE q == s2c[c]
           s == cEvents[c][t]
           sent == sSent[c][t]
           n == sSeq[c][t]
           r == RouteChannelMsg(t, n)
           new == Append(sent, n)
<1>t. /\ q \in Seq(Route) /\ s \in Seq(Event) /\ sent \in Seq(Nat)
      /\ n \in Nat /\ cSeq[c][t] \in Nat /\ opened[c][t] \in Nat
  BY ResponseTypes
<1>g. /\ cSeq[c][t] > 0 => cSeq'[c][t] > 0
      /\ opened[c][t] # 0 => opened'[c][t] # 0
  BY RequestStepGrows
<1>a. Underway(c, t) /\ WrittenInOrder(c, t) /\ ReadInOrder(c, t) /\ NoneLost(c, t) /\ EndIsLast(c, t)
  BY DEF ResponseInvAt
<1>b. /\ t \in sReg[c] /\ sSent'[c][t] = new /\ sSeq'[c][t] = n + 1 /\ s2c'[c] = Append(q, r)
      /\ cEvents'[c][t] = s /\ (t \in cReg'[c] => t \in cReg[c]) /\ sock'[c] = sock[c]
  BY DEF ResponseWritten, OwnerSame
<1>r. r \in Route /\ IsMsg(r, t) /\ ~IsEnd(r, t) /\ r.seq = n
  BY <1>t, RoutesAreRoutes DEF RouteChannelMsg, IsMsg, IsEnd
(* The channel is open, so it is in use and nothing of it is over. *)
<1>o. opened[c][t] # 0 /\ cSeq[c][t] > 0 /\ ~Over(c, t)
  <2>1. opened[c][t] # 0
    BY <1>b DEF RequestInv, RequestInvAt, ServiceInOrder
  <2>2. cSeq[c][t] # 0
    BY <2>1 DEF OpenInv, OpenInvAt
  <2>3. cSeq[c][t] > 0
    BY <1>t, <2>2
  <2>4. ~Over(c, t)
    BY <1>b DEF Over
  <2> QED BY <2>1, <2>3, <2>4
<1>1. \A k \in 1 .. Len(sent) : sent[k] \in Nat /\ sent[k] < n
  BY <1>t, <1>a DEF WrittenInOrder
<1>2. /\ DeliveredInOrder(s, new)
      /\ \A m : Written(sent, m) => Written(new, m)
      /\ Written(new, n)
      /\ \A k, l \in 1 .. Len(new) : k < l => new[k] < new[l]
      /\ \A k \in 1 .. Len(new) : new[k] < n + 1
      /\ \A k \in 1 .. Len(new) : (k \in 1 .. Len(sent) /\ new[k] = sent[k]) \/ new[k] = n
  <2>1. DeliveredInOrder(s, sent) /\ \A k, l \in 1 .. Len(sent) : k < l => sent[k] < sent[l]
    BY <1>a DEF ReadInOrder, WrittenInOrder
  <2> HIDE DEF s, sent, n
  <2> QED BY <1>t, <1>1, <2>1, WriteKeepsDelivered
<1>3. QueuedBelow(q, t, n)
  <2> SUFFICES ASSUME NEW i \in 1 .. Len(q), IsMsg(q[i], t) PROVE q[i].seq < n
    BY DEF QueuedBelow
  <2>1. q[i] \in Route
    BY <1>t
  <2>2. q[i].seq \in Nat
    BY <2>1 DEF Route
  <2>3. Written(sent, q[i].seq)
    BY <1>a, <2>2 DEF Underway, HasQueued
  <2> QED BY <1>1, <2>3 DEF Written
<1>4. SeenBelow(s, n)
  <2> SUFFICES ASSUME NEW i \in 1 .. Len(s), s[i].kind = "message" PROVE s[i].seq < n
    BY DEF SeenBelow
  <2>1. PICK k \in 1 .. Len(sent) : sent[k] = s[i].seq
    BY <1>a DEF ReadInOrder, DeliveredInOrder
  <2> QED BY <1>1, <2>1
<1>5. /\ QueueIncreases(Append(q, r), t) /\ SeenBefore(s, Append(q, r), t)
      /\ EndsLast(Append(q, r), t)
      /\ \A m : HasQueued(q, t, m) => HasQueued(Append(q, r), t, m)
      /\ \A m : HasQueued(Append(q, r), t, m) => HasQueued(q, t, m) \/ m = n
      /\ HasQueued(Append(q, r), t, n)
  <2>1. QueueIncreases(q, t) /\ SeenBefore(s, q, t) /\ EndsLast(q, t)
    BY <1>a DEF Underway, EndIsLast
  <2>2. \A i \in 1 .. Len(q) : ~IsEnd(q[i], t)
    BY <1>a, <1>o DEF EndIsLast
  <2> HIDE DEF q, s, r, n
  <2>3. QueueIncreases(Append(q, r), t) /\ SeenBefore(s, Append(q, r), t)
    BY <1>t, <1>r, <1>3, <1>4, <2>1, AppendInOrder
  <2>4. /\ EndsLast(Append(q, r), t)
        /\ \A m : HasQueued(q, t, m) => HasQueued(Append(q, r), t, m)
        /\ \A m : HasQueued(Append(q, r), t, m) => HasQueued(q, t, m) \/ m = n
        /\ HasQueued(Append(q, r), t, n)
    BY <1>t, <1>r, <2>1, <2>2, AppendToQueue
  <2> QED BY <2>3, <2>4
<1>6. \A i \in 1 .. Len(Append(q, r)) : ~IsEnd(Append(q, r)[i], t)
  <2>1. \A i \in 1 .. Len(q) : ~IsEnd(q[i], t)
    BY <1>a, <1>o DEF EndIsLast
  <2> HIDE DEF q, r
  <2> QED BY <1>t, <1>r, <2>1, AppendIsMore
<1>7. ~EndedBy(s, AppCodes)
  BY <1>a, <1>o DEF EndIsLast
<1> HIDE DEF r, new
<1>8. Underway(c, t)'
  <2>1. \A m \in Nat : HasQueued(Append(q, r), t, m) => Written(new, m)
    BY <1>2, <1>5, <1>a DEF Underway
  <2> QED BY <1>5, <1>b, <1>g, <1>o, <2>1 DEF Underway
<1>9. WrittenInOrder(c, t)'
  BY <1>2, <1>b, <1>g, <1>o DEF WrittenInOrder
<1>10. ReadInOrder(c, t)'
  BY <1>2, <1>a, <1>b DEF ReadInOrder
<1>11. NoneLost(c, t)'
  <2> SUFFICES ASSUME t \in cReg[c], sock[c] # "closed", NEW k \in 1 .. Len(new)
               PROVE  HasMessage(s, new[k]) \/ HasQueued(Append(q, r), t, new[k])
    BY <1>b DEF NoneLost
  <2>1. CASE k \in 1 .. Len(sent) /\ new[k] = sent[k]
    <3>1. HasMessage(s, sent[k]) \/ HasQueued(q, t, sent[k])
      BY <1>a, <2>1 DEF NoneLost
    <3> QED BY <1>5, <2>1, <3>1
  <2>2. CASE new[k] = n
    BY <1>5, <2>2
  <2> QED BY <1>2, <2>1, <2>2
<1>12. EndIsLast(c, t)'
  BY <1>5, <1>6, <1>7, <1>b DEF EndIsLast
<1> QED BY <1>8, <1>9, <1>10, <1>11, <1>12 DEF ResponseInvAt

(* The daemon writes the end of a channel: no response can follow it.      *)
LEMMA EndInOrder ==
  ASSUME TypeOK, NEW c \in Clients, NEW t \in Tags, ResponseInvAt(c, t),
         RequestStep(c, t), EndWritten(c, t)
  PROVE  ResponseInvAt(c, t)'
<1> DEFINE q == s2c[c]
           s == cEvents[c][t]
<1>t. q \in Seq(Route) /\ s \in Seq(Event)
  BY ResponseTypes
<1>g. opened[c][t] # 0 => opened'[c][t] # 0
  BY RequestStepGrows
<1>a. Underway(c, t) /\ WrittenInOrder(c, t) /\ ReadInOrder(c, t) /\ NoneLost(c, t) /\ EndIsLast(c, t)
  BY DEF ResponseInvAt
<1>b. /\ UNCHANGED <<sSent[c][t], sSeq[c][t], cEvents[c][t], sock[c]>>
      /\ t \in cReg'[c] => t \in cReg[c]
      /\ Over(c, t)' /\ cSeq'[c][t] > 0
  BY DEF EndWritten, OwnerSame, Over
<1>c. PICK r \in Route : s2c'[c] = Append(q, r) /\ ~IsMsg(r, t)
  <2>1. PICK e \in AppCodes : s2c'[c] = Append(q, RouteChannelEnd(t, e))
    BY DEF EndWritten
  <2>2. RouteChannelEnd(t, e) \in Route /\ ~IsMsg(RouteChannelEnd(t, e), t)
    BY RoutesAreRoutes DEF IsMsg, RouteChannelEnd
  <2> QED BY <2>1, <2>2
<1>1. /\ QueueIncreases(s2c'[c], t) /\ SeenBefore(s, s2c'[c], t) /\ EndsLast(s2c'[c], t)
      /\ \A n : HasQueued(s2c'[c], t, n) <=> HasQueued(q, t, n)
  <2>1. QueueIncreases(q, t) /\ SeenBefore(s, q, t) /\ EndsLast(q, t)
    BY <1>a DEF Underway, EndIsLast
  <2> HIDE DEF q, s
  <2>2. QueueIncreases(s2c'[c], t) /\ SeenBefore(s, s2c'[c], t)
    BY <1>t, <1>c, <2>1, AppendInOrder
  <2>3. EndsLast(s2c'[c], t) /\ \A n : HasQueued(s2c'[c], t, n) <=> HasQueued(q, t, n)
    BY <1>t, <1>c, <2>1, AppendToQueue
  <2> QED BY <2>2, <2>3
<1>2. Underway(c, t)'
  BY <1>1, <1>a, <1>b DEF Underway
<1>3. WrittenInOrder(c, t)'
  BY <1>a, <1>b, <1>g DEF WrittenInOrder
<1>4. ReadInOrder(c, t)'
  BY <1>a, <1>b DEF ReadInOrder
<1>5. NoneLost(c, t)'
  BY <1>1, <1>a, <1>b DEF NoneLost
<1>6. EndIsLast(c, t)'
  BY <1>1, <1>a, <1>b DEF EndIsLast
<1> QED BY <1>2, <1>3, <1>4, <1>5, <1>6 DEF ResponseInvAt

(* The owner of a channel gets a response: all the earlier ones were       *)
(* delivered before, for none is left in front of it or behind it.         *)
LEMMA DeliveryInOrder ==
  ASSUME TypeOK, NEW c \in Clients, NEW t \in Tags, ResponseInvAt(c, t),
         RequestStep(c, t), ResponseDelivered(c, t)
  PROVE  ResponseInvAt(c, t)'
<1> DEFINE q == s2c[c]
           s == cEvents[c][t]
           sent == sSent[c][t]
           n == Head(q).seq
           e == Message(n)
<1>t. q \in Seq(Route) /\ s \in Seq(Event) /\ sent \in Seq(Nat)
  BY ResponseTypes
<1>g. /\ cSeq[c][t] > 0 => cSeq'[c][t] > 0
      /\ opened[c][t] # 0 => opened'[c][t] # 0
      /\ Over(c, t) => Over(c, t)'
  BY RequestStepGrows
<1>a. Underway(c, t) /\ WrittenInOrder(c, t) /\ ReadInOrder(c, t) /\ NoneLost(c, t) /\ EndIsLast(c, t)
  BY DEF ResponseInvAt
<1>b. /\ q # <<>> /\ s2c'[c] = Tail(q) /\ IsMsg(Head(q), t) /\ t \in cReg[c] /\ sock[c] = "open"
      /\ cEvents'[c][t] = Append(s, e)
      /\ UNCHANGED <<sSent[c][t], sSeq[c][t], sock[c]>>
  BY DEF ResponseDelivered, Read
<1>n. Head(q) \in Route /\ n \in Nat
  <2>1. Head(q) \in Route
    BY <1>t, <1>b
  <2> QED BY <2>1 DEF Route
<1>e. e \in Event /\ e.kind = "message" /\ e.seq = n
  BY <1>n, EventsAreEvents DEF Message
<1>1. /\ QueueIncreases(Tail(q), t) /\ SeenBefore(s, Tail(q), t)
      /\ QueuedAbove(Tail(q), t, n) /\ SeenBelow(s, n)
  <2>1. QueueIncreases(q, t) /\ SeenBefore(s, q, t)
    BY <1>a DEF Underway
  <2> HIDE DEF q, s
  <2> QED BY <1>t, <1>b, <2>1, TailInOrder
<1>2. /\ EndsLast(Tail(q), t)
      /\ \A m : HasQueued(Tail(q), t, m) => HasQueued(q, t, m)
      /\ \A m : HasQueued(q, t, m) => HasQueued(Tail(q), t, m) \/ m = n
      /\ HasQueued(q, t, n)
  <2>1. EndsLast(q, t)
    BY <1>a DEF EndIsLast
  <2> HIDE DEF q
  <2> QED BY <1>t, <1>b, <2>1, TailOfQueue
<1>3. \A i \in 1 .. Len(Tail(q)) : \E j \in 1 .. Len(q) : Tail(q)[i] = q[j]
  BY <1>t, <1>b, TailIsRest
<1>4. PICK k \in 1 .. Len(sent) : sent[k] = n
  BY <1>2, <1>a, <1>n DEF Underway, Written
<1>5. ASSUME NEW l \in 1 .. k - 1 PROVE HasMessage(s, sent[l])
  <2>1. l \in 1 .. Len(sent) /\ l < k
    BY <1>t, <1>4, <1>5
  <2>2. sent[l] < n /\ sent[l] \in Nat
    BY <1>t, <1>a, <1>4, <2>1 DEF WrittenInOrder
  <2>3. HasMessage(s, sent[l]) \/ HasQueued(q, t, sent[l])
    BY <1>a, <1>b, <2>1 DEF NoneLost
  <2>4. ~HasQueued(Tail(q), t, sent[l])
    <3> HIDE DEF q, n, sent
    <3>1. ~(n < sent[l])
      BY <1>n, <2>2
    <3> QED BY <1>1, <3>1 DEF HasQueued, QueuedAbove
  <2>5. sent[l] # n
    BY <1>n, <2>2
  <2> QED BY <1>2, <2>3, <2>4, <2>5
<1>6. /\ DeliveredInOrder(Append(s, e), sent)
      /\ \A m : HasMessage(s, m) => HasMessage(Append(s, e), m)
      /\ HasMessage(Append(s, e), n)
  <2>1. DeliveredInOrder(s, sent)
    BY <1>a DEF ReadInOrder
  <2> HIDE DEF s, sent, n
  <2>2. Message(e.seq) = e
    <3>1. e.seq = n
      BY <1>e
    <3> QED BY <3>1, Zenon
  <2> HIDE DEF e
  <2>3. \E j \in 1 .. Len(sent) : /\ sent[j] = e.seq
                                  /\ \A l \in 1 .. j - 1 : HasMessage(s, sent[l])
    BY <1>4, <1>5, <1>e
  <2>4. /\ DeliveredInOrder(Append(s, e), sent)
        /\ \A m : HasMessage(s, m) => HasMessage(Append(s, e), m)
        /\ HasMessage(Append(s, Message(e.seq)), e.seq)
    BY <1>t, <1>e, <2>1, <2>3, EventKeepsDelivered
  <2> QED BY <1>e, <2>2, <2>4
<1>7. /\ MessagesIncrease(Append(s, e)) /\ SeenBefore(Append(s, e), Tail(q), t)
      /\ ~EndedBy(Append(s, e), AppCodes)
  <2>1. MessagesIncrease(s)
    BY <1>a DEF ReadInOrder
  <2> HIDE DEF s, e, n, q
  <2>2. MessagesIncrease(Append(s, e)) /\ SeenBefore(Append(s, e), Tail(q), t)
    BY <1>t, <1>e, <1>1, <2>1, EventInOrder
  <2>3. Append(s, e)[Len(Append(s, e))] = e
    BY <1>t, <1>e, LastOfAppend
  <2>4. ~EndedBy(Append(s, e), AppCodes)
    BY <1>e, <2>3 DEF EndedBy
  <2> QED BY <2>2, <2>4
<1> HIDE DEF e, n
<1>8. Underway(c, t)'
  <2>1. \A m \in Nat : HasQueued(Tail(q), t, m) => Written(sent, m)
    BY <1>2, <1>a DEF Underway
  <2>2. \A i \in 1 .. Len(Tail(q)) : Concerns(Tail(q)[i], t) => cSeq'[c][t] > 0
    BY <1>3, <1>a, <1>g DEF Underway
  <2> QED BY <1>1, <1>7, <1>b, <2>1, <2>2 DEF Underway
<1>9. WrittenInOrder(c, t)'
  BY <1>a, <1>b, <1>g DEF WrittenInOrder
<1>10. ReadInOrder(c, t)'
  BY <1>6, <1>7, <1>b DEF ReadInOrder
<1>11. NoneLost(c, t)'
  <2> SUFFICES ASSUME NEW j \in 1 .. Len(sent)
               PROVE  HasMessage(Append(s, e), sent[j]) \/ HasQueued(Tail(q), t, sent[j])
    BY <1>b DEF NoneLost
  <2>1. HasMessage(s, sent[j]) \/ HasQueued(q, t, sent[j])
    BY <1>a, <1>b DEF NoneLost
  <2> QED BY <1>2, <1>6, <2>1
<1>12. EndIsLast(c, t)'
  <2>1. \A i \in 1 .. Len(Tail(q)) : IsEnd(Tail(q)[i], t) => Over(c, t)'
    BY <1>3, <1>a, <1>g DEF EndIsLast
  <2> QED BY <1>2, <1>7, <1>b, <2>1 DEF EndIsLast
<1> QED BY <1>8, <1>9, <1>10, <1>11, <1>12 DEF ResponseInvAt

(* The owner of a channel gets its end: nothing is left behind it.         *)
LEMMA CompletionInOrder ==
  ASSUME TypeOK, NEW c \in Clients, NEW t \in Tags, ResponseInvAt(c, t),
         RequestStep(c, t), EndDelivered(c, t)
  PROVE  ResponseInvAt(c, t)'
<1> DEFINE q == s2c[c]
           s == cEvents[c][t]
           sent == sSent[c][t]
           e == Completed(Head(q).err)
<1>t. q \in Seq(Route) /\ s \in Seq(Event) /\ sent \in Seq(Nat)
  BY ResponseTypes
<1>g. /\ cSeq[c][t] > 0 => cSeq'[c][t] > 0
      /\ opened[c][t] # 0 => opened'[c][t] # 0
      /\ Over(c, t) => Over(c, t)'
  BY RequestStepGrows
<1>a. Underway(c, t) /\ WrittenInOrder(c, t) /\ ReadInOrder(c, t) /\ NoneLost(c, t) /\ EndIsLast(c, t)
  BY DEF ResponseInvAt
<1>b. /\ q # <<>> /\ s2c'[c] = Tail(q) /\ IsEnd(Head(q), t) /\ sock[c] = "open"
      /\ t \in cReg[c] /\ t \notin cReg'[c]
      /\ cEvents'[c][t] = Append(s, e)
      /\ UNCHANGED <<sSent[c][t], sSeq[c][t]>>
  BY DEF EndDelivered, Read
<1>e. e \in Event /\ e.kind = "completed"
  <2>1. Head(q) \in Route
    BY <1>t, <1>b
  <2>2. Head(q).err \in ErrorCodes
    BY <2>1 DEF Route
  <2> QED BY <2>2, EventsAreEvents DEF Completed
<1>1. QueueIncreases(Tail(q), t) /\ SeenBefore(s, Tail(q), t)
  <2>1. QueueIncreases(q, t) /\ SeenBefore(s, q, t)
    BY <1>a DEF Underway
  <2> HIDE DEF q, s
  <2> QED BY <1>t, <1>b, <2>1, TailInOrder
<1>2. /\ EndsLast(Tail(q), t) /\ \A m : ~HasQueued(Tail(q), t, m)
      /\ \A m : ~HasQueued(q, t, m)
  <2>1. EndsLast(q, t)
    BY <1>a DEF EndIsLast
  <2>2. ~IsMsg(Head(q), t)
    BY <1>b DEF IsMsg, IsEnd
  <2> HIDE DEF q
  <2> QED BY <1>t, <1>b, <2>1, <2>2, TailOfQueue
<1>3. \A i \in 1 .. Len(Tail(q)) : \E j \in 1 .. Len(q) : Tail(q)[i] = q[j]
  BY <1>t, <1>b, TailIsRest
<1>4. Over(c, t)
  <2>1. 1 \in 1 .. Len(q) /\ q[1] = Head(q)
    BY <1>t, <1>b, TailIsRest
  <2> QED BY <1>a, <1>b, <2>1 DEF EndIsLast
<1>5. /\ DeliveredInOrder(Append(s, e), sent)
      /\ \A m : HasMessage(s, m) => HasMessage(Append(s, e), m)
      /\ MessagesIncrease(Append(s, e)) /\ SeenBefore(Append(s, e), Tail(q), t)
  <2>1. DeliveredInOrder(s, sent) /\ MessagesIncrease(s)
    BY <1>a DEF ReadInOrder
  <2> HIDE DEF s, sent, e, q
  <2>2. /\ DeliveredInOrder(Append(s, e), sent)
        /\ \A m : HasMessage(s, m) => HasMessage(Append(s, e), m)
    BY <1>t, <1>e, <2>1, EventKeepsDelivered
  <2>3. MessagesIncrease(Append(s, e)) /\ SeenBefore(Append(s, e), Tail(q), t)
    BY <1>t, <1>e, <1>1, <2>1, EventInOrder
  <2> QED BY <2>2, <2>3
<1>6. AllReceived(Append(s, e), sent)
  <2>1. \A k \in 1 .. Len(sent) : HasMessage(s, sent[k])
    BY <1>2, <1>a, <1>b DEF NoneLost
  <2> QED BY <1>5, <2>1 DEF AllReceived
<1> HIDE DEF e
<1>7. Underway(c, t)'
  <2>1. \A i \in 1 .. Len(Tail(q)) : Concerns(Tail(q)[i], t) => cSeq'[c][t] > 0
    BY <1>3, <1>a, <1>g DEF Underway
  <2> QED BY <1>1, <1>2, <1>5, <1>b, <2>1 DEF Underway
<1>8. WrittenInOrder(c, t)'
  BY <1>a, <1>b, <1>g DEF WrittenInOrder
<1>9. ReadInOrder(c, t)'
  BY <1>5, <1>b DEF ReadInOrder
<1>10. NoneLost(c, t)'
  BY <1>b DEF NoneLost
<1>11. EndIsLast(c, t)'
  BY <1>2, <1>4, <1>6, <1>b, <1>g DEF EndIsLast
<1> QED BY <1>7, <1>8, <1>9, <1>10, <1>11 DEF ResponseInvAt

(* ResponseInv holds in every reachable state. *)
LEMMA ResponseInvariant == Spec => []ResponseInv
<1>1. Init => ResponseInv
  <2> SUFFICES ASSUME Init, NEW c \in Clients, NEW t \in Tags PROVE ResponseInvAt(c, t)
    BY DEF ResponseInv
  <2>1. /\ s2c[c] = <<>> /\ cEvents[c][t] = <<>> /\ sSent[c][t] = <<>>
    BY DEF Init, PipeInit, ClientInit, ServerInit
  <2>2. Len(<<>>) = 0
    OBVIOUS
  <2> QED BY <2>1, <2>2
      DEF ResponseInvAt, Underway, WrittenInOrder, ReadInOrder, NoneLost, EndIsLast, EndedBy,
          QueueIncreases, SeenBefore, HasQueued, MessagesIncrease, DeliveredInOrder, EndsLast
<1> DEFINE Known == TypeOK /\ GatewayInv /\ OpenInv /\ RequestInv /\ OwnerInv
<1>2. Known /\ ResponseInv /\ [Next]_vars => ResponseInv'
  <2> SUFFICES ASSUME Known, ResponseInv, [Next]_vars, NEW d \in Clients, NEW t \in Tags
               PROVE  ResponseInvAt(d, t)'
    BY DEF ResponseInv
  <2>0. ResponseInvAt(d, t)
    BY DEF ResponseInv
  <2>1. ASSUME UNCHANGED <<sock, c2s, s2c, clientVars, serverVars>>
        PROVE  RequestStep(d, t) /\ ResponseStep(d, t)
    <3>1. UNCHANGED <<sock, c2s, s2c, cSeq, cReg, cEvents, sEvents, opened, sReg, sSent, sSeq>>
      BY <2>1 DEF clientVars, serverVars
    <3> QED BY <3>1
        DEF RequestStep, NoRequestStep, SameService, ResponseStep, NoResponseStep
  <2>2. ASSUME NEW c \in Clients, ClientDies(c), UNCHANGED <<clientVars, serverVars>>
        PROVE  UNCHANGED <<sock, c2s, s2c, clientVars, serverVars>>
    BY <2>2 DEF ClientDies
  <2>3. ASSUME ServerDies, UNCHANGED <<clientVars, serverVars>>
        PROVE  UNCHANGED <<sock, c2s, s2c, clientVars, serverVars>>
    BY <2>3 DEF ServerDies
  <2>4. ASSUME UNCHANGED vars PROVE UNCHANGED <<sock, c2s, s2c, clientVars, serverVars>>
    BY <2>4 DEF vars, pipeVars
  <2>5. RequestStep(d, t)
    BY <2>1, <2>2, <2>3, <2>4, ClientRequestStep, ServerRequestStep DEF Next
  <2>6. ResponseStep(d, t)
    BY <2>1, <2>2, <2>3, <2>4, ClientResponseStep, ServerResponseStep DEF Next
  <2> QED
    BY <2>0, <2>5, <2>6, NoResponseInOrder, WriteInOrder, EndInOrder, DeliveryInOrder,
       CompletionInOrder
    DEF ResponseStep
<1>3. Spec => []Known
  BY TypeCorrect, GatewaysInvariant, OpenInvariant, RequestInvariant, OwnerInvariant, PTL
<1> QED BY <1>1, <1>2, <1>3, PTL DEF Spec

(* A client gets the responses its service wrote, each once, in order and  *)
(* without a gap (handleRouteChannelMsg), and the end of a channel behind  *)
(* all of them (sendRouteChannelEnd): however requests, disposals, refused *)
(* writes and lost connections fall together, only a Disconnected channel  *)
(* may have missed a response.                                             *)
THEOREM ResponsesComeBeforeTheEnd == Spec => []ResponsesPrecedeCompletion
<1>1. ResponseInv => ResponsesPrecedeCompletion
  BY DEF ResponseInv, ResponseInvAt, ReadInOrder, DeliveredInOrder, EndIsLast, AllReceived,
         HasMessage, ResponsesPrecedeCompletion
<1> QED BY <1>1, ResponseInvariant, PTL

-----------------------------------------------------------------------------
(***************************************************************************)
(* The routers over the pipe implement the channels of RpcChannel.         *)
(***************************************************************************)

(* How an end is seen in a sequence of events. *)
LEMMA EndSeen ==
  ASSUME NEW s \in Seq(Event)
  PROVE  /\ ~Completes(s) => EndIn(s) = "none"
         /\ \A e \in Event : EndIn(Append(s, e)) = IF e.kind = "completed" THEN e.err ELSE "none"
<1>1. ASSUME ~Completes(s) PROVE EndIn(s) = "none"
  <2>1. s # <<>> => Len(s) \in 1 .. Len(s)
    OBVIOUS
  <2> QED BY <1>1, <2>1 DEF Completes, EndIn, Ended, EndedBy
<1>2. ASSUME NEW e \in Event
      PROVE  EndIn(Append(s, e)) = IF e.kind = "completed" THEN e.err ELSE "none"
  <2>1. Append(s, e)[Len(Append(s, e))] = e /\ Append(s, e) # <<>>
    BY LastOfAppend
  <2>2. e.err \in ErrorCodes
    BY DEF Event
  <2> QED BY <2>1, <2>2 DEF EndIn, Ended, EndedBy
<1> QED BY <1>1, <1>2

(* What is received after one more event. *)
LEMMA ReceivedMore ==
  ASSUME NEW s \in Seq(Event), NEW e \in Event
  PROVE  Received(Append(s, e)) = IF e.kind = "message" THEN Received(s) \cup {e.seq} ELSE Received(s)
<1> DEFINE p == Append(s, e)
<1>1. /\ Len(s) \in Nat /\ Len(p) = Len(s) + 1
      /\ \A i \in 1 .. Len(s) : i \in 1 .. Len(p) /\ p[i] = s[i]
      /\ p[Len(s) + 1] = e
      /\ \A i \in 1 .. Len(p) : i \in 1 .. Len(s) \/ i = Len(s) + 1
      /\ Len(s) + 1 \in 1 .. Len(p)
  BY AppendIsMore
<1> HIDE DEF p
<1>2. \A n : n \in Received(p) <=> \E i \in 1 .. Len(p) : p[i].kind = "message" /\ p[i].seq = n
  BY DEF Received
<1>3. \A n : n \in Received(s) <=> \E i \in 1 .. Len(s) : s[i].kind = "message" /\ s[i].seq = n
  BY DEF Received
<1>4. \A n : n \in Received(p) <=> n \in Received(s) \/ (e.kind = "message" /\ n = e.seq)
  BY <1>1, <1>2, <1>3
<1> QED BY <1>4 DEF p

(* What is written after one more response. *)
LEMMA SentMore ==
  ASSUME NEW s \in Seq(Nat), NEW n \in Nat
  PROVE  Sent(Append(s, n)) = Sent(s) \cup {n}
<1> DEFINE p == Append(s, n)
<1>1. /\ Len(s) \in Nat /\ Len(p) = Len(s) + 1
      /\ \A i \in 1 .. Len(s) : i \in 1 .. Len(p) /\ p[i] = s[i]
      /\ p[Len(s) + 1] = n
      /\ \A i \in 1 .. Len(p) : i \in 1 .. Len(s) \/ i = Len(s) + 1
      /\ Len(s) + 1 \in 1 .. Len(p)
  BY AppendIsMore
<1> HIDE DEF p
<1>2. \A m : m \in Sent(p) <=> m \in Sent(s) \/ m = n
  BY <1>1 DEF Sent
<1> QED BY <1>2 DEF p

-----------------------------------------------------------------------------
(* Why an end on its way is an end of the abstract channel: the daemon     *)
(* writes it only after its service is gone, and the client only after its *)
(* channel is destroyed.                                                   *)
ServiceGone(c, t) ==
  \A i \in 1 .. Len(s2c[c]) : IsEnd(s2c[c][i], t) => t \notin sLive[c] /\ s2c[c][i].err \in AppCodes
OwnerGone(c, t) ==
  \A i \in 1 .. Len(c2s[c]) : IsEnd(c2s[c][i], t) =>
    t < nextTag[c] /\ t \notin cLive[c] /\ c2s[c][i].err \in AppCodes
EndInvAt(c, t) ==
  /\ t \in sLive[c] => opened[c][t] # 0
  /\ ServiceGone(c, t) /\ OwnerGone(c, t)
EndInv == \A c \in Clients, t \in Tags : EndInvAt(c, t)

(* A step of a client keeps EndInv. *)
LEMMA ClientStepEnds ==
  ASSUME TypeOK, OwnerInv, EndInv, NEW c \in Clients, ClientStep(c), UNCHANGED serverVars,
         NEW d \in Clients, NEW t \in Tags
  PROVE  EndInvAt(d, t)'
<1>a. EndInvAt(d, t) /\ UNCHANGED <<sLive, opened>>
  BY DEF EndInv, serverVars
<1>t. /\ ClientTypeOK /\ s2c[d] \in Seq(Route) /\ c2s[d] \in Seq(Route)
      /\ s2c \in [Clients -> Seq(Route)] /\ c2s \in [Clients -> Seq(Route)]
  BY DEF TypeOK, PipeTypeOK
<1>n. nextTag[d] \in Nat /\ t \in Nat
  <2>1. nextTag[d] \in 0 .. NumTags
    BY <1>t DEF ClientTypeOK
  <2> QED BY <2>1, IpcAssumption DEF Tags
(* A client only takes frames from the daemon's queue. *)
<1>b. ASSUME s2c' = s2c \/ s2c' = [s2c EXCEPT ![c] = <<>>]
               \/ (s2c[c] # <<>> /\ s2c' = [s2c EXCEPT ![c] = Tail(@)])
      PROVE  ServiceGone(d, t)'
  <2>1. s2c'[d] = s2c[d] \/ s2c'[d] = <<>> \/ (s2c[d] # <<>> /\ s2c'[d] = Tail(s2c[d]))
    BY <1>t, <1>b
  <2>2. CASE s2c'[d] = s2c[d]
    BY <1>a, <2>2 DEF EndInvAt, ServiceGone
  <2>3. CASE s2c'[d] = <<>>
    BY <2>3 DEF ServiceGone
  <2>4. CASE s2c[d] # <<>> /\ s2c'[d] = Tail(s2c[d])
    BY <1>a, <1>t, <2>4, TailIsRest DEF EndInvAt, ServiceGone
  <2> QED BY <2>1, <2>2, <2>3, <2>4
(* A destroyed channel is never made again. *)
<1>c. ASSUME \/ UNCHANGED <<nextTag, cLive>>
             \/ /\ nextTag' = [nextTag EXCEPT ![c] = @ + 1]
                /\ cLive' = [cLive EXCEPT ![c] = @ \cup {nextTag[c]}]
             \/ nextTag' = nextTag /\ \E u \in Tags : cLive' = [cLive EXCEPT ![c] = @ \ {u}]
      PROVE  t < nextTag[d] /\ t \notin cLive[d] => t < nextTag'[d] /\ t \notin cLive'[d]
  <2>1. CASE UNCHANGED <<nextTag, cLive>>
    BY <2>1
  <2>2. CASE /\ nextTag' = [nextTag EXCEPT ![c] = @ + 1]
             /\ cLive' = [cLive EXCEPT ![c] = @ \cup {nextTag[c]}]
    <3>1. /\ nextTag'[d] = nextTag[d] \/ nextTag'[d] = nextTag[d] + 1
          /\ cLive'[d] = cLive[d] \/ cLive'[d] = cLive[d] \cup {nextTag[d]}
      BY <1>t, <2>2 DEF ClientTypeOK
    <3> QED BY <1>n, <3>1
  <2>3. ASSUME nextTag' = nextTag, NEW u \in Tags, cLive' = [cLive EXCEPT ![c] = @ \ {u}]
        PROVE  t \notin cLive[d] => t \notin cLive'[d]
    BY <1>t, <2>3 DEF ClientTypeOK
  <2> QED BY <1>c, <2>1, <2>2, <2>3
<1>d. ASSUME c2s' = c2s,
             t < nextTag[d] /\ t \notin cLive[d] => t < nextTag'[d] /\ t \notin cLive'[d]
      PROVE  OwnerGone(d, t)'
  BY <1>a, <1>d DEF EndInvAt, OwnerGone
<1>e. ASSUME t < nextTag[d] /\ t \notin cLive[d] => t < nextTag'[d] /\ t \notin cLive'[d],
             NEW r \in Route, c2s' = c2s \/ c2s' = [c2s EXCEPT ![c] = Append(@, r)],
             d = c /\ IsEnd(r, t) => t < nextTag'[d] /\ t \notin cLive'[d] /\ r.err \in AppCodes
      PROVE  OwnerGone(d, t)'
  <2>1. c2s'[d] = c2s[d] \/ (d = c /\ c2s'[d] = Append(c2s[d], r))
    BY <1>t, <1>e
  <2>2. CASE c2s'[d] = c2s[d]
    BY <1>a, <1>e, <2>2 DEF EndInvAt, OwnerGone
  <2>3. CASE d = c /\ c2s'[d] = Append(c2s[d], r)
    BY <1>a, <1>e, <1>t, <2>3, AppendIsMore DEF EndInvAt, OwnerGone
  <2> QED BY <2>1, <2>2, <2>3
<1>f. ASSUME ServiceGone(d, t)', OwnerGone(d, t)' PROVE EndInvAt(d, t)'
  BY <1>a, <1>f DEF EndInvAt
(* The end a gateway writes when it is disposed of. *)
<1>g. ASSUME NEW u \in Tags, NEW e \in AppCodes, DisposeGateway(c, u, e), nextTag' = nextTag,
             t < nextTag[d] /\ t \notin cLive[d] => t < nextTag'[d] /\ t \notin cLive'[d],
             u \notin cLive'[c]
      PROVE  OwnerGone(d, t)'
  <2> DEFINE r == RouteChannelEnd(u, e)
  <2>1. r \in Route /\ r.tag = u /\ r.err = e
    BY RoutesAreRoutes DEF RouteChannelEnd
  <2>2. CASE SendsChEnd(c, u)
    <3>1. c2s' = c2s \/ c2s' = [c2s EXCEPT ![c] = Append(@, r)]
      BY <1>g, <2>2 DEF DisposeGateway, ClientPipeSend
    <3>2. u < nextTag[c]
      BY <2>2 DEF SendsChEnd, OwnerInv, OwnerInvAt, TagsBelow
    <3>3. d = c /\ IsEnd(r, t) => t < nextTag'[d] /\ t \notin cLive'[d] /\ r.err \in AppCodes
      BY <1>g, <2>1, <3>2 DEF IsEnd
    <3> HIDE DEF r
    <3> QED BY <1>e, <1>g, <2>1, <3>1, <3>3
  <2>3. CASE ~SendsChEnd(c, u)
    BY <1>d, <1>g, <2>3 DEF DisposeGateway
  <2> QED BY <2>2, <2>3
<1>1. CASE ClientStart(c)
  BY <1>b, <1>c, <1>d, <1>f, <1>1 DEF ClientStart, clientVars
<1>2. CASE ClientHandleConnect(c)
  <2>1. /\ UNCHANGED <<nextTag, cLive>>
        /\ s2c' = s2c \/ s2c' = [s2c EXCEPT ![c] = <<>>]
        /\ c2s' = c2s \/ c2s' = [c2s EXCEPT ![c] = Append(@, RouteConnect)]
    BY <1>2
    DEF ClientHandleConnect, SendRouteConnect, ClientPipeSend, CloseClientSocket, clientVars
  <2>2. RouteConnect \in Route /\ ~IsEnd(RouteConnect, t)
    BY RoutesAreRoutes DEF IsEnd, RouteConnect
  <2> QED BY <1>b, <1>e, <1>f, <2>1, <2>2
<1>3. CASE ClientMakeGateway(c)
  BY <1>b, <1>c, <1>d, <1>f, <1>3 DEF ClientMakeGateway, pipeVars
<1>4. ASSUME NEW u \in Tags, ClientSubscribe(c, u) \/ ClientNotify(c, u) PROVE EndInvAt(d, t)'
  BY <1>b, <1>c, <1>d, <1>f, <1>4 DEF ClientSubscribe, ClientNotify, pipeVars
<1>5. ASSUME NEW u \in Tags, ClientSend(c, u) PROVE EndInvAt(d, t)'
  <2> DEFINE r == RouteChannelMsg(u, cSeq[c][u])
  <2>1. r \in Route /\ ~IsEnd(r, t)
    BY RoutesAreRoutes, IpcAssumption DEF TypeOK, ClientTypeOK, IsEnd, RouteChannelMsg
  <2>2. /\ UNCHANGED <<s2c, nextTag, cLive>>
        /\ c2s' = c2s \/ c2s' = [c2s EXCEPT ![c] = Append(@, r)]
    BY <1>5 DEF ClientSend, ClientPipeSend
  <2> HIDE DEF r
  <2> QED BY <1>b, <1>e, <1>f, <2>1, <2>2
<1>6. ASSUME NEW u \in Tags, NEW e \in AppCodes, ClientDispose(c, u, e) PROVE EndInvAt(d, t)'
  <2>1. /\ UNCHANGED <<s2c, nextTag>> /\ DisposeGateway(c, u, e)
        /\ cLive' = [cLive EXCEPT ![c] = @ \ {u}]
    BY <1>6 DEF ClientDispose
  <2>2. u \notin cLive'[c]
    BY <1>t, <2>1 DEF ClientTypeOK
  <2>3. t < nextTag[d] /\ t \notin cLive[d] => t < nextTag'[d] /\ t \notin cLive'[d]
    BY <1>c, <2>1
  <2> QED BY <1>b, <1>f, <1>g, <2>1, <2>2, <2>3
<1>7. ASSUME NEW u \in Tags, NEW e \in AppCodes, ClientReleaseOrphan(c, u, e) PROVE EndInvAt(d, t)'
  <2>1. UNCHANGED <<s2c, nextTag, cLive>> /\ DisposeGateway(c, u, e) /\ u \notin cLive'[c]
    BY <1>7 DEF ClientReleaseOrphan, Orphans
  <2> QED BY <1>b, <1>f, <1>g, <2>1
<1>8. ASSUME NEW u \in Tags, ClientDisposeHeld(c, u) PROVE EndInvAt(d, t)'
  <2>1. UNCHANGED <<s2c, c2s, nextTag>> /\ cLive' = [cLive EXCEPT ![c] = @ \ {u}]
    BY <1>8 DEF ClientDisposeHeld, pipeVars
  <2> QED BY <1>b, <1>c, <1>d, <1>f, <2>1
<1>9. CASE ClientReceive(c)
  BY <1>b, <1>c, <1>d, <1>f, <1>9 DEF ClientReceive
<1>10. CASE ClientLosesPipe(c)
  BY <1>b, <1>c, <1>d, <1>f, <1>10 DEF ClientLosesPipe, CloseClientSocket
<1>11. CASE ClientLoopEnd(c)
  BY <1>b, <1>c, <1>d, <1>f, <1>11 DEF ClientLoopEnd, pipeVars
<1> QED
  BY <1>1, <1>2, <1>3, <1>4, <1>5, <1>6, <1>7, <1>8, <1>9, <1>10, <1>11
  DEF ClientStep, ClientApp, ClientExecutor

(* A step of the daemon keeps EndInv. *)
LEMMA ServerStepEnds ==
  ASSUME TypeOK, OpenInv, RequestInv, ResponseInv, EndInv, NEW c \in Clients, ServerStep(c),
         UNCHANGED clientVars, NEW d \in Clients, NEW t \in Tags
  PROVE  EndInvAt(d, t)'
<1>a. EndInvAt(d, t) /\ UNCHANGED <<nextTag, cLive>>
  BY DEF EndInv, clientVars
<1>t. /\ ServerTypeOK /\ s2c[d] \in Seq(Route) /\ c2s[d] \in Seq(Route) /\ c2s[c] \in Seq(Route)
      /\ s2c \in [Clients -> Seq(Route)] /\ c2s \in [Clients -> Seq(Route)]
      /\ opened[d][t] \in Nat
  BY DEF TypeOK, PipeTypeOK, ServerTypeOK
(* The daemon only takes frames from the client's queue. *)
<1>b. ASSUME c2s' = c2s \/ c2s' = [c2s EXCEPT ![c] = <<>>]
               \/ (c2s[c] # <<>> /\ c2s' = [c2s EXCEPT ![c] = Tail(@)])
      PROVE  OwnerGone(d, t)'
  <2>1. c2s'[d] = c2s[d] \/ c2s'[d] = <<>> \/ (c2s[d] # <<>> /\ c2s'[d] = Tail(c2s[d]))
    BY <1>t, <1>b
  <2>2. CASE c2s'[d] = c2s[d]
    BY <1>a, <2>2 DEF EndInvAt, OwnerGone
  <2>3. CASE c2s'[d] = <<>>
    BY <2>3 DEF OwnerGone
  <2>4. CASE c2s[d] # <<>> /\ c2s'[d] = Tail(c2s[d])
    BY <1>a, <1>t, <2>4, TailIsRest DEF EndInvAt, OwnerGone
  <2> QED BY <2>1, <2>2, <2>3, <2>4
(* It writes frames while no service appears. *)
<1>c. ASSUME OwnerGone(d, t)', opened' = opened, sLive'[d] \subseteq sLive[d],
             NEW r \in Route, s2c' = s2c \/ s2c' = [s2c EXCEPT ![c] = Append(@, r)],
             d = c /\ IsEnd(r, t) => t \notin sLive'[d] /\ r.err \in AppCodes
      PROVE  EndInvAt(d, t)'
  <2>1. s2c'[d] = s2c[d] \/ (d = c /\ s2c'[d] = Append(s2c[d], r))
    BY <1>t, <1>c
  <2>2. CASE s2c'[d] = s2c[d]
    BY <1>a, <1>c, <2>2 DEF EndInvAt, ServiceGone
  <2>3. CASE d = c /\ s2c'[d] = Append(s2c[d], r)
    <3>1. \A i \in 1 .. Len(s2c[d]) : IsEnd(s2c[d][i], t) => t \notin sLive[d] /\ s2c[d][i].err \in AppCodes
      BY <1>a DEF EndInvAt, ServiceGone
    <3>2. t \in sLive'[d] => t \in sLive[d]
      BY <1>c
    <3>3. \A i \in 1 .. Len(s2c'[d]) :
            (i \in 1 .. Len(s2c[d]) /\ s2c'[d][i] = s2c[d][i]) \/ s2c'[d][i] = r
      BY <1>t, <2>3, AppendIsMore
    <3>4. ServiceGone(d, t)'
      BY <1>c, <2>3, <3>1, <3>2, <3>3 DEF ServiceGone
    <3> QED BY <1>a, <1>c, <3>4 DEF EndInvAt
  <2> QED BY <2>1, <2>2, <2>3
<1>d. RouteConnect \in Route /\ ~IsEnd(RouteConnect, t)
  BY RoutesAreRoutes DEF IsEnd, RouteConnect
<1>1. CASE ServerAccept(c)
  BY <1>b, <1>c, <1>d, <1>1 DEF ServerAccept, serverVars
<1>2. CASE ServerReceive(c)
  <2> DEFINE m == Head(c2s[c])
  <2>1. c2s[c] # <<>> /\ m \in Route
    BY <1>2, <1>t DEF ServerReceive
  <2>2. m.tag \in Tags
    BY <2>1 DEF Route
  <2> HIDE DEF m
  <2>3. CASE ServerHandleRouteConnect(c)
    <3>1. /\ s2c' = s2c \/ s2c' = [s2c EXCEPT ![c] = Append(@, RouteConnect)]
          /\ c2s' = [c2s EXCEPT ![c] = <<>>] \/ c2s' = [c2s EXCEPT ![c] = Tail(@)]
          /\ UNCHANGED <<opened, sLive>>
      BY <2>3 DEF ServerHandleRouteConnect, ServerPipeSend, CloseServerContext
    <3> QED BY <1>b, <1>c, <1>d, <2>1, <3>1
  <2>4. CASE ServerHandleRouteChannelMsg(c, m) /\ m.kind = "msg"
    <3>1. c2s' = [c2s EXCEPT ![c] = Tail(@)]
      BY <2>4 DEF ServerHandleRouteChannelMsg
    <3>2. OwnerGone(d, t)'
      BY <1>b, <2>1, <3>1
    <3>3. CASE UNCHANGED <<s2c, sLive, opened>>
      BY <1>c, <1>d, <3>2, <3>3
    <3>4. TriggersFactory(c, m) => ~NoFirst(c2s[c], m.tag) /\ opened[c][m.tag] = 0
      <4>1. TriggersFactory(c, m) => IsFirst(m, m.tag)
        BY <2>4 DEF IsFirst, TriggersFactory
      <4>2. IsFirst(m, m.tag) => ~NoFirst(c2s[c], m.tag)
        BY <1>t, <2>1, TailIsRest DEF NoFirst, m
      <4> QED BY <2>2, <4>1, <4>2 DEF OpenInv, OpenInvAt
    <3>5. CASE TriggersFactory(c, m) /\ OpenChannel(c, m.tag)
      <4>1. /\ s2c' = s2c /\ sLive' = [sLive EXCEPT ![c] = @ \cup {m.tag}]
            /\ opened' = [opened EXCEPT ![c][m.tag] = @ + 1]
        BY <3>5 DEF OpenChannel
      <4>2. CASE d = c /\ t = m.tag
        <5>1. opened'[d][t] = opened[d][t] + 1
          BY <1>t, <4>1, <4>2 DEF ServerTypeOK
        <5>2. opened'[d][t] # 0
          BY <1>t, <5>1
        <5>3. ~Over(d, t)
          BY <3>4, <3>5, <4>2 DEF Over
        <5>4. \A i \in 1 .. Len(s2c[d]) : ~IsEnd(s2c[d][i], t)
          BY <5>3 DEF ResponseInv, ResponseInvAt, EndIsLast
        <5> QED BY <3>2, <4>1, <5>2, <5>4 DEF EndInvAt, ServiceGone
      <4>3. CASE ~(d = c /\ t = m.tag)
        <5>1. (t \in sLive'[d] => t \in sLive[d]) /\ opened'[d][t] = opened[d][t]
          BY <1>t, <4>1, <4>3 DEF ServerTypeOK
        <5> QED BY <1>a, <3>2, <4>1, <5>1 DEF EndInvAt, ServiceGone
      <4> QED BY <4>2, <4>3
    <3>6. CASE TriggersFactory(c, m) /\ DropUndecodable(c, m.tag)
      <4> DEFINE r == RouteChannelEnd(m.tag, "Success")
      <4>1. /\ s2c' = s2c \/ s2c' = [s2c EXCEPT ![c] = Append(@, r)]
            /\ UNCHANGED <<opened, sLive>>
        BY <3>6 DEF DropUndecodable, ServerPipeSend
      <4>2. r \in Route /\ r.tag = m.tag /\ r.err \in AppCodes
        BY <2>2, RoutesAreRoutes DEF RouteChannelEnd, AppCodes
      <4>3. m.tag \notin sLive[c]
        BY <2>2, <3>4, <3>6 DEF EndInv, EndInvAt
      <4> HIDE DEF r
      <4>4. d = c /\ IsEnd(r, t) => t \notin sLive'[d] /\ r.err \in AppCodes
        BY <4>1, <4>2, <4>3 DEF IsEnd
      <4> QED BY <1>c, <3>2, <4>1, <4>2, <4>4
    <3> QED BY <2>4, <3>3, <3>5, <3>6 DEF ServerHandleRouteChannelMsg
  <2>5. CASE ServerHandleRouteChannelEnd(c, m)
    BY <1>b, <1>c, <1>d, <2>1, <2>5 DEF ServerHandleRouteChannelEnd
  <2> QED BY <1>2, <2>3, <2>4, <2>5 DEF ServerReceive, m
<1>3. CASE ServerLosesPipe(c)
  BY <1>b, <1>c, <1>d, <1>3 DEF ServerLosesPipe, CloseServerContext
<1>4. ASSUME NEW u \in Tags, ServerSend(c, u) PROVE EndInvAt(d, t)'
  <2> DEFINE r == RouteChannelMsg(u, sSeq[c][u])
  <2>1. r \in Route /\ ~IsEnd(r, t)
    BY <1>t, RoutesAreRoutes, IpcAssumption DEF ServerTypeOK, IsEnd, RouteChannelMsg
  <2>2. /\ UNCHANGED <<c2s, sLive, opened>>
        /\ s2c' = s2c \/ s2c' = [s2c EXCEPT ![c] = Append(@, r)]
    BY <1>4 DEF ServerSend, ServerPipeSend
  <2> HIDE DEF r
  <2> QED BY <1>b, <1>c, <2>1, <2>2
<1>5. ASSUME NEW u \in Tags, NEW e \in AppCodes, ServerDispose(c, u, e) PROVE EndInvAt(d, t)'
  <2> DEFINE r == RouteChannelEnd(u, e)
  <2>1. r \in Route /\ r.tag = u /\ r.err = e
    BY RoutesAreRoutes DEF RouteChannelEnd
  <2>2. /\ UNCHANGED <<c2s, opened>> /\ sLive' = [sLive EXCEPT ![c] = @ \ {u}]
        /\ s2c' = s2c \/ s2c' = [s2c EXCEPT ![c] = Append(@, r)]
    BY <1>5 DEF ServerDispose, ServerPipeSend
  <2>3. sLive'[d] \subseteq sLive[d] /\ (d = c => u \notin sLive'[d])
    BY <1>t, <2>2 DEF ServerTypeOK
  <2>4. d = c /\ IsEnd(r, t) => t \notin sLive'[d] /\ r.err \in AppCodes
    BY <2>1, <2>3 DEF IsEnd
  <2> HIDE DEF r
  <2> QED BY <1>b, <1>c, <2>1, <2>2, <2>3, <2>4
<1> QED
  BY <1>1, <1>2, <1>3, <1>4, <1>5 DEF ServerStep, ServerApp, ServerExecutor

(* The invariants of the routers together. *)
RouterInv ==
  TypeOK /\ GatewayInv /\ OpenInv /\ RequestInv /\ OwnerInv /\ ResponseInv /\ EndInv

(* EndInv, and with it RouterInv, holds in every reachable state. *)
LEMMA RouterInvariant == Spec => []RouterInv
<1> DEFINE Known == TypeOK /\ GatewayInv /\ OpenInv /\ RequestInv /\ OwnerInv /\ ResponseInv
<1>1. Init => EndInv
  <2> SUFFICES ASSUME Init, NEW c \in Clients, NEW t \in Tags PROVE EndInvAt(c, t)
    BY DEF EndInv
  <2>1. s2c[c] = <<>> /\ c2s[c] = <<>> /\ sLive[c] = {}
    BY DEF Init, PipeInit, ServerInit
  <2>2. Len(<<>>) = 0
    OBVIOUS
  <2> QED BY <2>1, <2>2 DEF EndInvAt, ServiceGone, OwnerGone
<1>2. Known /\ EndInv /\ [Next]_vars => EndInv'
  <2> SUFFICES ASSUME Known, EndInv, [Next]_vars, NEW d \in Clients, NEW t \in Tags
               PROVE  EndInvAt(d, t)'
    BY DEF EndInv
  <2>1. ASSUME UNCHANGED <<c2s, s2c, clientVars, serverVars>> PROVE EndInvAt(d, t)'
    BY <2>1 DEF clientVars, serverVars, EndInv, EndInvAt, ServiceGone, OwnerGone
  <2>2. ASSUME NEW c \in Clients, ClientDies(c), UNCHANGED <<clientVars, serverVars>>
        PROVE  UNCHANGED <<c2s, s2c, clientVars, serverVars>>
    BY <2>2 DEF ClientDies
  <2>3. ASSUME ServerDies, UNCHANGED <<clientVars, serverVars>>
        PROVE  UNCHANGED <<c2s, s2c, clientVars, serverVars>>
    BY <2>3 DEF ServerDies
  <2>4. ASSUME UNCHANGED vars PROVE UNCHANGED <<c2s, s2c, clientVars, serverVars>>
    BY <2>4 DEF vars, pipeVars
  <2> QED BY <2>1, <2>2, <2>3, <2>4, ClientStepEnds, ServerStepEnds DEF Next
<1>3. Spec => []Known
  BY TypeCorrect, GatewaysInvariant, OpenInvariant, RequestInvariant, OwnerInvariant,
     ResponseInvariant, PTL
<1>4. Spec => []EndInv
  BY <1>1, <1>2, <1>3, PTL DEF Spec
<1> QED BY <1>3, <1>4, PTL DEF RouterInv

-----------------------------------------------------------------------------
(* Every step of the system is, for each channel, a step of RpcChannel or  *)
(* none.                                                                   *)
ChannelMoves(c, t) ==
  \/ ChannelState(c, t)' = ChannelState(c, t)
  \/ Rpc!Step(ChannelState(c, t), ChannelState(c, t)')

Asked(c, t) == cSeq[c][t] > 0
Released(c, t) == t < nextTag[c] /\ t \notin cLive[c]
Service(c, t) ==
  IF t \in sLive[c] THEN "working" ELSE IF opened[c][t] > 0 THEN "ended" ELSE "none"

(* A channel's state by its parts. *)
Chan(a, r, v, n, g, e, w) ==
  [asked |-> a, released |-> r, service |-> v, sent |-> n, got |-> g, done |-> e, told |-> w]

(* The state of a channel before and after a step. *)
LEMMA StateIs ==
  ASSUME NEW c \in Clients, NEW t \in Tags
  PROVE  /\ ChannelState(c, t) =
              Chan(Asked(c, t), Released(c, t), Service(c, t), Sent(sSent[c][t]),
                   Received(cEvents[c][t]), EndIn(cEvents[c][t]), EndIn(sEvents[c][t]))
         /\ ChannelState(c, t)' =
              Chan(Asked(c, t)', Released(c, t)', Service(c, t)', Sent(sSent'[c][t]),
                   Received(cEvents'[c][t]), EndIn(cEvents'[c][t]), EndIn(sEvents'[c][t]))
BY DEF ChannelState, Chan, Asked, Released, Service

(* The steps of RpcChannel, by what they change. Ask: *)
LEMMA AskStep ==
  ASSUME NEW a, NEW b, NEW r, NEW v, NEW n, NEW g, NEW e, NEW w
  PROVE  a = FALSE /\ b = TRUE /\ r = FALSE =>
           Rpc!Step(Chan(a, r, v, n, g, e, w), Chan(b, r, v, n, g, e, w))
<1> DEFINE x == Chan(a, r, v, n, g, e, w)
           y == Chan(b, r, v, n, g, e, w)
<1>1. x.asked = a /\ x.released = r /\ y = [x EXCEPT !.asked = b]
  BY DEF Chan
<1> HIDE DEF x, y
<1> QED BY <1>1, Zenon DEF Rpc!Step, Rpc!Ask, x, y

(* Release: *)
LEMMA ReleaseStep ==
  ASSUME NEW a, NEW r, NEW s, NEW v, NEW n, NEW g, NEW e, NEW w
  PROVE  r = FALSE /\ s = TRUE => Rpc!Step(Chan(a, r, v, n, g, e, w), Chan(a, s, v, n, g, e, w))
<1> DEFINE x == Chan(a, r, v, n, g, e, w)
           y == Chan(a, s, v, n, g, e, w)
<1>1. x.released = r /\ y = [x EXCEPT !.released = s]
  BY DEF Chan
<1> HIDE DEF x, y
<1> QED BY <1>1, Zenon DEF Rpc!Step, Rpc!Release, x, y

(* Begin: *)
LEMMA BeginStep ==
  ASSUME NEW a, NEW r, NEW n, NEW g, NEW e, NEW w
  PROVE  a = TRUE => Rpc!Step(Chan(a, r, "none", n, g, e, w), Chan(a, r, "working", n, g, e, w))
<1> DEFINE x == Chan(a, r, "none", n, g, e, w)
           y == Chan(a, r, "working", n, g, e, w)
<1>1. x.asked = a /\ x.service = "none" /\ y = [x EXCEPT !.service = "working"]
  BY DEF Chan
<1> HIDE DEF x, y
<1> QED BY <1>1, Zenon DEF Rpc!Step, Rpc!Begin, x, y

(* Respond: *)
LEMMA RespondStep ==
  ASSUME NEW a, NEW r, NEW n, NEW g, NEW e, NEW k, k \notin n, \A i \in n : i < k
  PROVE  Rpc!Step(Chan(a, r, "working", n, g, e, "none"),
                  Chan(a, r, "working", n \cup {k}, g, e, "none"))
BY DEF Chan, Rpc!Step, Rpc!Respond

(* Deliver: *)
LEMMA DeliverStep ==
  ASSUME NEW a, NEW r, NEW v, NEW n, NEW g, NEW w, NEW k \in n \ g,
         \A i \in n : i < k => i \in g, \A i \in g : i < k
  PROVE  r = FALSE => Rpc!Step(Chan(a, r, v, n, g, "none", w), Chan(a, r, v, n, g \cup {k}, "none", w))
<1> DEFINE x == Chan(a, r, v, n, g, "none", w)
           y == Chan(a, r, v, n, g \cup {k}, "none", w)
<1>1. x.released = r /\ x.done = "none" /\ x.sent = n /\ x.got = g
  BY DEF Chan
<1>2. y = [x EXCEPT !.got = g \cup {k}]
  BY DEF Chan
<1> HIDE DEF x, y
<1>3. y = [x EXCEPT !.got = @ \cup {k}]
  BY <1>1, <1>2
<1> QED BY <1>1, <1>3, Zenon DEF Rpc!Step, Rpc!Deliver, x, y

(* Finish: *)
LEMMA FinishStep ==
  ASSUME NEW a, NEW r, NEW n, NEW g, NEW e, NEW w
  PROVE  Rpc!Step(Chan(a, r, "working", n, g, e, w), Chan(a, r, "ended", n, g, e, w))
BY DEF Chan, Rpc!Step, Rpc!Finish

(* Complete: *)
LEMMA CompleteStep ==
  ASSUME NEW a, NEW r, NEW v, v # "working", NEW n, NEW w, NEW e \in AppCodes
  PROVE  a = TRUE /\ r = FALSE => Rpc!Step(Chan(a, r, v, n, n, "none", w), Chan(a, r, v, n, n, e, w))
<1> DEFINE x == Chan(a, r, v, n, n, "none", w)
           y == Chan(a, r, v, n, n, e, w)
<1>1. /\ x.asked = a /\ x.released = r /\ x.service # "working" /\ x.done = "none"
      /\ x.got = x.sent /\ y = [x EXCEPT !.done = e]
  BY DEF Chan
<1> HIDE DEF x, y
<1> QED BY <1>1, Zenon DEF Rpc!Step, Rpc!Complete, x, y

(* Abandon: *)
LEMMA AbandonStep ==
  ASSUME NEW a, NEW r, NEW n, NEW g, NEW e, NEW w \in AppCodes
  PROVE  r = TRUE => Rpc!Step(Chan(a, r, "working", n, g, e, "none"), Chan(a, r, "working", n, g, e, w))
<1> DEFINE x == Chan(a, r, "working", n, g, e, "none")
           y == Chan(a, r, "working", n, g, e, w)
<1>1. /\ x.released = r /\ x.service = "working" /\ x.told = "none"
      /\ y = [x EXCEPT !.told = w]
  BY DEF Chan
<1> HIDE DEF x, y
<1> QED BY <1>1, Zenon DEF Rpc!Step, Rpc!Abandon, x, y

(* Lose, told to the application: *)
LEMMA LoseStep ==
  ASSUME NEW a, NEW r, NEW v, NEW n, NEW g, NEW w
  PROVE  r = FALSE =>
           Rpc!Step(Chan(a, r, v, n, g, "none", w), Chan(a, r, v, n, g, "Disconnected", w))
<1> DEFINE x == Chan(a, r, v, n, g, "none", w)
           y == Chan(a, r, v, n, g, "Disconnected", w)
<1>1. x.released = r /\ x.done = "none" /\ y = [x EXCEPT !.done = "Disconnected"]
  BY DEF Chan
<1> HIDE DEF x, y
<1> QED BY <1>1, Zenon DEF Rpc!Step, Rpc!Lose, x, y

(* Lose, told to the service: *)
LEMMA ServiceLosesStep ==
  ASSUME NEW a, NEW r, NEW n, NEW g, NEW e
  PROVE  Rpc!Step(Chan(a, r, "working", n, g, e, "none"), Chan(a, r, "working", n, g, e, "Disconnected"))
<1> DEFINE x == Chan(a, r, "working", n, g, e, "none")
           y == Chan(a, r, "working", n, g, e, "Disconnected")
<1>1. x.service = "working" /\ x.told = "none" /\ y = [x EXCEPT !.told = "Disconnected"]
  BY DEF Chan
<1> HIDE DEF x, y
<1> QED BY <1>1, Zenon DEF Rpc!Step, Rpc!Lose, x, y

(* A channel of which nothing changes that its owners see. *)
LEMMA SameState ==
  ASSUME NEW c \in Clients, NEW t \in Tags,
         Asked(c, t)' = Asked(c, t), Released(c, t)' = Released(c, t),
         Service(c, t)' = Service(c, t), sSent'[c][t] = sSent[c][t],
         Received(cEvents'[c][t]) = Received(cEvents[c][t]),
         EndIn(cEvents'[c][t]) = EndIn(cEvents[c][t]),
         EndIn(sEvents'[c][t]) = EndIn(sEvents[c][t])
  PROVE  ChannelState(c, t)' = ChannelState(c, t)
BY StateIs

(* A client whose application makes, uses or destroys a channel. *)
LEMMA ApplicationMoves ==
  ASSUME RouterInv, NEW c \in Clients, ClientStep(c), UNCHANGED serverVars,
         NEW d \in Clients, NEW t \in Tags, cEvents'[d][t] = cEvents[d][t]
  PROVE  ChannelMoves(d, t)
<1>a. UNCHANGED <<sLive, opened, sSent, sEvents>> /\ cEvents'[d][t] = cEvents[d][t]
  BY DEF serverVars
<1>t. TypeOK /\ ClientTypeOK
  BY DEF RouterInv, TypeOK
<1>n. nextTag[d] \in Nat /\ t \in Nat /\ cSeq[d][t] \in Nat
  <2>1. nextTag[d] \in 0 .. NumTags
    BY <1>t DEF ClientTypeOK
  <2>2. nextTag[d] \in Nat /\ t \in Nat
    BY <2>1, IpcAssumption DEF Tags
  <2> QED BY <1>t, <2>2, ResponseTypes
<1>b. ASSUME Asked(d, t)' = Asked(d, t), Released(d, t)' = Released(d, t)
      PROVE  ChannelMoves(d, t)
  <2>1. Service(d, t)' = Service(d, t)
    BY <1>a DEF Service
  <2> QED BY <1>a, <1>b, <2>1, SameState DEF ChannelMoves
<1>c. ASSUME UNCHANGED <<cSeq, nextTag, cLive>> PROVE ChannelMoves(d, t)
  BY <1>b, <1>c DEF Asked, Released
(* Destroying channel u. *)
<1>d. ASSUME NEW u \in Tags, u \in cLive[c], UNCHANGED <<cSeq, nextTag>>,
             cLive' = [cLive EXCEPT ![c] = @ \ {u}]
      PROVE  ChannelMoves(d, t)
  <2>1. cLive'[d] = IF d = c THEN cLive[d] \ {u} ELSE cLive[d]
    BY <1>d, <1>t DEF ClientTypeOK
  <2>2. CASE d = c /\ t = u
    <3>1. t < nextTag[d] /\ t \in cLive[d] /\ t \notin cLive'[d]
      BY <1>d, <2>1, <2>2 DEF RouterInv, OwnerInv, OwnerInvAt, TagsBelow
    <3>2. /\ Released(d, t) = FALSE /\ Released(d, t)' = TRUE
          /\ Asked(d, t)' = Asked(d, t) /\ Service(d, t)' = Service(d, t)
      BY <1>a, <1>d, <3>1 DEF Asked, Released, Service
    <3> DEFINE x(r) == Chan(Asked(d, t), r, Service(d, t), Sent(sSent[d][t]),
                            Received(cEvents[d][t]), EndIn(cEvents[d][t]), EndIn(sEvents[d][t]))
    <3>3. Rpc!Step(x(Released(d, t)), x(Released(d, t)'))
      BY <3>2, ReleaseStep
    <3>4. ChannelState(d, t) = x(Released(d, t))
      BY StateIs
    <3>5. ChannelState(d, t)' = x(Released(d, t)')
      BY <1>a, <3>2, StateIs
    <3> QED BY <3>3, <3>4, <3>5 DEF ChannelMoves
  <2>3. CASE ~(d = c /\ t = u)
    <3>1. Released(d, t)' = Released(d, t)
      BY <1>d, <2>1, <2>3 DEF Released
    <3> QED BY <1>b, <1>d, <3>1 DEF Asked
  <2> QED BY <2>2, <2>3
<1>1. CASE ClientStart(c)
  BY <1>c, <1>1 DEF ClientStart, clientVars
<1>2. CASE ClientHandleConnect(c)
  BY <1>c, <1>2 DEF ClientHandleConnect, SendRouteConnect, clientVars
<1>3. CASE ClientMakeGateway(c)
  <2>1. /\ nextTag' = [nextTag EXCEPT ![c] = @ + 1] /\ cSeq' = cSeq
        /\ cLive' = [cLive EXCEPT ![c] = @ \cup {nextTag[c]}]
    BY <1>3 DEF ClientMakeGateway
  <2>2. CASE d # c
    <3>1. UNCHANGED <<nextTag[d], cLive[d]>>
      BY <1>t, <2>1, <2>2 DEF ClientTypeOK
    <3> QED BY <1>b, <2>1, <3>1 DEF Asked, Released
  <2>3. CASE d = c
    <3>1. nextTag'[d] = nextTag[d] + 1 /\ cLive'[d] = cLive[d] \cup {nextTag[d]}
      BY <1>t, <2>1, <2>3 DEF ClientTypeOK
    <3>2. Released(d, t)' = Released(d, t)
      <4>1. CASE t = nextTag[d]
        BY <1>n, <3>1, <4>1 DEF Released
      <4>2. CASE t # nextTag[d]
        <5>1. (t < nextTag'[d]) = (t < nextTag[d])
          BY <1>n, <3>1, <4>2
        <5> QED BY <3>1, <4>2, <5>1 DEF Released
      <4> QED BY <4>1, <4>2
    <3> QED BY <1>b, <2>1, <3>2 DEF Asked
  <2> QED BY <2>2, <2>3
<1>4. ASSUME NEW u \in Tags, ClientSubscribe(c, u) \/ ClientNotify(c, u) PROVE ChannelMoves(d, t)
  BY <1>c, <1>4 DEF ClientSubscribe, ClientNotify
<1>5. ASSUME NEW u \in Tags, ClientSend(c, u) PROVE ChannelMoves(d, t)
  <2>1. /\ UNCHANGED <<nextTag, cLive>> /\ u \in cLive[c]
        /\ cSeq' = [cSeq EXCEPT ![c][u] = @ + 1]
    BY <1>5 DEF ClientSend, NextSeq
  <2>2. cSeq'[d][t] = IF d = c /\ t = u THEN cSeq[d][t] + 1 ELSE cSeq[d][t]
    BY <1>t, <2>1 DEF ClientTypeOK
  <2>3. Released(d, t)' = Released(d, t)
    BY <2>1 DEF Released
  <2>4. CASE d = c /\ t = u /\ cSeq[d][t] = 0
    <3>1. Asked(d, t) = FALSE /\ Asked(d, t)' = TRUE
      BY <1>n, <2>2, <2>4 DEF Asked
    <3>2. /\ Released(d, t) = FALSE /\ Released(d, t)' = FALSE
          /\ Service(d, t)' = Service(d, t)
      BY <1>a, <2>1, <2>4 DEF Released, Service
    <3> DEFINE x(a) == Chan(a, Released(d, t), Service(d, t), Sent(sSent[d][t]),
                            Received(cEvents[d][t]), EndIn(cEvents[d][t]), EndIn(sEvents[d][t]))
    <3>3. Rpc!Step(x(Asked(d, t)), x(Asked(d, t)'))
      BY <3>1, <3>2, AskStep
    <3>4. ChannelState(d, t) = x(Asked(d, t))
      BY StateIs
    <3>5. ChannelState(d, t)' = x(Asked(d, t)')
      BY <1>a, <3>1, <3>2, StateIs
    <3> QED BY <3>3, <3>4, <3>5 DEF ChannelMoves
  <2>5. CASE ~(d = c /\ t = u /\ cSeq[d][t] = 0)
    <3>1. Asked(d, t)' = Asked(d, t)
      BY <1>n, <2>2, <2>5 DEF Asked
    <3> QED BY <1>b, <2>3, <3>1
  <2> QED BY <2>4, <2>5
<1>6. ASSUME NEW u \in Tags, NEW e \in AppCodes, ClientDispose(c, u, e) PROVE ChannelMoves(d, t)
  BY <1>d, <1>6 DEF ClientDispose
<1>7. ASSUME NEW u \in Tags, NEW e \in AppCodes, ClientReleaseOrphan(c, u, e)
      PROVE  ChannelMoves(d, t)
  BY <1>c, <1>7 DEF ClientReleaseOrphan
<1>8. ASSUME NEW u \in Tags, ClientDisposeHeld(c, u) PROVE ChannelMoves(d, t)
  BY <1>d, <1>8 DEF ClientDisposeHeld
<1>9. CASE ClientReceive(c)
  BY <1>c, <1>9 DEF ClientReceive
<1>10. CASE ClientLosesPipe(c)
  BY <1>c, <1>10 DEF ClientLosesPipe
<1>11. CASE ClientLoopEnd(c)
  BY <1>c, <1>11 DEF ClientLoopEnd
<1> QED
  BY <1>1, <1>2, <1>3, <1>4, <1>5, <1>6, <1>7, <1>8, <1>9, <1>10, <1>11
  DEF ClientStep, ClientApp, ClientExecutor

(* The response an owner gets is the next one it has not got. *)
LEMMA NextResponse ==
  ASSUME TypeOK, NEW c \in Clients, NEW t \in Tags, ResponseInvAt(c, t), ResponseDelivered(c, t)
  PROVE  \E n \in Sent(sSent[c][t]) \ Received(cEvents[c][t]) :
           /\ \A i \in Sent(sSent[c][t]) : i < n => i \in Received(cEvents[c][t])
           /\ \A i \in Received(cEvents[c][t]) : i < n
           /\ Message(n) \in Event /\ cEvents'[c][t] = Append(cEvents[c][t], Message(n))
<1> DEFINE q == s2c[c]
           s == cEvents[c][t]
           sent == sSent[c][t]
           n == Head(q).seq
<1>t. q \in Seq(Route) /\ s \in Seq(Event) /\ sent \in Seq(Nat)
  BY ResponseTypes
<1>a. Underway(c, t) /\ NoneLost(c, t) /\ EndsLast(q, t)
  BY DEF ResponseInvAt, EndIsLast
<1>b. /\ q # <<>> /\ IsMsg(Head(q), t) /\ t \in cReg[c] /\ sock[c] = "open"
      /\ cEvents'[c][t] = Append(s, Message(n))
  BY DEF ResponseDelivered, Read
<1>n. n \in Nat /\ Message(n) \in Event
  <2>1. Head(q) \in Route
    BY <1>t, <1>b
  <2>2. n \in Nat
    BY <2>1 DEF Route
  <2> HIDE DEF n
  <2> QED BY <2>2, EventsAreEvents
<1>1. QueuedAbove(Tail(q), t, n) /\ SeenBelow(s, n)
  <2>1. QueueIncreases(q, t) /\ SeenBefore(s, q, t)
    BY <1>a DEF Underway
  <2> HIDE DEF q, s
  <2> QED BY <1>t, <1>b, <2>1, TailInOrder
<1>2. /\ \A m : HasQueued(q, t, m) => HasQueued(Tail(q), t, m) \/ m = n
      /\ HasQueued(q, t, n)
  <2> HIDE DEF q
  <2> QED BY <1>t, <1>b, TailOfQueue
<1>3. Written(sent, n)
  BY <1>2, <1>a, <1>n DEF Underway
<1>4. \A k \in 1 .. Len(sent) : HasMessage(s, sent[k]) \/ HasQueued(q, t, sent[k])
  BY <1>a, <1>b DEF NoneLost
<1>5. \A i \in Received(s) : i < n
  BY <1>1 DEF Received, SeenBelow
<1>6. n \in Sent(sent)
  <2> HIDE DEF sent, n
  <2> QED BY <1>3 DEF Sent, Written
<1>7. \A m : HasMessage(s, m) => m \in Received(s)
  <2> SUFFICES ASSUME NEW m, NEW i \in 1 .. Len(s), s[i] = Message(m) PROVE m \in Received(s)
    BY DEF HasMessage
  <2>1. s[i].kind = "message" /\ s[i].seq = m
    BY DEF Message
  <2> QED BY <2>1 DEF Received
<1>8. ASSUME NEW k \in 1 .. Len(sent), sent[k] < n PROVE sent[k] \in Received(s)
  <2>1. sent[k] \in Nat
    BY <1>t
  <2> HIDE DEF q, n, sent, s
  <2>2. ~(n < sent[k]) /\ sent[k] # n
    BY <1>n, <1>8, <2>1
  <2>3. ~HasQueued(Tail(q), t, sent[k])
    BY <1>1, <2>2 DEF HasQueued, QueuedAbove
  <2> QED BY <1>2, <1>4, <1>7, <2>2, <2>3
<1> HIDE DEF q, n, sent, s
<1>9. n \notin Received(s) /\ \A i \in Sent(sent) : i < n => i \in Received(s)
  BY <1>5, <1>8, <1>n DEF Sent
<1> QED BY <1>5, <1>6, <1>9, <1>b, <1>n DEF s, sent

(* An owner told the end by its service has asked, and has every response. *)
LEMMA LastResponse ==
  ASSUME TypeOK, NEW c \in Clients, NEW t \in Tags, ResponseInvAt(c, t), EndInvAt(c, t),
         EndDelivered(c, t)
  PROVE  /\ Sent(sSent[c][t]) = Received(cEvents[c][t]) /\ cSeq[c][t] > 0 /\ t \notin sLive[c]
         /\ \E e \in AppCodes : /\ Completed(e) \in Event
                                /\ cEvents'[c][t] = Append(cEvents[c][t], Completed(e))
<1> DEFINE q == s2c[c]
           s == cEvents[c][t]
           sent == sSent[c][t]
<1>t. q \in Seq(Route) /\ s \in Seq(Event) /\ sent \in Seq(Nat)
  BY ResponseTypes
<1>a. Underway(c, t) /\ NoneLost(c, t) /\ EndsLast(q, t) /\ DeliveredInOrder(s, sent)
  BY DEF ResponseInvAt, EndIsLast, ReadInOrder
<1>b. /\ q # <<>> /\ IsEnd(Head(q), t) /\ t \in cReg[c] /\ sock[c] = "open"
      /\ cEvents'[c][t] = Append(s, Completed(Head(q).err))
  BY DEF EndDelivered, Read
<1>1. 1 \in 1 .. Len(q) /\ q[1] = Head(q)
  BY <1>t, <1>b, TailIsRest
<1>2. cSeq[c][t] > 0
  BY <1>1, <1>a, <1>b DEF Underway, Concerns
<1>3. t \notin sLive[c] /\ Head(q).err \in AppCodes
  BY <1>1, <1>b DEF EndInvAt, ServiceGone
<1>4. \A m : ~HasQueued(q, t, m)
  <2>1. ~IsMsg(Head(q), t)
    BY <1>b DEF IsMsg, IsEnd
  <2> HIDE DEF q
  <2> QED BY <1>t, <1>a, <1>b, <2>1, TailOfQueue
<1>5. \A k \in 1 .. Len(sent) : HasMessage(s, sent[k])
  BY <1>4, <1>a, <1>b DEF NoneLost
<1>6. \A m : HasMessage(s, m) => m \in Received(s)
  <2> SUFFICES ASSUME NEW m, NEW i \in 1 .. Len(s), s[i] = Message(m) PROVE m \in Received(s)
    BY DEF HasMessage
  <2>1. s[i].kind = "message" /\ s[i].seq = m
    BY DEF Message
  <2> QED BY <2>1 DEF Received
<1>7. Sent(sent) \subseteq Received(s)
  BY <1>5, <1>6 DEF Sent
<1>8. Received(s) \subseteq Sent(sent)
  BY <1>a DEF DeliveredInOrder, Received, Sent
<1>9. Sent(sent) = Received(s)
  BY <1>7, <1>8
<1>10. PICK e \in AppCodes : e = Head(q).err
  BY <1>3
<1>11. Completed(e) \in Event
  BY EventsAreEvents DEF AppCodes, ErrorCodes
<1> QED BY <1>2, <1>3, <1>9, <1>10, <1>11, <1>b

(* The owner of a channel is told something: a response, the end, the loss *)
(* of the connection, or that it is connected.                             *)
LEMMA EventMoves ==
  ASSUME RouterInv, NEW c \in Clients, ClientStep(c), UNCHANGED serverVars,
         NEW d \in Clients, NEW t \in Tags, cEvents'[d][t] # cEvents[d][t]
  PROVE  ChannelMoves(d, t)
<1>a. TypeOK /\ GatewayInv /\ OwnerInv /\ ResponseInv
  BY DEF RouterInv
<1>b. ResponseInvAt(d, t) /\ EndInvAt(d, t) /\ OwnerInvAt(d, t)
  BY DEF RouterInv, ResponseInv, EndInv, OwnerInv
<1>t. cEvents[d][t] \in Seq(Event)
  BY <1>a, ResponseTypes
<1>1. UNCHANGED <<cSeq, nextTag, cLive>>
  <2>1. CASE ClientStart(c) \/ ClientHandleConnect(c)
    BY <2>1 DEF ClientStart, ClientHandleConnect, clientVars
  <2>2. CASE ClientReceive(c) \/ ClientLosesPipe(c) \/ ClientLoopEnd(c)
    BY <2>2 DEF ClientReceive, ClientLosesPipe, ClientLoopEnd
  <2>3. CASE ClientMakeGateway(c)
    BY <2>3 DEF ClientMakeGateway
  <2>4. ASSUME NEW u \in Tags, ClientSubscribe(c, u) \/ ClientNotify(c, u)
        PROVE  UNCHANGED <<cSeq, nextTag, cLive>>
    BY <2>4 DEF ClientSubscribe, ClientNotify
  <2>5. ASSUME NEW u \in Tags, ClientSend(c, u) \/ ClientDisposeHeld(c, u)
        PROVE  cEvents' = cEvents
    BY <2>5 DEF ClientSend, ClientDisposeHeld
  <2>6. ASSUME NEW u \in Tags, NEW e \in AppCodes,
               ClientDispose(c, u, e) \/ ClientReleaseOrphan(c, u, e)
        PROVE  cEvents' = cEvents
    BY <2>6 DEF ClientDispose, ClientReleaseOrphan
  <2> QED BY <2>1, <2>2, <2>3, <2>4, <2>5, <2>6 DEF ClientStep, ClientApp, ClientExecutor
<1>2. UNCHANGED <<sLive, opened, sSent, sEvents>>
  BY DEF serverVars
<1>3. /\ Asked(d, t)' = Asked(d, t) /\ Released(d, t)' = Released(d, t)
      /\ Service(d, t)' = Service(d, t)
  BY <1>1, <1>2 DEF Asked, Released, Service
<1> DEFINE x(g, e) == Chan(Asked(d, t), Released(d, t), Service(d, t), Sent(sSent[d][t]),
                           g, e, EndIn(sEvents[d][t]))
<1>4. ChannelState(d, t) = x(Received(cEvents[d][t]), EndIn(cEvents[d][t]))
  BY StateIs
<1>5. ChannelState(d, t)' = x(Received(cEvents'[d][t]), EndIn(cEvents'[d][t]))
  BY <1>2, <1>3, StateIs
<1>6. ASSUME t \in cReg[d] \cup todo[d] PROVE EndIn(cEvents[d][t]) = "none"
  BY <1>6, <1>b, <1>t, EndSeen DEF OwnerInvAt, ClientEnds
<1>7. ASSUME t \in cLive[d] PROVE Released(d, t) = FALSE
  BY <1>7 DEF Released
<1>8. ASSUME NEW e \in Event, QuietlyTold(d, t, e) PROVE ChannelMoves(d, t)
  <2>1. /\ Quiet(e) /\ cEvents'[d][t] = Append(cEvents[d][t], e)
        /\ EndIn(cEvents[d][t]) = "none" /\ (e.kind = "completed" => t \in cLive[d])
    BY <1>6, <1>8 DEF QuietlyTold
  <2>2. Received(cEvents'[d][t]) = Received(cEvents[d][t])
    BY <1>t, <2>1, ReceivedMore DEF Quiet
  <2>3. EndIn(cEvents'[d][t]) = IF e.kind = "completed" THEN e.err ELSE "none"
    BY <1>t, <2>1, EndSeen
  <2>4. CASE e.kind # "completed"
    BY <1>4, <1>5, <2>1, <2>2, <2>3, <2>4 DEF ChannelMoves
  <2>5. CASE e.kind = "completed"
    <3>1. e.err \in ErrorCodes
      BY DEF Event
    <3>2. e.err = "Disconnected"
      BY <2>1, <2>5, <3>1 DEF Quiet, ErrorCodes
    <3>3. Rpc!Step(x(Received(cEvents[d][t]), "none"), x(Received(cEvents[d][t]), "Disconnected"))
      BY <1>7, <2>1, <2>5, LoseStep
    <3> QED BY <1>4, <1>5, <2>1, <2>2, <2>3, <2>5, <3>2, <3>3 DEF ChannelMoves
  <2> QED BY <2>4, <2>5
<1>9. CASE ResponseDelivered(d, t)
  <2> DEFINE g == Received(cEvents[d][t])
  <2>1. PICK n \in Sent(sSent[d][t]) \ g :
               /\ \A i \in Sent(sSent[d][t]) : i < n => i \in g
               /\ \A i \in g : i < n
               /\ Message(n) \in Event /\ cEvents'[d][t] = Append(cEvents[d][t], Message(n))
    BY <1>9, <1>a, <1>b, NextResponse
  <2>2. Message(n).kind = "message" /\ Message(n).seq = n
    BY DEF Message
  <2>3. Received(cEvents'[d][t]) = g \cup {n} /\ EndIn(cEvents'[d][t]) = "none"
    BY <1>t, <2>1, <2>2, ReceivedMore, EndSeen
  <2>4. EndIn(cEvents[d][t]) = "none" /\ Released(d, t) = FALSE
    BY <1>6, <1>7, <1>9 DEF ResponseDelivered
  <2> HIDE DEF g
  <2>5. Rpc!Step(x(g, "none"), x(g \cup {n}, "none"))
    BY <2>1, <2>4, DeliverStep
  <2> QED BY <1>4, <1>5, <2>3, <2>4, <2>5 DEF ChannelMoves, g
<1>10. CASE EndDelivered(d, t)
  <2> DEFINE g == Received(cEvents[d][t])
  <2>1. Sent(sSent[d][t]) = g /\ cSeq[d][t] > 0 /\ t \notin sLive[d]
    BY <1>10, <1>a, <1>b, LastResponse
  <2>2. PICK e \in AppCodes : /\ Completed(e) \in Event
                              /\ cEvents'[d][t] = Append(cEvents[d][t], Completed(e))
    BY <1>10, <1>a, <1>b, LastResponse
  <2>3. Completed(e).kind = "completed" /\ Completed(e).err = e
    BY DEF Completed
  <2>4. Received(cEvents'[d][t]) = g /\ EndIn(cEvents'[d][t]) = e
    BY <1>t, <2>2, <2>3, ReceivedMore, EndSeen
  <2>5. EndIn(cEvents[d][t]) = "none" /\ Released(d, t) = FALSE
    BY <1>6, <1>7, <1>10 DEF EndDelivered
  <2>6. Asked(d, t) = TRUE /\ Service(d, t) # "working"
    BY <2>1 DEF Asked, Service
  <2>7. Rpc!Step(x(g, "none"), x(g, e))
    <3> HIDE DEF g
    <3> QED BY <2>1, <2>5, <2>6, CompleteStep
  <2> QED BY <1>4, <1>5, <2>4, <2>5, <2>7 DEF ChannelMoves
<1> QED
  BY <1>8, <1>9, <1>10, <1>a, ClientResponseStep
  DEF ResponseStep, NoResponseStep, ResponseWritten, EndWritten, OwnerSame

(* A step of the daemon: a service is given a channel, responds, ends, or  *)
(* is told that its client has ended or is gone.                           *)
LEMMA ServerMoves ==
  ASSUME RouterInv, NEW c \in Clients, ServerStep(c), UNCHANGED clientVars,
         NEW d \in Clients, NEW t \in Tags
  PROVE  ChannelMoves(d, t)
<1>a. TypeOK /\ ServerTypeOK
  BY DEF RouterInv, TypeOK
<1>b. OpenInvAt(d, t) /\ RequestInvAt(d, t) /\ ResponseInvAt(d, t) /\ EndInvAt(d, t)
  BY DEF RouterInv, OpenInv, RequestInv, ResponseInv, EndInv
<1>t. /\ sEvents[d][t] \in Seq(Event) /\ sSent[d][t] \in Seq(Nat) /\ sSeq[d][t] \in Nat
      /\ opened[d][t] \in Nat /\ c2s[c] \in Seq(Route) /\ cSeq[d][t] \in Nat
  BY <1>a, ResponseTypes DEF ServerTypeOK
<1>1. UNCHANGED <<cSeq, nextTag, cLive, cEvents>>
  BY DEF clientVars
<1>2. Asked(d, t)' = Asked(d, t) /\ Released(d, t)' = Released(d, t)
  BY <1>1 DEF Asked, Released
<1> DEFINE x(v, n, w) == Chan(Asked(d, t), Released(d, t), v, n,
                              Received(cEvents[d][t]), EndIn(cEvents[d][t]), w)
           sent == Sent(sSent[d][t])
<1>3. ChannelState(d, t) = x(Service(d, t), sent, EndIn(sEvents[d][t]))
  BY StateIs
<1>4. ChannelState(d, t)' = x(Service(d, t)', Sent(sSent'[d][t]), EndIn(sEvents'[d][t]))
  BY <1>1, <1>2, StateIs
<1> HIDE DEF x, sent
<1>5. ASSUME UNCHANGED <<opened[d][t], sSent[d][t]>>, t \in sLive'[d] <=> t \in sLive[d],
             EndIn(sEvents'[d][t]) = EndIn(sEvents[d][t])
      PROVE  ChannelMoves(d, t)
  <2>1. Service(d, t)' = Service(d, t)
    BY <1>5 DEF Service
  <2> QED BY <1>3, <1>4, <1>5, <2>1 DEF ChannelMoves, sent
<1>6. ASSUME t \in sReg[d] PROVE EndIn(sEvents[d][t]) = "none"
  BY <1>6, <1>b, <1>t, EndSeen DEF RequestInvAt, ServiceEnds
<1>7. ASSUME t \in sLive[d] PROVE Service(d, t) = "working"
  BY <1>7 DEF Service
(* The service is told an end, or that the connection is lost. *)
<1>8. ASSUME UNCHANGED <<opened[d][t], sSent[d][t], sLive[d]>>, t \in sReg[d], t \in sLive[d],
             NEW e \in ErrorCodes, sEvents'[d][t] = Append(sEvents[d][t], Completed(e)),
             e # "Disconnected" => Released(d, t)
      PROVE  ChannelMoves(d, t)
  <2>1. Completed(e) \in Event /\ Completed(e).kind = "completed" /\ Completed(e).err = e
    BY EventsAreEvents DEF Completed
  <2>2. EndIn(sEvents'[d][t]) = e
    BY <1>8, <1>t, <2>1, EndSeen
  <2>3. Service(d, t)' = "working" /\ Service(d, t) = "working"
    BY <1>8 DEF Service
  <2>4. ChannelState(d, t) = x("working", sent, "none") /\ ChannelState(d, t)' = x("working", sent, e)
    BY <1>3, <1>4, <1>6, <1>8, <2>2, <2>3 DEF sent
  <2>5. CASE e = "Disconnected"
    <3>1. Rpc!Step(x("working", sent, "none"), x("working", sent, "Disconnected"))
      BY ServiceLosesStep DEF x
    <3> QED BY <2>4, <2>5, <3>1 DEF ChannelMoves
  <2>6. CASE e # "Disconnected"
    <3>1. e \in AppCodes /\ Released(d, t) = TRUE
      BY <1>8, <2>6 DEF ErrorCodes, Released
    <3>2. Rpc!Step(x("working", sent, "none"), x("working", sent, e))
      BY <3>1, AbandonStep DEF x
    <3> QED BY <2>4, <3>2 DEF ChannelMoves
  <2> QED BY <2>5, <2>6
<1>9. ASSUME Forget(c), UNCHANGED <<sLive, opened, sSent>> PROVE ChannelMoves(d, t)
  <2>1. sEvents'[d][t] = IF d = c /\ Findable(c, t)
                           THEN Append(sEvents[d][t], Completed("Disconnected"))
                           ELSE sEvents[d][t]
    BY <1>9, <1>a DEF Forget, ServerTypeOK
  <2>2. CASE d = c /\ Findable(c, t)
    <3>1. t \in sReg[d] /\ t \in sLive[d] /\ "Disconnected" \in ErrorCodes
      BY <2>2 DEF Findable, ErrorCodes
    <3>2. sEvents'[d][t] = Append(sEvents[d][t], Completed("Disconnected"))
      BY <2>1, <2>2
    <3> QED BY <1>8, <1>9, <3>1, <3>2
  <2>3. CASE ~(d = c /\ Findable(c, t))
    BY <1>5, <1>9, <2>1, <2>3
  <2> QED BY <2>2, <2>3
<1>10. CASE ServerAccept(c)
  BY <1>5, <1>10 DEF ServerAccept, serverVars
<1>11. CASE ServerReceive(c)
  <2> DEFINE m == Head(c2s[c])
  <2>1. c2s[c] # <<>> /\ m \in Route /\ 1 \in 1 .. Len(c2s[c]) /\ c2s[c][1] = m
    BY <1>11, <1>t, TailIsRest DEF ServerReceive
  <2>2. m.tag \in Tags /\ m.err \in ErrorCodes /\ m.seq \in Nat
    BY <2>1 DEF Route
  <2> HIDE DEF m
  <2>3. PICK u \in Tags : u = m.tag
    BY <2>2
  <2>4. CASE ServerHandleRouteConnect(c)
    <3>1. UNCHANGED <<sLive, opened, sSent>> /\ (Forget(c) \/ sEvents' = sEvents)
      BY <2>4 DEF ServerHandleRouteConnect
    <3> QED BY <1>5, <1>9, <3>1
  <2>5. CASE m.kind = "msg" /\ ServerHandleRouteChannelMsg(c, m)
    <3>1. sSent' = sSent
      BY <2>5 DEF ServerHandleRouteChannelMsg
    <3>2. CASE UNCHANGED <<sLive, opened, sEvents>>
      BY <1>5, <3>1, <3>2
    <3>3. CASE Findable(c, u)
      <4>1. /\ sEvents' = [sEvents EXCEPT ![c][u] = Append(@, Message(m.seq))]
            /\ UNCHANGED <<sLive, opened>>
        BY <2>3, <2>5, <3>3 DEF ServerHandleRouteChannelMsg
      <4>2. sEvents'[d][t] = IF d = c /\ t = u THEN Append(sEvents[d][t], Message(m.seq))
                                               ELSE sEvents[d][t]
        BY <1>a, <4>1 DEF ServerTypeOK
      <4>3. CASE d = c /\ t = u
        <5>1. Message(m.seq) \in Event
          BY <2>2, EventsAreEvents
        <5>2. Message(m.seq).kind = "message"
          BY DEF Message
        <5>3. EndIn(sEvents'[d][t]) = "none"
          BY <1>t, <4>2, <4>3, <5>1, <5>2, EndSeen
        <5>4. EndIn(sEvents[d][t]) = "none"
          BY <1>6, <3>3, <4>3 DEF Findable
        <5> QED BY <1>5, <3>1, <4>1, <5>3, <5>4
      <4>4. CASE ~(d = c /\ t = u)
        BY <1>5, <3>1, <4>1, <4>2, <4>4
      <4> QED BY <4>3, <4>4
    <3>4. CASE OpenChannel(c, u) /\ TriggersFactory(c, m)
      <4>1. /\ sEvents' = [sEvents EXCEPT ![c][u] = @ \o FirstEvents]
            /\ opened' = [opened EXCEPT ![c][u] = @ + 1]
            /\ sLive' = [sLive EXCEPT ![c] = @ \cup {u}]
        BY <3>4 DEF OpenChannel
      <4>2. CASE d = c /\ t = u
        <5>1. /\ sEvents'[d][t] = sEvents[d][t] \o FirstEvents
              /\ opened'[d][t] = opened[d][t] + 1 /\ t \in sLive'[d]
          BY <1>a, <4>1, <4>2 DEF ServerTypeOK
        <5>2. IsFirst(m, t)
          BY <2>3, <2>5, <3>4, <4>2 DEF IsFirst, TriggersFactory
        <5>3. opened[d][t] = 0 /\ cSeq[d][t] > 0
          BY <1>b, <2>1, <4>2, <5>2 DEF OpenInvAt, NoFirst
        <5>4. t \notin sLive[d] /\ sEvents[d][t] = <<>>
          BY <1>b, <5>3 DEF EndInvAt, RequestInvAt, ServiceInOrder
        <5>5. Service(d, t) = "none" /\ Service(d, t)' = "working" /\ Asked(d, t) = TRUE
          BY <5>1, <5>3, <5>4 DEF Service, Asked
        <5>6. EndIn(sEvents[d][t]) = "none"
          BY <5>4 DEF EndIn, Ended, EndedBy
        <5>7. EndIn(sEvents'[d][t]) = "none"
          <6>1. sEvents'[d][t] = <<Connected, Message(0)>>
            BY <5>1, <5>4 DEF FirstEvents
          <6>2. <<Connected, Message(0)>>[Len(<<Connected, Message(0)>>)] = Message(0)
            OBVIOUS
          <6>3. Message(0).kind # "completed"
            BY DEF Message
          <6> QED BY <6>1, <6>2, <6>3 DEF EndIn, Ended, EndedBy
        <5>8. Rpc!Step(x("none", sent, "none"), x("working", sent, "none"))
          BY <5>5, BeginStep DEF x
        <5> QED BY <1>3, <1>4, <3>1, <5>5, <5>6, <5>7, <5>8 DEF ChannelMoves, sent
      <4>3. CASE ~(d = c /\ t = u)
        <5>1. sEvents'[d][t] = sEvents[d][t] /\ opened'[d][t] = opened[d][t]
          BY <1>a, <4>1, <4>3 DEF ServerTypeOK
        <5>2. t \in sLive'[d] <=> t \in sLive[d]
          BY <1>a, <4>1, <4>3 DEF ServerTypeOK
        <5> QED BY <1>5, <3>1, <5>1, <5>2
      <4> QED BY <4>2, <4>3
    <3> QED BY <2>3, <2>5, <3>2, <3>3, <3>4 DEF ServerHandleRouteChannelMsg, DropUndecodable
  <2>6. CASE m.kind = "end" /\ ServerHandleRouteChannelEnd(c, m)
    <3>1. UNCHANGED <<sLive, opened, sSent>>
      BY <2>6 DEF ServerHandleRouteChannelEnd
    <3>2. CASE sEvents' = sEvents
      BY <1>5, <3>1, <3>2
    <3>3. CASE Findable(c, u)
      <4>1. sEvents' = [sEvents EXCEPT ![c][u] = Append(@, Completed(m.err))]
        BY <2>3, <2>6, <3>3 DEF ServerHandleRouteChannelEnd
      <4>2. sEvents'[d][t] = IF d = c /\ t = u THEN Append(sEvents[d][t], Completed(m.err))
                                               ELSE sEvents[d][t]
        BY <1>a, <4>1 DEF ServerTypeOK
      <4>3. CASE d = c /\ t = u
        <5>1. t \in sReg[d] /\ t \in sLive[d]
          BY <3>3, <4>3 DEF Findable
        <5>2. IsEnd(c2s[d][1], t) /\ 1 \in 1 .. Len(c2s[d])
          BY <2>1, <2>3, <2>6, <4>3 DEF IsEnd
        <5>3. Released(d, t)
          BY <1>b, <5>2 DEF EndInvAt, OwnerGone, Released
        <5> QED BY <1>8, <2>2, <3>1, <4>2, <4>3, <5>1, <5>3
      <4>4. CASE ~(d = c /\ t = u)
        BY <1>5, <3>1, <4>2, <4>4
      <4> QED BY <4>3, <4>4
    <3> QED BY <2>3, <2>6, <3>2, <3>3 DEF ServerHandleRouteChannelEnd
  <2> QED BY <1>11, <2>4, <2>5, <2>6 DEF ServerReceive, m
<1>12. CASE ServerLosesPipe(c)
  BY <1>9, <1>12 DEF ServerLosesPipe
<1>13. ASSUME NEW u \in Tags, ServerSend(c, u) PROVE ChannelMoves(d, t)
  <2>1. /\ UNCHANGED <<sLive, opened, sEvents>> /\ u \in sLive[c] /\ u \in sReg[c]
        /\ \/ sSent' = sSent
           \/ sSent' = [sSent EXCEPT ![c][u] = Append(@, sSeq[c][u])]
    BY <1>13 DEF ServerSend, ServerCanSend
  <2>2. \/ sSent'[d][t] = sSent[d][t]
        \/ d = c /\ t = u /\ sSent'[d][t] = Append(sSent[d][t], sSeq[d][t])
    <3>1. CASE sSent' = sSent
      BY <3>1
    <3>2. CASE sSent' = [sSent EXCEPT ![c][u] = Append(@, sSeq[c][u])]
      <4>1. sSent \in [Clients -> [Tags -> Seq(Nat)]]
        BY <1>a DEF ServerTypeOK
      <4>2. sSent'[d][t] = IF d = c /\ t = u THEN Append(sSent[c][u], sSeq[c][u]) ELSE sSent[d][t]
        BY <3>2, <4>1
      <4> QED BY <4>2
    <3> QED BY <2>1, <3>1, <3>2
  <2>3. CASE sSent'[d][t] = sSent[d][t]
    BY <1>5, <2>1, <2>3
  <2>4. CASE d = c /\ t = u /\ sSent'[d][t] = Append(sSent[d][t], sSeq[d][t])
    <3>1. Sent(sSent'[d][t]) = sent \cup {sSeq[d][t]}
      BY <1>t, <2>4, SentMore DEF sent
    <3>2. \A i \in sent : i < sSeq[d][t]
      BY <1>b DEF ResponseInvAt, WrittenInOrder, Sent, sent
    <3>3. sSeq[d][t] \notin sent
      <4>1. ~(sSeq[d][t] < sSeq[d][t])
        BY <1>t
      <4> QED BY <3>2, <4>1
    <3>4. Service(d, t) = "working" /\ Service(d, t)' = "working" /\ EndIn(sEvents[d][t]) = "none"
      BY <1>6, <2>1, <2>4 DEF Service
    <3>5. Rpc!Step(x("working", sent, "none"), x("working", sent \cup {sSeq[d][t]}, "none"))
      BY <3>2, <3>3, RespondStep DEF x
    <3> QED BY <1>3, <1>4, <2>1, <3>1, <3>4, <3>5 DEF ChannelMoves
  <2> QED BY <2>2, <2>3, <2>4
<1>14. ASSUME NEW u \in Tags, NEW e \in AppCodes, ServerDispose(c, u, e) PROVE ChannelMoves(d, t)
  <2>1. /\ UNCHANGED <<opened, sSent, sEvents>> /\ u \in sLive[c]
        /\ sLive' = [sLive EXCEPT ![c] = @ \ {u}]
    BY <1>14 DEF ServerDispose
  <2>2. sLive'[d] = IF d = c THEN sLive[d] \ {u} ELSE sLive[d]
    BY <1>a, <2>1 DEF ServerTypeOK
  <2>3. CASE d = c /\ t = u
    <3>1. t \in sLive[d] /\ t \notin sLive'[d] /\ opened[d][t] > 0
      BY <1>b, <1>t, <2>1, <2>2, <2>3 DEF EndInvAt
    <3>2. Service(d, t) = "working" /\ Service(d, t)' = "ended"
      BY <2>1, <3>1 DEF Service
    <3>3. Rpc!Step(x("working", sent, EndIn(sEvents[d][t])), x("ended", sent, EndIn(sEvents[d][t])))
      BY FinishStep DEF x
    <3> QED BY <1>3, <1>4, <2>1, <3>2, <3>3 DEF ChannelMoves, sent
  <2>4. CASE ~(d = c /\ t = u)
    <3>1. t \in sLive'[d] <=> t \in sLive[d]
      BY <2>2, <2>4
    <3> QED BY <1>5, <2>1, <3>1
  <2> QED BY <2>3, <2>4
<1> QED
  BY <1>10, <1>11, <1>12, <1>13, <1>14 DEF ServerStep, ServerApp, ServerExecutor

(* The initial states map to the initial state of RpcChannel. *)
LEMMA RefinementInit == Init => Rpc!Init
<1> SUFFICES ASSUME Init PROVE Rpc!Init
  OBVIOUS
<1>1. ASSUME NEW c \in Clients, NEW t \in Tags PROVE ChannelState(c, t) = Rpc!Fresh
  <2>1. /\ cSeq[c][t] = 0 /\ nextTag[c] = 0 /\ cEvents[c][t] = <<>>
        /\ sLive[c] = {} /\ opened[c][t] = 0 /\ sSent[c][t] = <<>> /\ sEvents[c][t] = <<>>
    BY DEF Init, ClientInit, ServerInit
  <2>2. EndIn(<<>>) = "none"
    BY DEF EndIn, Ended, EndedBy
  <2>3. Sent(<<>>) = {} /\ Received(<<>>) = {}
    BY DEF Sent, Received
  <2>4. (cSeq[c][t] > 0) = FALSE
    BY <2>1
  <2>5. (t < nextTag[c] /\ t \notin cLive[c]) = FALSE
    <3>1. t \in Nat
      BY IpcAssumption DEF Tags
    <3>2. ~(t < nextTag[c])
      BY <2>1, <3>1
    <3> QED BY <3>2
  <2>6. (IF t \in sLive[c] THEN "working" ELSE IF opened[c][t] > 0 THEN "ended" ELSE "none") = "none"
    BY <2>1
  <2> QED BY <2>1, <2>2, <2>3, <2>4, <2>5, <2>6 DEF ChannelState, Rpc!Fresh
<1> QED BY <1>1 DEF Rpc!Init

(* Every step of the system moves every channel by a step of RpcChannel or *)
(* leaves it as it is.                                                     *)
LEMMA RefinementStep ==
  ASSUME RouterInv, [Next]_vars, NEW d \in Clients, NEW t \in Tags
  PROVE  ChannelMoves(d, t)
<1>1. ASSUME UNCHANGED <<clientVars, serverVars>> PROVE ChannelMoves(d, t)
  <2>1. UNCHANGED <<cSeq, nextTag, cLive, cEvents, sLive, opened, sSent, sEvents>>
    BY <1>1 DEF clientVars, serverVars
  <2>2. /\ Asked(d, t)' = Asked(d, t) /\ Released(d, t)' = Released(d, t)
        /\ Service(d, t)' = Service(d, t)
    BY <2>1 DEF Asked, Released, Service
  <2> QED BY <2>1, <2>2, SameState DEF ChannelMoves
<1>2. ASSUME NEW c \in Clients, ClientStep(c), UNCHANGED serverVars PROVE ChannelMoves(d, t)
  BY <1>2, ApplicationMoves, EventMoves
<1>3. ASSUME NEW c \in Clients, ServerStep(c), UNCHANGED clientVars PROVE ChannelMoves(d, t)
  BY <1>3, ServerMoves
<1>4. CASE UNCHANGED vars
  BY <1>1, <1>4 DEF vars
<1> QED BY <1>1, <1>2, <1>3, <1>4 DEF Next

(* The two routers, the pipe and processes that die at any moment give the *)
(* owners of channels what RpcChannel promises, for any number of clients, *)
(* channels and messages: a request reaches one service at most, responses *)
(* come in order and before the end, and each side is told one end, which  *)
(* is the other's unless the connection was lost.                          *)
THEOREM RoutersImplementRpcChannel == Spec => ImplementsRpcChannel
<1> DEFINE channels == [c \in Clients |-> [t \in Tags |-> ChannelState(c, t)]]
<1>1. RouterInv /\ [Next]_vars => [Rpc!Next]_channels
  <2> SUFFICES ASSUME RouterInv, [Next]_vars PROVE Rpc!Next
    OBVIOUS
  <2>1. ASSUME NEW c \in Clients, NEW t \in Tags
        PROVE  \/ channels'[c][t] = channels[c][t]
               \/ Rpc!Step(channels[c][t], channels'[c][t])
    <3>1. channels[c][t] = ChannelState(c, t) /\ channels'[c][t] = ChannelState(c, t)'
      OBVIOUS
    <3>2. ChannelMoves(c, t)
      BY RefinementStep
    <3> HIDE DEF channels
    <3> QED BY <3>1, <3>2 DEF ChannelMoves
  <2>2. DOMAIN channels' = Clients /\ \A c \in Clients : DOMAIN channels'[c] = Tags
    OBVIOUS
  <2> QED BY <2>1, <2>2 DEF Rpc!Next
<1> QED BY <1>1, RefinementInit, RouterInvariant, PTL DEF Spec, ImplementsRpcChannel, Rpc!Spec

=============================================================================
