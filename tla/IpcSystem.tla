----------------------------- MODULE IpcSystem -----------------------------
(***************************************************************************)
(* The daemon and its SDK clients over the pipe: the client routers of all *)
(* client processes and the router of the daemon, each process taking its  *)
(* steps when it likes, and the environment ending processes.              *)
(***************************************************************************)
EXTENDS ClientRouter, ServerRouter

vars == <<pipeVars, clientVars, serverVars>>

Init == PipeInit /\ ClientInit /\ ServerInit

Next ==
  \/ \E c \in Clients : ClientStep(c) /\ UNCHANGED serverVars
  \/ \E c \in Clients : ServerStep(c) /\ UNCHANGED clientVars
  \/ \E c \in Clients : ClientDies(c) /\ UNCHANGED <<clientVars, serverVars>>
  \/ ServerDies /\ UNCHANGED <<clientVars, serverVars>>

Spec == Init /\ [][Next]_vars

(* Both processes spin their executor for ever and handlers return; a read *)
(* is bound to fail once the peer's end is closed, and not before.         *)
ExecutorFairness ==
  \A c \in Clients :
    /\ WF_vars(ClientExecutor(c) /\ (ClientLosesPipe(c) => ~ServerEnd(c)) /\ UNCHANGED serverVars)
    /\ WF_vars(ServerExecutor(c) /\ (ServerLosesPipe(c) => ~ClientEnd(c)) /\ UNCHANGED clientVars)

(* A service completes every channel it was given: the requests it makes   *)
(* for it have deadlines. Nothing in the routers depends on that.          *)
ServiceFairness ==
  \A c \in Clients, t \in Tags :
    WF_vars((\E e \in AppCodes : ServerDispose(c, t, e)) /\ UNCHANGED clientVars)

(* Applications and the environment owe nothing. *)
FairSpec == Spec /\ ExecutorFairness

(* Every variable has its type. *)
TypeOK == PipeTypeOK /\ ClientTypeOK /\ ServerTypeOK

-----------------------------------------------------------------------------
(* A gateway that is registered with a router exists: the weak pointers in *)
(* map_of_gateways_ never dangle, in either process, whatever order        *)
(* channels are made, ended and destroyed in - also inside the loops.      *)
RegisteredGatewayIsAlive ==
  \A c \in Clients :
    /\ cReg[c] \subseteq cLive[c] \cup held[c]
    /\ sReg[c] \subseteq sLive[c]

(* A service is given at most one channel for each channel a client made:  *)
(* no late, repeated or reordered message opens it again once either side  *)
(* has ended it (handleRouteChannelMsg, sequence == 0).                    *)
ChannelOpenedOncePerTag ==
  \A c \in Clients, t \in Tags : opened[c][t] <= 1

IsFinal(s) == \A i \in 1 .. Len(s) : s[i].kind = "completed" => i = Len(s)

(* Completed is the last event of a channel, on either side: nothing more  *)
(* arrives, and no second Completed, whichever of ChannelEnd, disposal and *)
(* loss of the pipe comes first.                                           *)
CompletedIsFinal ==
  \A c \in Clients, t \in Tags : IsFinal(cEvents[c][t]) /\ IsFinal(sEvents[c][t])

(* The messages among a channel's events are in the order of their numbers,*)
(* each at most once.                                                      *)
MessagesIncrease(s) ==
  \A i, j \in 1 .. Len(s) :
    i < j /\ s[i].kind = "message" /\ s[j].kind = "message" => s[i].seq < s[j].seq

EndedBy(s, codes) == s # <<>> /\ s[Len(s)].kind = "completed" /\ s[Len(s)].err \in codes
Ended(s) == EndedBy(s, ErrorCodes)

(* A client channel gets the messages its service wrote, once each and in  *)
(* order, none left out before another; and one completed by the service   *)
(* got all of them: no response is behind the end of the channel. Only     *)
(* Disconnected may cut the responses short.                               *)
ResponsesPrecedeCompletion ==
  \A c \in Clients, t \in Tags :
    LET got  == cEvents[c][t]
        sent == sSent[c][t]
    IN  /\ MessagesIncrease(got)
        /\ \A i \in 1 .. Len(got) : got[i].kind = "message" =>
             \E k \in 1 .. Len(sent) :
               /\ sent[k] = got[i].seq
               /\ \A l \in 1 .. k - 1 : \E h \in 1 .. i - 1 : got[h] = Message(sent[l])
        /\ EndedBy(got, AppCodes) =>
             \A k \in 1 .. Len(sent) : \E i \in 1 .. Len(got) : got[i] = Message(sent[k])

(* A service sees the messages of a channel from the very first one, and   *)
(* in increasing order.                                                    *)
RequestsArriveFromTheFirst ==
  \A c \in Clients, t \in Tags :
    LET got == sEvents[c][t] IN
    /\ MessagesIncrease(got)
    /\ \A j \in 1 .. Len(got) : got[j].kind = "message" =>
         \E i \in 1 .. j : got[i] = Message(0)

(* A channel message the daemon is about to read is from a client that it  *)
(* knows: a client never gets ahead of the RouteConnect handshake, and so  *)
(* its request is never dropped as unsolicited because of that.            *)
RequestsFindTheirClient ==
  \A c \in Clients :
    ServerEnd(c) /\ c2s[c] # <<>> /\ Head(c2s[c]).kind # "connect" => c \in known

(* An event reaches the handler of a channel that was destroyed only from  *)
(* the loop that announces Connected (forEachRegisteredGateway keeps the   *)
(* gateways it is going to call): no message and no Completed does.        *)
OnlyConnectedComesLate ==
  [][\A c \in Clients, t \in Tags :
       LET got == cEvents'[c][t] IN
       got # cEvents[c][t] /\ got[Len(got)].kind = "late" => loop[c] = "connected"]_vars

-----------------------------------------------------------------------------
(* The death of a client reaches the services that work for it, or the     *)
(* daemon is gone as well.                                                 *)
PeerDeathReachesServices ==
  \A c \in Clients :
    c \notin alive ~>
      (server # "up" \/ (c \notin known /\ \A t \in sLive[c] : Ended(sEvents[c][t])))

(* A channel in use when the connection breaks is completed.               *)
PipeLossReachesUsedChannels ==
  \A c \in Clients, t \in Tags :
    (c \in conn /\ t \in cReg[c] /\ t \in cSub[c] /\ ~ServerEnd(c)) ~>
      (c \notin alive \/ t \notin cLive[c] \/ Ended(cEvents[c][t]))

(* If services complete their channels, then a client that sent a request  *)
(* for a registered service, and that waits, sees its channel completed -  *)
(* provided no write is refused for lack of buffer space.                  *)
RequestIsCompleted ==
  ServiceFairness =>
    \A c \in Clients, t \in Served :
      (cSeq[c][t] > 0) ~> (c \notin alive \/ t \notin cLive[c] \/ Ended(cEvents[c][t]))

-----------------------------------------------------------------------------
(* What the repository's comments say of the routers, and the code does    *)
(* not do.                                                                 *)

(* channel.hpp:70: any unexpected communication error, such as the sudden  *)
(* death of the peer, leads to the completion of the channel. A pipe lost  *)
(* before the RouteConnect reply leaves its channels without Completed.    *)
PipeLossReachesEveryChannel ==
  \A c \in Clients, t \in Tags :
    (sock[c] = "open" /\ t \in cSub[c] /\ ~ServerEnd(c)) ~>
      (c \notin alive \/ t \notin cLive[c] \/ Ended(cEvents[c][t]))

(* channel.hpp:70, the daemon's side: the death of a client ends channels, *)
(* it does not end the daemon. A response to a client that is gone raises  *)
(* SIGPIPE, which nothing handles.                                         *)
DaemonSurvivesItsClients == server # "sigpipe"

=============================================================================
