------------------------------- MODULE Reactor -------------------------------
(***************************************************************************)
(* The daemon's event loop with everything that waits for a descriptor in  *)
(* it: the SocketServer with its listening socket and a ClientContext per  *)
(* connection, and a CanMedia, which waits for frames on one socket and    *)
(* for room to send on another.  The peers connect, send, and go away when *)
(* they like.  Descriptors are numbers of a table with NumFds entries, and *)
(* the kernel always hands out the lowest free one: what is closed in one  *)
(* callback is another connection in the next.                             *)
(***************************************************************************)
EXTENDS Executor

CONSTANTS Platforms,  \* subset of {"epoll", "kqueue"}
          Conns,      \* the connections that peers may make
          NumFds,     \* size of the process's table of descriptors
          MaxMsgs,    \* bound: messages a peer sends
          MaxFrames,  \* bound: frames waiting to be sent, or to be taken
          Faults      \* subset of {"abort", "fcntl", "read"}

ASSUME PlatformsAssumption == Platforms \subseteq {"epoll", "kqueue"}
ASSUME NumFdsAssumption == NumFds \in Nat /\ NumFds >= 3
ASSUME MaxMsgsAssumption == MaxMsgs \in Nat /\ MaxFrames \in Nat
ASSUME NamesAssumption == Names = {"accept", "pop", "push"} \cup Conns
ASSUME ConnsAssumption ==
  Conns \cap {"accept", "pop", "push", "listen", "canrx", "cantx", "free"} = {}

VARIABLES
  ex,       \* the executor
  fds,      \* what every descriptor is: a socket or "free"
  backlog,  \* connections waiting in the listening socket
  inbox,    \* messages in the receive buffer of every connection
  sent,     \* messages every peer has sent
  hup,      \* the peers that have closed their end
  refused,  \* accepted connections the daemon closed before using them
  txq, rxq, \* frames to send, frames to take from the bus
  running   \* the predicate of the loop: FALSE once the daemon is told to stop

vars == <<ex, fds, backlog, inbox, sent, hup, refused, txq, rxq, running>>

Fds == 0..(NumFds - 1)
Sockets == {"listen", "canrx", "cantx"} \cup Conns

FreeFds(t) == {fd \in Fds : t[fd] = "free"}
LowestFree(t) == Min(FreeFds(t))
FdOf(s) == CHOOSE fd \in Fds : fds[fd] = s
Accepted(c) == \E fd \in Fds : fds[fd] = c

(* The descriptors a wait would find ready, with both platforms' names for *)
(* the events.  A CAN socket always has room for a frame in the end.       *)
Ready ==
  LET readable(s) == \/ s = "listen" /\ backlog # <<>>
                     \/ s = "canrx" /\ rxq > 0
                     \/ s \in Conns /\ (inbox[s] > 0 \/ s \in hup)
  IN  {<<fd, ev>> : fd \in {f \in Fds : readable(fds[f])}, ev \in {EPOLLIN, EVFILT_READ}}
      \cup {<<fd, ev>> : fd \in {f \in Fds : fds[f] = "cantx"}, ev \in {EPOLLOUT, EVFILT_WRITE}}

(* Every variable has its type; a socket has one descriptor, and          *)
(* total_awaitables_, which is unsigned, does not go below zero.           *)
TypeOK ==
  /\ fds \in [Fds -> Sockets \cup {"free"}]
  /\ \A f, g \in Fds : fds[f] = fds[g] => f = g \/ fds[f] = "free"
  /\ \A n \in Names : ex.node[n].fd \in Fds \cup {-1}
  /\ ex.total \in Nat
  /\ ToSet(ex.due) \subseteq Names
  /\ backlog \in Seq(Conns)
  /\ inbox \in [Conns -> 0..MaxMsgs]
  /\ sent \in [Conns -> 0..MaxMsgs]
  /\ hup \subseteq Conns /\ refused \subseteq Conns
  /\ txq \in 0..MaxFrames /\ rxq \in 0..MaxFrames
  /\ running \in BOOLEAN
---------------------------------------------------------------------------
(* CanMedia::make opened its two sockets, the transport registered its pop *)
(* callback, and SocketServer::start made, bound and registered its socket.*)
CanRxFd == 0
MutOneCanSocket == CanRxFd  \* mutant: one socket for both directions
CanTxFd == 1
ServerFd == 2

RegisterPopCallback(e) == RegisterAwaitableCallback(e, "pop", CanRxFd, "Readable")
RegisterPushCallback(e) == RegisterAwaitableCallback(e, "push", CanTxFd, "Writable")
ServerStart(e) == RegisterAwaitableCallback(e, "accept", ServerFd, "Readable")

Init ==
  /\ \E p \in Platforms : ex = ServerStart(RegisterPopCallback(NewExecutor(p)))
  /\ fds = [fd \in Fds |-> CASE fd = 0 -> "canrx" [] fd = 1 -> "cantx"
                             [] fd = 2 -> "listen" [] OTHER -> "free"]
  /\ backlog = <<>>
  /\ inbox = [c \in Conns |-> 0]
  /\ sent = [c \in Conns |-> 0]
  /\ hup = {} /\ refused = {}
  /\ txq = 0 /\ rxq = 0
  /\ running = TRUE
---------------------------------------------------------------------------
(* The outside world.                                                      *)

Connecting(c) == c \in ToSet(backlog)
Fresh(c) == ~Connecting(c) /\ ~Accepted(c) /\ c \notin refused /\ c \notin hup

Notify(s) == ex' = IF \E fd \in Fds : fds[fd] = s THEN Arrived(ex, FdOf(s)) ELSE ex

PeerConnects(c) ==
  /\ running /\ Fresh(c)
  /\ backlog' = Append(backlog, c)
  /\ Notify("listen")
  /\ UNCHANGED <<fds, inbox, sent, hup, refused, txq, rxq, running>>

PeerSends(c) ==
  /\ Connecting(c) \/ Accepted(c)
  /\ c \notin hup /\ sent[c] < MaxMsgs
  /\ inbox' = [inbox EXCEPT ![c] = @ + 1]
  /\ sent' = [sent EXCEPT ![c] = @ + 1]
  /\ Notify(c)
  /\ UNCHANGED <<fds, backlog, hup, refused, txq, rxq, running>>

PeerCloses(c) ==
  /\ Connecting(c) \/ Accepted(c)
  /\ c \notin hup
  /\ hup' = hup \cup {c}
  /\ Notify(c)
  /\ UNCHANGED <<fds, backlog, inbox, sent, refused, txq, rxq, running>>

FrameArrives ==
  /\ running /\ rxq < MaxFrames
  /\ rxq' = rxq + 1
  /\ Notify("canrx")
  /\ UNCHANGED <<fds, backlog, inbox, sent, hup, refused, txq, running>>
---------------------------------------------------------------------------
(* Callbacks.  Every one runs to its end before the next.                  *)

Running(n) == running /\ ex.due # <<>> /\ Head(ex.due) = n

(* SocketAddress::accept retries on the errors a vanished peer may cause,  *)
(* here ECONNABORTED; everything else ends it: no connection left, no      *)
(* descriptor left (EMFILE, the connection stays in the backlog), or       *)
(* O_NONBLOCK refused, when the new descriptor is closed again.            *)
Aborts ==
  {k \in 0..Len(backlog) : k > 0 => "abort" \in Faults /\ \A i \in 1..k : backlog[i] \in hup}

MutAcceptGivesUp ==  \* mutant: stops listening when there is no descriptor
  /\ FreeFds(fds) = {}
  /\ ex' = Reset(Taken(ex), "accept")
  /\ UNCHANGED <<fds, refused, backlog>>

AcceptNothing ==
  /\ \/ FreeFds(fds) = {} /\ UNCHANGED backlog
     \/ FreeFds(fds) # {} /\ Len(backlog) \in Aborts /\ backlog' = <<>>
  /\ ex' = Taken(ex)
  /\ UNCHANGED <<fds, refused>>

AcceptRefused ==
  /\ FreeFds(fds) # {} /\ "fcntl" \in Faults
  /\ \E k \in Aborts : /\ k < Len(backlog)
                       /\ backlog' = SubSeq(backlog, k + 2, Len(backlog))
                       /\ refused' = refused \cup {backlog[k + 1]}
  /\ ex' = Taken(ex)
  /\ UNCHANGED fds

AcceptClient ==
  /\ FreeFds(fds) # {}
  /\ \E k \in Aborts :
       /\ k < Len(backlog)
       /\ backlog' = SubSeq(backlog, k + 2, Len(backlog))
       /\ LET c == backlog[k + 1]
              fd == LowestFree(fds)
          IN  /\ fds' = [fds EXCEPT ![fd] = c]
              /\ ex' = RegisterAwaitableCallback(Taken(ex), c, fd, "Readable")
  /\ UNCHANGED refused

HandleAccept ==
  /\ Running("accept")
  /\ AcceptNothing \/ AcceptRefused \/ AcceptClient
  /\ UNCHANGED <<inbox, sent, hup, txq, rxq, running>>

(* ~ClientContext: the callback is a later member than the descriptor and  *)
(* goes first.                                                             *)
EraseContext(e, c) == Close(Reset(e, c), FdOf(c))

CloseContext(c) ==
  /\ ex' = EraseContext(Taken(ex), c)
  /\ fds' = [fds EXCEPT ![FdOf(c)] = "free"]
  /\ inbox' = [inbox EXCEPT ![c] = 0]

ReadOne(c) ==
  /\ inbox[c] > 0
  /\ inbox' = [inbox EXCEPT ![c] = @ - 1]
  /\ ex' = Taken(ex)
  /\ UNCHANGED fds

(* receiveMessage reads one message; the end of the stream comes after all *)
(* of them, a failed read at any time.                                     *)
HandleClientRequest(c) ==
  /\ Running(c)
  /\ \/ ReadOne(c)
     \/ inbox[c] = 0 /\ CloseContext(c)
     \/ inbox[c] > 0 /\ "read" \in Faults /\ CloseContext(c)
  /\ UNCHANGED <<backlog, sent, hup, refused, txq, rxq, running>>

(* The transport's side of the media: it takes one frame per callback, and *)
(* lets go of its push callback when there is nothing left to send.        *)
HandlePop ==
  /\ Running("pop")
  /\ rxq' = IF rxq > 0 THEN rxq - 1 ELSE 0
  /\ ex' = Taken(ex)
  /\ UNCHANGED <<fds, backlog, inbox, sent, hup, refused, txq, running>>

HandlePush ==
  /\ Running("push")
  /\ txq' = txq - 1
  /\ ex' = IF txq = 1 THEN Reset(Taken(ex), "push") ELSE Taken(ex)
  /\ UNCHANGED <<fds, backlog, inbox, sent, hup, refused, rxq, running>>

(* Some callback of the node (a heartbeat, a command) queues a frame.      *)
TransportSends ==
  /\ running /\ txq < MaxFrames
  /\ txq' = txq + 1
  /\ ex' = IF txq = 0 THEN RegisterPushCallback(ex) ELSE ex
  /\ UNCHANGED <<fds, backlog, inbox, sent, hup, refused, rxq, running>>
---------------------------------------------------------------------------
(* waitPollingUntil: spinOnce runs whatever is due, then one wait.         *)
Poll ==
  /\ running /\ ex.due = <<>>
  /\ \E rep \in {Reported(ex, Ready)} : ex' = PollAwaitableResources(ex, rep)
  /\ UNCHANGED <<fds, backlog, inbox, sent, hup, refused, txq, rxq, running>>

(* The loop ends and the objects are destroyed: the contexts, the accept   *)
(* callback and its socket, the transport's callbacks and the CAN sockets. *)
EraseContexts(e) ==
  LET erased[k \in 0..NumFds] ==
        IF k = 0 THEN e
        ELSE IF fds[k - 1] \in Conns THEN EraseContext(erased[k - 1], fds[k - 1])
        ELSE erased[k - 1]
  IN  erased[NumFds]
CloseServer(e) == Close(Reset(e, "accept"), ServerFd)
CloseMedia(e) == Close(Close(Reset(Reset(e, "push"), "pop"), CanRxFd), CanTxFd)

Stop ==
  /\ running /\ ex.due = <<>>
  /\ running' = FALSE
  /\ ex' = CloseMedia(CloseServer(EraseContexts(ex)))
  /\ fds' = [fd \in Fds |-> "free"]
  /\ backlog' = <<>>
  /\ inbox' = [c \in Conns |-> 0]
  /\ txq' = 0 /\ rxq' = 0
  /\ UNCHANGED <<sent, hup, refused>>

RunCallback ==
  \/ HandleAccept \/ HandlePop \/ HandlePush
  \/ \E c \in Conns : HandleClientRequest(c)

Next ==
  \/ \E c \in Conns : PeerConnects(c) \/ PeerSends(c) \/ PeerCloses(c)
  \/ FrameArrives \/ TransportSends
  \/ RunCallback \/ Poll \/ Stop

(* The loop never stops between steps: spinOnce runs what is due and every *)
(* wait ends after a second at the latest.                                 *)
FairSpec == Init /\ [][Next]_vars /\ WF_vars(RunCallback) /\ WF_vars(Poll)
---------------------------------------------------------------------------
SocketOf(n) == CASE n = "accept" -> "listen" [] n = "pop" -> "canrx"
                 [] n = "push" -> "cantx" [] OTHER -> n

(* The kernel's table is exactly the live nodes: every pointer in it leads *)
(* to a node that was moved to where its owner keeps it, is registered for *)
(* that descriptor, and whose socket the descriptor still is, also after   *)
(* descriptors were closed and handed out again; no node waits that the    *)
(* kernel does not know of (a refused EPOLL_CTL_ADD goes unnoticed); and a *)
(* callback that is due finds its context, which handleClientRequest only  *)
(* asserts.                                                                *)
InterestIsLive ==
  /\ \A r \in ex.interest :
       \E n \in Names : /\ r.ptr = Owned(n)
                        /\ ex.node[n] = [fd |-> r.fd, events |-> r.events]
                        /\ fds[r.fd] = SocketOf(n)
  /\ \A n \in Names : ex.node[n].fd >= 0 => \E r \in ex.interest : r.ptr = Owned(n)
  /\ \A n \in ToSet(ex.due) : ex.node[n].fd >= 0

(* total_awaitables_ counts the nodes.  Too low, and the loop would sleep  *)
(* with descriptors ready; below zero it is 2^64-1.  It is zero and every  *)
(* interest is gone when the objects are destroyed.                        *)
AwaitablesCounted ==
  /\ ex.total = Cardinality({n \in Names : ex.node[n].fd >= 0})
  /\ ~running => ex.total = 0 /\ ex.interest = {} /\ ex.due = <<>>

(* A message that arrived is read in the end, although a callback reads    *)
(* one message only, other descriptors are busy, and a wait reports at     *)
(* most MaxEvents of them.                                                 *)
ReceivedMessageIsHandled ==
  \A c \in Conns : (Accepted(c) /\ inbox[c] > 0) ~> (inbox[c] = 0)

(* The same where the loop is built on epoll.                              *)
EpollHandlesMessages == ex.platform = "epoll" => ReceivedMessageIsHandled

(* On epoll, a connection in the backlog is accepted (or dropped) in the   *)
(* end if a descriptor is free from some time on, although handleAccept    *)
(* takes one connection per callback and gives up when there is no         *)
(* descriptor.                                                             *)
EpollAcceptsConnections ==
  (ex.platform = "epoll" /\ <>[](FreeFds(fds) # {}))
     => \A c \in Conns : Connecting(c) ~> ~Connecting(c)

=============================================================================
