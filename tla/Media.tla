------------------------------- MODULE Media -------------------------------
(***************************************************************************)
(* The daemon's side of the Cyphal network: the transport bags with their  *)
(* up to three redundant interfaces, CanMedia over SocketCAN and UdpMedia  *)
(* with its sockets over UDP, down to the calls of the two C drivers.      *)
(* libcyphal's transport, which owns the queues of frames and calls the    *)
(* media, and the kernel are external.  Error codes are abstracted to one: *)
(* whoever gets them only asks whether there is one.                       *)
(***************************************************************************)
EXTENDS Integers, SequencesExt

CONSTANTS Lists,         \* what `interfaces` of the configuration may be
          Devices,       \* CAN devices and IPv4 addresses that exist at the start
          LongNames,     \* names that do not fit IFNAMSIZ
          BadAddresses,  \* texts that inet_pton refuses
          NumFds,        \* free entries of the table of descriptors
          Ports,         \* what the daemon may subscribe to
          FilterMax,     \* CAN_RAW_FILTER_MAX
          Trials         \* for each of Lists the bounds of what happens with it: the
                         \* ports subscribed to, how many transfers are sent, how often
                         \* devices go up, down or away, and what may fail

PossibleFaults == {"socket", "memory", "factory", "nobufs", "filter"}

ASSUME MediaAssumption == NumFds \in Nat /\ FilterMax \in Nat
ASSUME TrialsAssumption ==
  Trials \in [Lists -> [ports : SUBSET Ports, transfers : Nat, changes : Nat,
                       faults : SUBSET PossibleFaults]]
ASSUME NamesAssumption == LongNames \cap Devices = {}  \* devices have names that fit
ASSUME ListsAssumption == Lists \subseteq Seq([prefix : STRING, addresses : Seq(STRING)])

MaxMedia == 3
Fds == 1..NumFds
Slots == 1..MaxMedia
Error == -1

VARIABLES
  list,     \* the configured interfaces
  link,     \* every device: "up", "down" or "gone"
  changes,  \* how often that has changed
  table,    \* the sockets by descriptor
  bag,      \* the transport bag: its kind, its media, and what failed for it
  subs,     \* ports with a subscription
  count,    \* transfers sent so far
  txq,      \* the transfers queued for every interface
  waiting,  \* interfaces with a push callback, waiting for room
  carried,  \* <<transfer, interface>> given to the kernel
  failed,   \* <<transfer, interface>> given up after an error
  refused   \* CAN sockets that did not take the filters they were last given

vars == <<list, link, changes, table, bag, subs, count, txq, waiting, carried, failed, refused>>

Free == [kind |-> "free"]
Socket(kind, dev, port) ==
  [kind |-> kind, dev |-> dev, port |-> port, bound |-> TRUE, err |-> FALSE,
   room |-> TRUE, rcv |-> 0, filter |-> Ports]

NoBag == [kind |-> "none", media |-> <<>>, bad |-> {}]
Medium(dev, rx, tx) == [dev |-> dev, rx |-> rx, tx |-> tx]

Interfaces == DOMAIN bag.media
Faults == Trials[list].faults

(* What is done for every interface in turn, of which there are at most    *)
(* three.                                                                  *)
InTurn(Do(_, _), acc) ==
  LET step(a, i) == IF i \in Interfaces THEN Do(a, i) ELSE a
  IN  step(step(step(acc, 1), 2), 3)

OwnedBy(b) == UNION {b.media[i].rx \cup b.media[i].tx : i \in DOMAIN b.media}
Close(t, fds) == [fd \in Fds |-> IF fd \in fds THEN Free ELSE t[fd]]
---------------------------------------------------------------------------
(* The drivers: opening sockets.  `bad` is the set of sockets, as pairs of *)
(* address and kind, for which a system call fails after ::socket().       *)

FreeFds(t) == {fd \in Fds : t[fd].kind = "free"}
LowestFree(t) == CHOOSE fd \in FreeFds(t) : \A g \in FreeFds(t) : fd <= g
Exists(dev) == dev \in Devices /\ link[dev] # "gone"

(* What all the opening functions have in common: a socket, and if any     *)
(* step of setting it up fails, no socket.                                 *)
OpenSocket(t, kind, dev, port, ok) ==
  IF FreeFds(t) = {} \/ ~ok THEN [table |-> t, fd |-> Error]
  ELSE [table |-> [t EXCEPT ![LowestFree(t)] = Socket(kind, dev, port)], fd |-> LowestFree(t)]

SocketcanOpen(t, name, kind, bad) ==
  OpenSocket(t, kind, name, "all",
             name \notin LongNames /\ Exists(name) /\ <<name, kind>> \notin bad)

(* An address that cannot be parsed is 0, which both functions refuse.     *)
UdpParseIfaceAddress(text) == IF text \in BadAddresses THEN "0" ELSE text

UdpTxInit(t, address, bad) ==
  OpenSocket(t, "udptx", address, "all",
             address # "0" /\ Exists(address) /\ <<address, "udptx">> \notin bad)

UdpRxInit(t, address, port, bad) ==
  OpenSocket(t, "udprx", address, port,
             address # "0" /\ Exists(address) /\ <<address, "udprx">> \notin bad)

(* UdpTxSocket::make and UdpRxSocket::make: without memory for the object  *)
(* the socket is closed again.                                             *)
UdpTxMake(t, text, bad, memory) ==
  LET opened == UdpTxInit(t, UdpParseIfaceAddress(text), bad)
  IN  IF opened.fd = Error \/ memory THEN opened
      ELSE [table |-> Close(opened.table, {opened.fd}), fd |-> Error]

MutRxLeaks(t, text, port, bad, memory) ==  \* mutant: the socket stays open
  LET opened == UdpRxInit(t, UdpParseIfaceAddress(text), port, bad)
  IN  IF opened.fd = Error \/ memory THEN opened ELSE [opened EXCEPT !.fd = Error]

UdpRxMake(t, text, port, bad, memory) ==
  LET opened == UdpRxInit(t, UdpParseIfaceAddress(text), port, bad)
  IN  IF opened.fd = Error \/ memory THEN opened
      ELSE [table |-> Close(opened.table, {opened.fd}), fd |-> Error]
---------------------------------------------------------------------------
(* The media collections.                                                  *)

(* CanMedia::make: two sockets, or none. *)
CanMediaMake(t, name, bad) ==
  LET rx == SocketcanOpen(t, name, "canrx", bad)
      tx == SocketcanOpen(rx.table, name, "cantx", bad)
  IN  IF rx.fd = Error THEN [table |-> t, media |-> <<>>]
      ELSE IF tx.fd = Error THEN [table |-> Close(tx.table, {rx.fd}), media |-> <<>>]
      ELSE [table |-> tx.table, media |-> <<Medium(name, {rx.fd}, {tx.fd})>>]

(* The bags put together the configured interfaces with their prefix, each *)
(* of which may be a list of addresses itself.                             *)
Addresses(prefix) ==
  LET ifaces[k \in 0..Len(list)] ==
        IF k = 0 THEN <<>>
        ELSE IF list[k].prefix = prefix THEN ifaces[k - 1] \o list[k].addresses
        ELSE ifaces[k - 1]
  IN  ifaces[Len(list)]

(* Only devices that are configured matter. *)
Configured == Devices \cap (ToSet(Addresses("udp://")) \cup ToSet(Addresses("socketcan:")))

(* CanMediaCollection::parse: empty addresses are skipped, and a media     *)
(* that cannot be made takes no place.                                     *)
MutFailureTakesPlace(names, bad) ==  \* mutant: failures are counted
  LET parsed[k \in 0..Len(names)] ==
        IF k = 0 THEN [table |-> table, media |-> <<>>]
        ELSE LET made == CanMediaMake(parsed[k - 1].table, names[k], bad)
             IN  IF k > MaxMedia \/ names[k] = "" THEN parsed[k - 1]
                 ELSE [table |-> made.table, media |-> parsed[k - 1].media \o made.media]
  IN  parsed[Len(names)]

CanParse(names, bad) ==
  LET parsed[k \in 0..Len(names)] ==
        IF k = 0 THEN [table |-> table, media |-> <<>>]
        ELSE IF Len(parsed[k - 1].media) = MaxMedia \/ names[k] = "" THEN parsed[k - 1]
        ELSE LET made == CanMediaMake(parsed[k - 1].table, names[k], bad)
             IN  [table |-> made.table, media |-> parsed[k - 1].media \o made.media]
  IN  parsed[Len(names)]

(* UdpMediaCollection::parse: the addresses are only kept, sockets are     *)
(* made when the transport asks for them.                                  *)
UdpParse(names) ==
  LET parsed[k \in 0..Len(names)] ==
        IF k = 0 THEN <<>>
        ELSE IF Len(parsed[k - 1]) = MaxMedia \/ names[k] = "" THEN parsed[k - 1]
        ELSE Append(parsed[k - 1], Medium(names[k], {}, {}))
  IN  [table |-> table, media |-> parsed[Len(names)]]

(* What both bags have in common: no media, or a failure of libcyphal's    *)
(* factory, and there is no bag.                                           *)
MakeBag(kind, parsed, bad, factory) ==
  LET made == [kind |-> kind, media |-> parsed.media, bad |-> bad]
  IN  IF parsed.media = <<>> \/ ~factory
        THEN [table |-> Close(parsed.table, OwnedBy(made)), bag |-> NoBag]
        ELSE [table |-> parsed.table, bag |-> made]

(* CanTransportBag::make and UdpTransportBag::make. *)
CanTransportBag(bad, factory) ==
  MakeBag("can", CanParse(Addresses("socketcan:"), bad), bad, factory)
UdpTransportBag(factory) ==
  MakeBag("udp", UdpParse(Addresses("udp://")), {}, factory)

(* The handler both bags install: it swallows the failure of one media, so *)
(* that the transport goes on with the others.                             *)
MutHandlerReports == FALSE  \* mutant: it reports it
TransientErrorHandler == TRUE

Init ==
  /\ list \in Lists
  /\ link \in {l \in [Devices -> {"up", "gone"}] : \A d \in Devices \ Configured : l[d] = "gone"}
  /\ changes = 0
  /\ table = [fd \in Fds |-> Free]
  /\ bag = NoBag
  /\ subs = {}
  /\ count = 0
  /\ txq = [i \in Slots |-> <<>>]
  /\ waiting = {} /\ carried = {} /\ failed = {} /\ refused = {}

SocketFaults(kinds) ==
  {{}} \cup IF "socket" \in Faults THEN {{<<d, k>>} : d \in Configured, k \in kinds} ELSE {}
Chances(fault) == IF fault \in Faults THEN BOOLEAN ELSE {TRUE}

(* Engine::init, the transport: UDP first, then CAN. *)
InitTransport ==
  /\ bag = NoBag /\ count = 0
  /\ \E bad \in SocketFaults({"canrx", "cantx"}), udpFactory, canFactory \in Chances("factory") :
       LET udp == UdpTransportBag(udpFactory)
           can == CanTransportBag(bad, canFactory)
           made == IF udp.bag # NoBag THEN udp ELSE can
       IN  /\ made.bag # NoBag
           /\ bag' = made.bag
           /\ table' = made.table
  /\ UNCHANGED <<list, link, changes, subs, count, txq, waiting, carried, failed, refused>>

(* The engine is destroyed: the sockets go with their media. *)
Shutdown ==
  /\ bag # NoBag
  /\ table' = Close(table, OwnedBy(bag))
  /\ bag' = NoBag
  /\ subs' = {}
  /\ txq' = [i \in Slots |-> <<>>]
  /\ waiting' = {} /\ carried' = {} /\ failed' = {} /\ refused' = {} /\ count' = 0
  /\ UNCHANGED <<list, link, changes>>
---------------------------------------------------------------------------
(* Subscriptions.                                                          *)

(* socketcanFilter: no filters at all (a null pointer) or too many are     *)
(* refused, and ::setsockopt may fail; the old filters stay.               *)
SocketcanFilter(n, fails) == IF n = 0 \/ n > FilterMax \/ fails THEN Error ELSE 0

Refusing(ports, bad) ==
  {fd \in Fds : table[fd].kind = "canrx" /\ SocketcanFilter(Cardinality(ports), fd \in bad) = Error}

(* CanMedia::setFilters, which the transport calls for one interface after *)
(* the other when a subscription comes or goes.  A failure the handler     *)
(* does not swallow ends it.                                               *)
FilterMedia(acc, i, ports, bad) ==
  LET fds == bag.media[i].rx
      ok == fds \ Refusing(ports, bad)
  IN  IF acc.stop THEN acc
      ELSE [table |-> [fd \in Fds |-> IF fd \in ok THEN [acc.table[fd] EXCEPT !.filter = ports]
                                      ELSE acc.table[fd]],
            stop |-> ok # fds /\ ~TransientErrorHandler]

FilterAll(ports, bad) ==
  InTurn(LAMBDA acc, i : FilterMedia(acc, i, ports, bad), [table |-> table, stop |-> FALSE])

FilterFaults ==
  IF "filter" \in Faults THEN SUBSET {fd \in Fds : table[fd].kind = "canrx"} ELSE {{}}

SetFilters(ports) ==
  \E bad \in FilterFaults :
    /\ table' = FilterAll(ports, bad).table
    /\ refused' = Refusing(ports, bad)
    /\ UNCHANGED bag

(* For UDP the transport makes a socket for the port on every interface; a *)
(* failure is swallowed.                                                   *)
MakeRxSocket(acc, i, p, bad, memory) ==
  LET made == UdpRxMake(acc.table, bag.media[i].dev, p, bad, memory)
  IN  [table |-> made.table,
       media |-> IF made.fd = Error THEN acc.media
                 ELSE [acc.media EXCEPT ![i].rx = @ \cup {made.fd}]]

MakeRxSockets(p, bad, memory) ==
  InTurn(LAMBDA acc, i : MakeRxSocket(acc, i, p, bad, memory),
         [table |-> table, media |-> bag.media])

Subscribe(p) ==
  /\ bag # NoBag /\ p \in Trials[list].ports \ subs
  /\ subs' = subs \cup {p}
  /\ \/ bag.kind = "can" /\ SetFilters(subs')
     \/ /\ bag.kind = "udp"
        /\ \E bad \in SocketFaults({"udprx"}), memory \in Chances("memory") :
             LET made == MakeRxSockets(p, bad, memory)
             IN  bag' = [bag EXCEPT !.media = made.media] /\ table' = made.table
        /\ UNCHANGED refused
  /\ UNCHANGED <<list, link, changes, count, txq, waiting, carried, failed>>

Unsubscribe(p) ==
  /\ bag # NoBag /\ p \in subs
  /\ subs' = subs \ {p}
  /\ \/ bag.kind = "can" /\ SetFilters(subs')
     \/ /\ bag.kind = "udp"
        /\ LET gone == {fd \in Fds : table[fd].kind = "udprx" /\ table[fd].port = p}
           IN  /\ table' = Close(table, gone)
               /\ bag' = [bag EXCEPT !.media =
                           [i \in Interfaces |-> [bag.media[i] EXCEPT !.rx = @ \ gone]]]
        /\ UNCHANGED refused
  /\ UNCHANGED <<list, link, changes, count, txq, waiting, carried, failed>>
---------------------------------------------------------------------------
(* Sending.                                                                *)

(* The transport queues a transfer for every interface.  Over UDP it makes *)
(* the socket of an interface that has none.  A failure the handler does   *)
(* not swallow ends the sending.                                           *)
MakeTxSocket(acc, i, bad, memory) ==
  LET made == UdpTxMake(acc.table, bag.media[i].dev, bad, memory)
  IN  IF made.fd = Error
        THEN [acc EXCEPT !.failed = @ \cup {i}, !.stop = ~TransientErrorHandler]
        ELSE [acc EXCEPT !.table = made.table, !.media[i].tx = {made.fd}, !.queued = @ \cup {i}]

QueueFor(acc, i, bad, memory) ==
  IF acc.stop THEN acc
  ELSE IF bag.media[i].tx # {} THEN [acc EXCEPT !.queued = @ \cup {i}]
  ELSE MakeTxSocket(acc, i, bad, memory)

Queue(bad, memory) ==
  InTurn(LAMBDA acc, i : QueueFor(acc, i, bad, memory),
         [table |-> table, media |-> bag.media, queued |-> {}, failed |-> {}, stop |-> FALSE])

Send ==
  /\ bag # NoBag /\ count < Trials[list].transfers
  /\ count' = count + 1
  /\ \E bad \in SocketFaults({"udptx"}), memory \in Chances("memory") :
       LET q == Queue(bad, memory)
       IN  /\ table' = q.table
           /\ bag' = [bag EXCEPT !.media = q.media]
           /\ txq' = [i \in Slots |-> IF i \in q.queued THEN Append(txq[i], count') ELSE txq[i]]
           /\ failed' = failed \cup {<<count', i>> : i \in q.failed}
  /\ UNCHANGED <<list, link, changes, subs, waiting, carried, refused>>

MutPollErrorFirst(s, ready) ==  \* mutant: POLLERR before the event
  IF s.err THEN Error ELSE IF ready THEN 1 ELSE 0

(* doPoll with no timeout, for the event that is there when `ready`.  A    *)
(* pending error alone is an error of the poll, and stays pending.         *)
DoPoll(s, ready) == IF ready THEN 1 ELSE IF s.err THEN Error ELSE 0

CanCarry(s) == s.bound /\ link[s.dev] = "up"

(* socketcanPush: the outcome, and the socket afterwards.  ::write reports *)
(* the pending error first; it fails if the device is down or its queue is *)
(* full, although poll said there was room in the socket's buffer.         *)
SocketcanPush(s, nobufs) ==
  LET poll == DoPoll(s, s.room)
  IN  IF poll # 1 THEN [res |-> poll, sock |-> s]
      ELSE IF s.err THEN [res |-> Error, sock |-> [s EXCEPT !.err = FALSE]]
      ELSE IF ~CanCarry(s) \/ nobufs THEN [res |-> Error, sock |-> s]
      ELSE [res |-> 1, sock |-> [s EXCEPT !.room = FALSE]]

(* udpTxSend: EAGAIN is no error. *)
UdpTxSend(s) ==
  IF ~s.room THEN [res |-> 0, sock |-> s]
  ELSE IF ~CanCarry(s) THEN [res |-> Error, sock |-> s]
  ELSE [res |-> 1, sock |-> [s EXCEPT !.room = FALSE]]

(* CanMedia::push and UdpTxSocket::send: what the transport is told. *)
PushResult(res) == IF res = Error THEN "failure" ELSE IF res > 0 THEN "accepted" ELSE "busy"

(* What the transport makes of an attempt to send the head of a queue.     *)
(* Accepted, it is gone from the queue; refused, it stays, and the         *)
(* transport waits for the push callback; after a failure, which the       *)
(* handler swallows, it is dropped.                                        *)
Tried(i, fd, done) ==
  LET told == PushResult(done.res)
      item == <<Head(txq[i]), i>>
  IN  /\ table' = [table EXCEPT ![fd] = done.sock]
      /\ txq' = IF told = "busy" THEN txq ELSE [txq EXCEPT ![i] = Tail(@)]
      /\ waiting' = IF told = "busy" THEN waiting \cup {i} ELSE waiting
      /\ carried' = IF told = "accepted" THEN carried \cup {item} ELSE carried
      /\ failed' = IF told = "failure" THEN failed \cup {item} ELSE failed
      /\ UNCHANGED <<list, link, changes, bag, subs, count, refused>>

HasToSend(i) == i \in Interfaces /\ txq[i] # <<>> /\ i \notin waiting

(* CanMedia::push. *)
Push(i) ==
  /\ HasToSend(i) /\ bag.kind = "can"
  /\ \E fd \in bag.media[i].tx, nobufs \in {FALSE} \cup {b \in {TRUE} : "nobufs" \in Faults} :
       Tried(i, fd, SocketcanPush(table[fd], nobufs))

(* UdpTxSocket::send. *)
SendTo(i) ==
  /\ HasToSend(i) /\ bag.kind = "udp"
  /\ \E fd \in bag.media[i].tx : Tried(i, fd, UdpTxSend(table[fd]))

(* The push callback, registered as Writable for the tx socket: room, or   *)
(* an error.                                                               *)
PushCallback(i) ==
  /\ i \in Interfaces \cap waiting
  /\ \E fd \in bag.media[i].tx : table[fd].room \/ table[fd].err
  /\ waiting' = waiting \ {i}
  /\ UNCHANGED <<list, link, changes, table, bag, subs, count, txq, carried, failed, refused>>

(* The device sends what is in a socket's buffer, or drops it. *)
DeviceSends(fd) ==
  /\ table[fd].kind # "free" /\ ~table[fd].room
  /\ table' = [table EXCEPT ![fd].room = TRUE]
  /\ UNCHANGED <<list, link, changes, bag, subs, count, txq, waiting, carried, failed, refused>>
---------------------------------------------------------------------------
(* Receiving.                                                              *)

(* A frame or datagram of a port arrives at every socket that is bound to  *)
(* the device and lets it pass.                                            *)
Arrive(dev, p) ==
  LET to == {fd \in Fds : /\ table[fd].kind \in {"canrx", "udprx"}
                          /\ table[fd].dev = dev /\ table[fd].bound
                          /\ table[fd].port \in {"all", p} /\ p \in table[fd].filter}
  IN  /\ link[dev] = "up" /\ \E fd \in to : table[fd].rcv = 0
      /\ table' = [fd \in Fds |-> IF fd \in to THEN [table[fd] EXCEPT !.rcv = 1] ELSE table[fd]]
      /\ UNCHANGED <<list, link, changes, bag, subs, count, txq, waiting, carried, failed, refused>>

(* socketcanPop: ::recvmsg reports the pending error first, without taking *)
(* the frame.  Frames that are no extended data frames are taken too.      *)
SocketcanPop(s) ==
  IF DoPoll(s, s.rcv > 0) # 1 THEN s
  ELSE IF s.err THEN [s EXCEPT !.err = FALSE]
  ELSE [s EXCEPT !.rcv = 0]

(* udpRxReceive: the datagram is gone, also when only a part of it fits.   *)
UdpRxReceive(s) == [s EXCEPT !.rcv = 0]

(* CanMedia::pop, called when the socket has a frame or an error. *)
Pop(fd) ==
  /\ table[fd].kind = "canrx"
  /\ table[fd].rcv > 0 \/ table[fd].err
  /\ table' = [table EXCEPT ![fd] = SocketcanPop(@)]
  /\ UNCHANGED <<list, link, changes, bag, subs, count, txq, waiting, carried, failed, refused>>

(* UdpRxSocket::receive, which has taken the datagram when it finds that   *)
(* there is no memory for it.                                              *)
Receive(fd) ==
  /\ table[fd].kind = "udprx" /\ table[fd].rcv > 0
  /\ table' = [table EXCEPT ![fd] = UdpRxReceive(@)]
  /\ UNCHANGED <<list, link, changes, bag, subs, count, txq, waiting, carried, failed, refused>>
---------------------------------------------------------------------------
(* The devices.  A CAN socket gets an error when its device goes down, and *)
(* loses its binding for good when it disappears.                          *)
SetLink(dev, state) ==
  /\ dev \in Configured /\ link[dev] # state
  /\ changes < Trials[list].changes /\ changes' = changes + 1
  /\ link' = [link EXCEPT ![dev] = state]
  /\ table' = [fd \in Fds |->
                 IF table[fd].kind \in {"canrx", "cantx"} /\ table[fd].dev = dev /\ state # "up"
                   THEN [table[fd] EXCEPT !.err = TRUE, !.bound = @ /\ state # "gone"]
                   ELSE table[fd]]
  /\ UNCHANGED <<list, bag, subs, count, txq, waiting, carried, failed, refused>>

Next ==
  \/ InitTransport \/ Shutdown \/ Send
  \/ \E p \in Ports : Subscribe(p) \/ Unsubscribe(p)
  \/ \E i \in Slots : Push(i) \/ SendTo(i) \/ PushCallback(i)
  \/ \E fd \in Fds : DeviceSends(fd) \/ Pop(fd) \/ Receive(fd)
  \/ \E dev \in Devices, p \in Ports : Arrive(dev, p)
  \/ \E dev \in Devices, state \in {"up", "down", "gone"} : SetLink(dev, state)

(* The event loop keeps calling the transport, and a device that is there  *)
(* empties its queue.                                                      *)
Fairness ==
  /\ \A i \in Slots : WF_vars(Push(i) \/ SendTo(i)) /\ WF_vars(PushCallback(i))
  /\ \A fd \in Fds : WF_vars(DeviceSends(fd)) /\ WF_vars(Pop(fd) \/ Receive(fd))

Spec == Init /\ [][Next]_vars /\ Fairness
---------------------------------------------------------------------------
(* The open sockets are exactly those the media hold, each held once:      *)
(* whatever fails while interfaces are opened, subscribed to or closed     *)
(* leaves no descriptor behind and none that two owners would close.       *)
SocketsOwned ==
  /\ OwnedBy(bag) = Fds \ FreeFds(table)
  /\ \A i, j \in Interfaces : i # j =>
       (bag.media[i].rx \cup bag.media[i].tx) \cap (bag.media[j].rx \cup bag.media[j].tx) = {}
  /\ \A i \in Interfaces : bag.media[i].rx \cap bag.media[i].tx = {}

(* A transfer reaches the network if one interface can carry it: when it   *)
(* is no longer queued, an interface took it or every one of them failed   *)
(* (the purpose of the transient error handlers).                          *)
LostOnlyIfEveryInterfaceFailed ==
  \A t \in 1..count :
    \/ \E i \in Interfaces : t \in ToSet(txq[i]) \/ <<t, i>> \in carried
    \/ \A i \in Interfaces : <<t, i>> \in failed

(* A CAN interface filters out a port with a subscription only if it did   *)
(* not take the filters of the last change itself, there being more ports  *)
(* than filters or its ::setsockopt failing.  What another interface did,  *)
(* or it did before, is not felt (setFilters, and the handler that         *)
(* swallows its failures).                                                 *)
SubscribedPortsPass ==
  \A fd \in Fds \ refused : table[fd].kind = "canrx" => subs \subseteq table[fd].filter

(* The places of a list of addresses that are not empty, and those with a  *)
(* CAN device that exists and both of whose sockets can be opened.         *)
Named(names) == {k \in DOMAIN names : names[k] # ""}
Working(names, bad) ==
  {k \in Named(names) : Exists(names[k]) /\ \A b \in bad : b[1] # names[k]}

(* The media are for the first of the places, in their order.              *)
UpTo(places, k) == {j \in places : j <= k}
FirstOf(media, names, places) ==
  \A i \in DOMAIN media :
    \E k \in places : media[i].dev = names[k] /\ Cardinality(UpTo(places, k)) = i

(* The CAN interfaces in use are the first ones of the configuration that  *)
(* work, up to three and as far as there are descriptors, however many     *)
(* before or between them do not (CanMediaCollection::parse).  The UDP     *)
(* ones are the first three that have an address, and whether it is one of *)
(* this machine is not asked: three that are not shut out a fourth that is *)
(* (UdpMediaCollection::parse).                                            *)
WorkingInterfacesUsed ==
  [][InitTransport =>
       LET names == Addresses(IF bag'.kind = "udp" THEN "udp://" ELSE "socketcan:")
           places == IF bag'.kind = "udp" THEN Named(names) ELSE Working(names, bag'.bad)
       IN  /\ FirstOf(bag'.media, names, places)
           /\ \/ Len(bag'.media) = MaxMedia
              \/ Len(bag'.media) = Cardinality(places)
              \/ bag'.kind = "can" /\ Cardinality(FreeFds(table')) < 2]_vars

(* Nothing is stuck: a transfer does not stay queued for an interface for  *)
(* ever, but is sent or given up even if the interface is down or has      *)
(* disappeared, and what a socket received is taken from it in the end,    *)
(* whatever errors came before.                                            *)
NothingIsStuck ==
  /\ \A i \in Slots : []<>(txq[i] = <<>>)
  /\ \A fd \in Fds : []<>(table[fd].kind = "free" \/ table[fd].rcv = 0)

=============================================================================
