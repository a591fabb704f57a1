---------------------------- MODULE MediaProofs ----------------------------
(***************************************************************************)
(* Proofs about the media, for any configuration, any devices, any number  *)
(* of descriptors, ports and filters, and any failures.                    *)
(***************************************************************************)
EXTENDS Media, SequenceTheorems, FiniteSetTheorems, WellFoundedInduction, TLAPS

---------------------------------------------------------------------------
(* Loops.  A loop is a function f with what there is after k rounds as     *)
(* f[k].                                                                   *)

(* A set of natural numbers that is not empty has a least element.         *)
LEMMA LeastNatural ==
  ASSUME NEW T, T \subseteq Nat, T # {}
  PROVE  Min(T) \in T /\ \A k \in T : Min(T) <= k
<1> DEFINE R == {ss \in Nat \X Nat : ss[1] < ss[2]}
<1>1. IsWellFoundedOn(R, Nat)
  BY NatLessThanWellFounded DEF OpToRel
<1>2. \A x, y \in Nat : (<<y, x>> \in R) <=> y < x
  OBVIOUS
<1> HIDE DEF R
<1>3. PICK x \in T : \A y \in T : ~ (<<y, x>> \in R)
  BY <1>1, WFMin
<1>4. \A k \in T : x <= k
  <2> TAKE k \in T
  <2>1. x \in Nat /\ k \in Nat
    OBVIOUS
  <2>2. ~(k < x)
    BY <1>3, <1>2, <2>1
  <2> QED
    BY <2>1, <2>2
<1> QED
  BY <1>4 DEF Min

(* What holds at first and after every round holds at the end.             *)
LEMMA RoundByRound ==
  ASSUME NEW n \in Nat, NEW S, 0 \in S, \A k \in 0..(n - 1) : k \in S => k + 1 \in S
  PROVE  n \in S
<1> DEFINE T == {k \in Nat : k <= n /\ k \notin S}
<1> SUFFICES ASSUME T # {}
             PROVE  FALSE
  OBVIOUS
<1>1. Min(T) \in T /\ \A k \in T : Min(T) <= k
  BY LeastNatural
<1>2. PICK m \in T : \A k \in T : m <= k
  BY <1>1
<1>3. m \in Nat /\ m <= n /\ m \notin S /\ m # 0
  BY <1>2
<1>4. m - 1 \in 0..(n - 1) /\ m - 1 \in Nat /\ (m - 1) + 1 = m /\ m - 1 <= n /\ ~(m <= m - 1)
  BY <1>3
<1>5. m - 1 \in S
  BY <1>2, <1>4
<1> QED
  BY <1>3, <1>4, <1>5

(* A loop whose rounds stay in A is there, and stays in A.                 *)
Loops(n, A, a0, step) ==
  {f \in [0..n -> A] : f[0] = a0 /\ \A k \in 1..n : f[k] = step[<<k, f[k - 1]>>]}

LEMMA LoopExists ==
  ASSUME NEW n \in Nat, NEW A, NEW a0 \in A, NEW step \in [(1..n) \X A -> A]
  PROVE  \E f : f \in Loops(n, A, a0, step)
<1> DEFINE IsLoop(f, m) == /\ f \in [0..m -> A] /\ f[0] = a0
                           /\ \A k \in 1..m : f[k] = step[<<k, f[k - 1]>>]
           S == {m \in 0..n : \E f : IsLoop(f, m)}
<1>1. 0 \in S
  <2> DEFINE f == [k \in 0..0 |-> a0]
  <2>1. f \in [0..0 -> A] /\ f[0] = a0 /\ 1..0 = {}
    OBVIOUS
  <2> HIDE DEF f
  <2>2. IsLoop(f, 0)
    BY <2>1
  <2>3. 0 \in 0..n
    OBVIOUS
  <2> QED
    BY <2>2, <2>3, Zenon
<1>2. ASSUME NEW m \in 0..(n - 1), m \in S
      PROVE  m + 1 \in S
  <2>1. PICK f : IsLoop(f, m)
    BY <1>2
  <2> DEFINE g == [k \in 0..(m + 1) |-> IF k = m + 1 THEN step[<<m + 1, f[m]>>] ELSE f[k]]
  <2>2. m \in Nat /\ m \in 0..m /\ m + 1 \in 1..n /\ m + 1 \in 0..n
    BY <1>2
  <2>3. f[m] \in A
    BY <2>1, <2>2
  <2>4. step[<<m + 1, f[m]>>] \in A
    BY <2>2, <2>3
  <2>5. g \in [0..(m + 1) -> A]
    BY <2>1, <2>2, <2>4
  <2>6. g[0] = a0
    BY <2>1, <2>2
  <2>7. ASSUME NEW k \in 1..(m + 1)
        PROVE  g[k] = step[<<k, g[k - 1]>>]
    <3>1. CASE k = m + 1
      <4>1. k - 1 = m /\ m # m + 1 /\ m \in 0..(m + 1) /\ m + 1 \in 0..(m + 1)
        BY <3>1, <2>2
      <4>2. g[m + 1] = step[<<m + 1, f[m]>>] /\ g[m] = f[m]
        BY <4>1
      <4> QED
        BY <3>1, <4>1, <4>2
    <3>2. CASE k # m + 1
      <4>1. k \in 1..m /\ k \in 0..(m + 1) /\ k - 1 \in 0..(m + 1) /\ k - 1 # m + 1
        BY <3>2, <2>2
      <4> QED
        BY <2>1, <3>2, <4>1
    <3> QED
      BY <3>1, <3>2
  <2>8. IsLoop(g, m + 1)
    BY <2>5, <2>6, <2>7
  <2> QED
    BY <2>2, <2>8
<1> HIDE DEF S
<1>3. n \in S
  BY <1>1, <1>2, RoundByRound
<1> QED
  BY <1>3 DEF S, Loops

Rounds(g, n, A, a0, step) ==
  g[0] = a0 /\ \A k \in 1..n : g[k - 1] \in A => g[k] = step[<<k, g[k - 1]>>]

LEMMA LoopStays ==
  ASSUME NEW n \in Nat, NEW A, NEW a0 \in A, NEW step \in [(1..n) \X A -> A],
         NEW g, Rounds(g, n, A, a0, step)
  PROVE  \A m \in 0..n : g[m] \in A
<1> TAKE m \in 0..n
<1> DEFINE S == {k \in 0..n : g[k] \in A}
<1>1. m \in Nat /\ 0 \in S
  BY DEF Rounds
<1>2. ASSUME NEW k \in 0..(m - 1), k \in S
      PROVE  k + 1 \in S
  <2>1. k + 1 \in 0..n /\ k + 1 \in 1..n /\ (k + 1) - 1 = k /\ g[k] \in A
    BY <1>1, <1>2
  <2>2. g[k + 1] = step[<<k + 1, g[k]>>]
    BY <2>1 DEF Rounds
  <2> QED
    BY <2>1, <2>2
<1> HIDE DEF S
<1>3. m \in S
  BY <1>1, <1>2, RoundByRound
<1> QED
  BY <1>3 DEF S

---------------------------------------------------------------------------
(* What the table of descriptors and the bag can be.                       *)
RxKinds == {"canrx", "udprx"}
TxKinds == {"cantx", "udptx"}

Sockets ==
  [kind : RxKinds \cup TxKinds, dev : Devices, port : Ports \cup {"all"}, bound : BOOLEAN,
   err : BOOLEAN, room : BOOLEAN, rcv : {0, 1}, filter : SUBSET Ports]

Tables == [Fds -> Sockets \cup {Free}]

MediaRecords == [dev : STRING, rx : SUBSET Fds, tx : SUBSET Fds]

MediaLists == {m \in Seq(MediaRecords) : Len(m) <= MaxMedia}

TransportBags ==
  [kind : {"can", "udp"}, media : MediaLists, bad : SUBSET (Devices \X {"canrx", "cantx"})]

(* The media m hold the open sockets of the table t: each holds sockets of *)
(* the right direction, no two hold the same one, and none is left over.   *)
Holds(t, m) ==
  /\ \A i \in DOMAIN m : /\ \A fd \in m[i].rx : t[fd].kind \in RxKinds
                         /\ \A fd \in m[i].tx : t[fd].kind \in TxKinds
  /\ \A i, j \in DOMAIN m : i # j => (m[i].rx \cup m[i].tx) \cap (m[j].rx \cup m[j].tx) = {}
  /\ \A fd \in Fds : t[fd].kind # "free" => \E i \in DOMAIN m : fd \in m[i].rx \cup m[i].tx

(* For every interface, a transfer is queued, carried or given up.         *)
Accounted(t, i) == t \in ToSet(txq[i]) \/ <<t, i>> \in carried \/ <<t, i>> \in failed

MediaInv ==
  /\ list \in Seq([prefix : STRING, addresses : Seq(STRING)])
  /\ table \in Tables
  /\ bag = NoBag \/ bag \in TransportBags
  /\ bag = NoBag => subs = {} /\ count = 0
  /\ Holds(table, bag.media)
  /\ bag.kind = "udp" => \A fd \in Fds : table[fd].kind # "canrx"
  /\ subs \subseteq Ports
  /\ count \in Nat
  /\ txq \in [Slots -> Seq(Nat)]
  /\ \A t \in 1..count, i \in Interfaces : Accounted(t, i)
  /\ SubscribedPortsPass

---------------------------------------------------------------------------
(* Opening: there is one more socket in what was a free descriptor, or     *)
(* nothing has changed.                                                    *)

Opened(t, o, kind) ==
  \/ o.fd = Error /\ o.table = t
  \/ /\ o.fd \in Fds /\ t[o.fd].kind = "free"
     /\ \E s \in Sockets : s.kind = kind /\ o.table = [t EXCEPT ![o.fd] = s]

LEMMA SocketIsTyped ==
  ASSUME NEW kind \in RxKinds \cup TxKinds, NEW dev \in Devices, NEW port \in Ports \cup {"all"}
  PROVE  Socket(kind, dev, port) \in Sockets /\ Socket(kind, dev, port).kind = kind
BY DEF Socket, Sockets

LEMMA KindsOfSockets ==
  /\ Error \notin Fds
  /\ Free.kind = "free"
  /\ \A s \in Sockets : s.kind \in RxKinds \cup TxKinds /\ s.kind # "free"
  /\ \A t \in Tables, fd \in Fds : t[fd].kind = "free" <=> t[fd] = Free
<1>1. Error \notin Fds
  BY DEF Error, Fds
<1>2. Free.kind = "free"
  BY DEF Free
<1>3. ASSUME NEW s \in Sockets
      PROVE  s.kind \in RxKinds \cup TxKinds /\ s.kind # "free"
  BY DEF Sockets, RxKinds, TxKinds
<1>4. ASSUME NEW t \in Tables, NEW fd \in Fds
      PROVE  t[fd].kind = "free" <=> t[fd] = Free
  <2>1. t[fd] \in Sockets \/ t[fd] = Free
    BY DEF Tables
  <2> QED
    BY <1>2, <1>3, <2>1
<1> QED
  BY <1>1, <1>2, <1>3, <1>4

LEMMA LowestFreeIsFree ==
  ASSUME NEW t, FreeFds(t) # {}
  PROVE  LowestFree(t) \in Fds /\ t[LowestFree(t)].kind = "free"
<1>1. FreeFds(t) \subseteq Nat
  BY DEF FreeFds, Fds
<1>2. Min(FreeFds(t)) \in FreeFds(t) /\ \A k \in FreeFds(t) : Min(FreeFds(t)) <= k
  BY <1>1, LeastNatural
<1>3. LowestFree(t) \in FreeFds(t)
  BY <1>2 DEF LowestFree
<1> QED
  BY <1>3 DEF FreeFds

LEMMA Opening ==
  ASSUME NEW t \in Tables, NEW kind \in RxKinds \cup TxKinds, NEW dev,
         NEW port \in Ports \cup {"all"}, NEW ok, ok => dev \in Devices
  PROVE  Opened(t, OpenSocket(t, kind, dev, port, ok), kind)
<1>1. CASE FreeFds(t) = {} \/ ~ok
  BY <1>1 DEF OpenSocket, Opened
<1>2. CASE ~(FreeFds(t) = {} \/ ~ok)
  <2> DEFINE s == Socket(kind, dev, port)
             fd == LowestFree(t)
             o == OpenSocket(t, kind, dev, port, ok)
  <2>1. s \in Sockets /\ s.kind = kind
    BY <1>2, SocketIsTyped
  <2>2. fd \in Fds /\ t[fd].kind = "free"
    BY <1>2, LowestFreeIsFree
  <2>3. o = [table |-> [t EXCEPT ![fd] = s], fd |-> fd]
    BY <1>2 DEF OpenSocket
  <2> HIDE DEF s, fd, o
  <2>4. o.fd = fd /\ o.table = [t EXCEPT ![fd] = s]
    BY <2>3
  <2>5. Opened(t, o, kind)
    BY <2>1, <2>2, <2>4 DEF Opened
  <2> QED
    BY <2>5 DEF o
<1> QED
  BY <1>1, <1>2

(* A socket that is closed again leaves the table as it was.               *)
LEMMA ClosedAgain ==
  ASSUME NEW t \in Tables, NEW fd \in Fds, t[fd].kind = "free", NEW s \in Sockets
  PROVE  Close([t EXCEPT ![fd] = s], {fd}) = t
<1>1. t[fd] = Free
  BY KindsOfSockets
<1>2. t = [x \in Fds |-> t[x]]
  BY DEF Tables
<1>3. \A x \in Fds : (IF x \in {fd} THEN Free ELSE [t EXCEPT ![fd] = s][x]) = t[x]
  BY <1>1 DEF Tables
<1> QED
  BY <1>2, <1>3 DEF Close

LEMMA UdpTxMakeOpens ==
  ASSUME NEW t \in Tables, NEW text, NEW bad, NEW memory
  PROVE  Opened(t, UdpTxMake(t, text, bad, memory), "udptx")
<1> DEFINE address == UdpParseIfaceAddress(text)
           ok == address # "0" /\ Exists(address) /\ <<address, "udptx">> \notin bad
           o == UdpTxInit(t, address, bad)
<1>1. ok => address \in Devices
  BY DEF Exists
<1>2. "udptx" \in RxKinds \cup TxKinds /\ "all" \in Ports \cup {"all"}
  BY DEF TxKinds
<1>3. o = OpenSocket(t, "udptx", address, "all", ok)
  BY DEF UdpTxInit
<1> HIDE DEF ok, address
<1>4. Opened(t, o, "udptx")
  BY <1>1, <1>2, <1>3, Opening
<1> HIDE DEF o
<1>5. UdpTxMake(t, text, bad, memory) =
        IF o.fd = Error \/ memory THEN o
        ELSE [table |-> Close(o.table, {o.fd}), fd |-> Error]
  BY DEF UdpTxMake, o, address
<1>6. CASE o.fd = Error \/ memory
  BY <1>4, <1>5, <1>6
<1>7. CASE ~(o.fd = Error \/ memory)
  <2>1. Close(o.table, {o.fd}) = t
    BY <1>4, <1>7, ClosedAgain DEF Opened
  <2> QED
    BY <1>5, <1>7, <2>1 DEF Opened
<1> QED
  BY <1>6, <1>7

LEMMA UdpRxMakeOpens ==
  ASSUME NEW t \in Tables, NEW text, NEW port \in Ports, NEW bad, NEW memory
  PROVE  Opened(t, UdpRxMake(t, text, port, bad, memory), "udprx")
<1> DEFINE address == UdpParseIfaceAddress(text)
           ok == address # "0" /\ Exists(address) /\ <<address, "udprx">> \notin bad
           o == UdpRxInit(t, address, port, bad)
<1>1. ok => address \in Devices
  BY DEF Exists
<1>2. "udprx" \in RxKinds \cup TxKinds /\ port \in Ports \cup {"all"}
  BY DEF RxKinds
<1>3. o = OpenSocket(t, "udprx", address, port, ok)
  BY DEF UdpRxInit
<1> HIDE DEF ok, address
<1>4. Opened(t, o, "udprx")
  BY <1>1, <1>2, <1>3, Opening
<1> HIDE DEF o
<1>5. UdpRxMake(t, text, port, bad, memory) =
        IF o.fd = Error \/ memory THEN o
        ELSE [table |-> Close(o.table, {o.fd}), fd |-> Error]
  BY DEF UdpRxMake, o, address
<1>6. CASE o.fd = Error \/ memory
  BY <1>4, <1>5, <1>6
<1>7. CASE ~(o.fd = Error \/ memory)
  <2>1. Close(o.table, {o.fd}) = t
    BY <1>4, <1>7, ClosedAgain DEF Opened
  <2> QED
    BY <1>5, <1>7, <2>1 DEF Opened
<1> QED
  BY <1>6, <1>7

LEMMA SocketcanOpens ==
  ASSUME NEW t \in Tables, NEW name, NEW kind \in {"canrx", "cantx"}, NEW bad
  PROVE  Opened(t, SocketcanOpen(t, name, kind, bad), kind)
<1> DEFINE ok == name \notin LongNames /\ Exists(name) /\ <<name, kind>> \notin bad
<1>1. ok => name \in Devices
  BY DEF Exists
<1>2. kind \in RxKinds \cup TxKinds /\ "all" \in Ports \cup {"all"}
  BY DEF RxKinds, TxKinds
<1>3. SocketcanOpen(t, name, kind, bad) = OpenSocket(t, kind, name, "all", ok)
  BY DEF SocketcanOpen
<1> HIDE DEF ok
<1> QED
  BY <1>1, <1>2, <1>3, Opening

---------------------------------------------------------------------------
(* Who holds the sockets.                                                  *)

LEMMA TableWith ==
  ASSUME NEW t \in Tables, NEW fd \in Fds, NEW s \in Sockets
  PROVE  /\ [t EXCEPT ![fd] = s] \in Tables
         /\ [t EXCEPT ![fd] = s][fd] = s
         /\ \A x \in Fds \ {fd} : [t EXCEPT ![fd] = s][x] = t[x]
BY DEF Tables

(* A new socket goes to one of the media.                                  *)
WithOneMore(t, m, u, n, i, fd) ==
  /\ t[fd].kind = "free" /\ u[fd].kind # "free" /\ \A x \in Fds \ {fd} : u[x].kind = t[x].kind
  /\ DOMAIN n = DOMAIN m /\ \A j \in DOMAIN m : j # i => n[j] = m[j]
  /\ \/ n[i].rx = m[i].rx \cup {fd} /\ n[i].tx = m[i].tx /\ u[fd].kind \in RxKinds
     \/ n[i].rx = m[i].rx /\ n[i].tx = m[i].tx \cup {fd} /\ u[fd].kind \in TxKinds

LEMMA HoldsOneMore ==
  ASSUME NEW t \in Tables, NEW m \in Seq(MediaRecords), NEW u \in Tables,
         NEW n \in Seq(MediaRecords), NEW i \in DOMAIN m, NEW fd \in Fds,
         Holds(t, m), WithOneMore(t, m, u, n, i, fd)
  PROVE  Holds(u, n)
<1>1. /\ t[fd].kind = "free" /\ u[fd].kind # "free" /\ \A x \in Fds \ {fd} : u[x].kind = t[x].kind
      /\ DOMAIN n = DOMAIN m /\ \A j \in DOMAIN m : j # i => n[j] = m[j]
      /\ \/ n[i].rx = m[i].rx \cup {fd} /\ n[i].tx = m[i].tx /\ u[fd].kind \in RxKinds
         \/ n[i].rx = m[i].rx /\ n[i].tx = m[i].tx \cup {fd} /\ u[fd].kind \in TxKinds
  BY DEF WithOneMore
<1>2. \A j \in DOMAIN m : /\ m[j].rx \subseteq Fds /\ m[j].tx \subseteq Fds
                          /\ n[j].rx \subseteq Fds /\ n[j].tx \subseteq Fds
  <2>1. \A j \in DOMAIN m : m[j] \in MediaRecords /\ n[j] \in MediaRecords
    BY <1>1
  <2> QED
    BY <2>1 DEF MediaRecords
<1>3. \A j \in DOMAIN m : fd \notin m[j].rx /\ fd \notin m[j].tx
  BY <1>1 DEF Holds, RxKinds, TxKinds
<1>4. ASSUME NEW j \in DOMAIN n
      PROVE  /\ \A x \in n[j].rx : u[x].kind \in RxKinds
             /\ \A x \in n[j].tx : u[x].kind \in TxKinds
  <2>0. j \in DOMAIN m
    BY <1>1
  <2>1. ASSUME NEW x \in m[j].rx
        PROVE  u[x].kind \in RxKinds
    <3>1. x \in Fds \ {fd}
      BY <1>2, <1>3, <2>0
    <3>2. t[x].kind \in RxKinds
      BY <2>0 DEF Holds
    <3> QED
      BY <1>1, <3>1, <3>2
  <2>2. ASSUME NEW x \in m[j].tx
        PROVE  u[x].kind \in TxKinds
    <3>1. x \in Fds \ {fd}
      BY <1>2, <1>3, <2>0
    <3>2. t[x].kind \in TxKinds
      BY <2>0 DEF Holds
    <3> QED
      BY <1>1, <3>1, <3>2
  <2>3. CASE j = i
    BY <1>1, <2>1, <2>2, <2>3
  <2>4. CASE j # i
    BY <1>1, <2>0, <2>1, <2>2, <2>4
  <2> QED
    BY <2>3, <2>4
<1>5. ASSUME NEW j \in DOMAIN n, NEW k \in DOMAIN n, j # k
      PROVE  (n[j].rx \cup n[j].tx) \cap (n[k].rx \cup n[k].tx) = {}
  <2>0. j \in DOMAIN m /\ k \in DOMAIN m
    BY <1>1
  <2>1. (m[j].rx \cup m[j].tx) \cap (m[k].rx \cup m[k].tx) = {}
    BY <1>5, <2>0 DEF Holds
  <2>2. /\ n[j].rx \cup n[j].tx \subseteq m[j].rx \cup m[j].tx \cup {fd}
        /\ n[k].rx \cup n[k].tx \subseteq m[k].rx \cup m[k].tx \cup {fd}
    <3>1. \A x \in DOMAIN m : x = i \/ n[x] = m[x]
      BY <1>1
    <3>2. n[i].rx \cup n[i].tx \subseteq m[i].rx \cup m[i].tx \cup {fd}
      BY <1>1
    <3>3. \A x \in DOMAIN m : n[x].rx \cup n[x].tx \subseteq m[x].rx \cup m[x].tx \cup {fd}
      BY <3>1, <3>2
    <3> QED
      BY <2>0, <3>3
  <2>3. fd \notin m[j].rx \cup m[j].tx /\ fd \notin m[k].rx \cup m[k].tx
    BY <1>3, <2>0
  <2>4. fd \in n[j].rx \cup n[j].tx => j = i
    BY <1>1, <1>3, <2>0
  <2>5. fd \in n[k].rx \cup n[k].tx => k = i
    BY <1>1, <1>3, <2>0
  <2> QED
    BY <1>5, <2>1, <2>2, <2>3, <2>4, <2>5
<1>6. ASSUME NEW x \in Fds, u[x].kind # "free"
      PROVE  \E j \in DOMAIN n : x \in n[j].rx \cup n[j].tx
  <2>1. CASE x = fd
    BY <1>1, <2>1
  <2>2. CASE x # fd
    <3>1. PICK j \in DOMAIN m : x \in m[j].rx \cup m[j].tx
      BY <1>1, <1>6, <2>2 DEF Holds
    <3>2. x \in n[j].rx \cup n[j].tx
      BY <1>1, <3>1
    <3> QED
      BY <1>1, <3>2
  <2> QED
    BY <2>1, <2>2
<1> QED
  BY <1>4, <1>5, <1>6 DEF Holds

(* Two new sockets go to a new CAN media.                                  *)
WithNewMedia(t, m, u, n, rx, tx) ==
  /\ rx # tx /\ t[rx].kind = "free" /\ t[tx].kind = "free"
  /\ u[rx].kind = "canrx" /\ u[tx].kind = "cantx" /\ \A x \in Fds \ {rx, tx} : u[x] = t[x]
  /\ Len(n) = Len(m) + 1 /\ \A j \in 1..Len(m) : n[j] = m[j]
  /\ n[Len(m) + 1].rx = {rx} /\ n[Len(m) + 1].tx = {tx}

LEMMA HoldsNewMedia ==
  ASSUME NEW t \in Tables, NEW m \in Seq(MediaRecords), NEW u \in Tables,
         NEW n \in Seq(MediaRecords), NEW rx \in Fds, NEW tx \in Fds,
         Holds(t, m), WithNewMedia(t, m, u, n, rx, tx)
  PROVE  Holds(u, n)
<1>0. /\ rx # tx /\ t[rx].kind = "free" /\ t[tx].kind = "free"
      /\ u[rx].kind = "canrx" /\ u[tx].kind = "cantx" /\ \A x \in Fds \ {rx, tx} : u[x] = t[x]
      /\ Len(n) = Len(m) + 1 /\ \A j \in 1..Len(m) : n[j] = m[j]
      /\ n[Len(m) + 1].rx = {rx} /\ n[Len(m) + 1].tx = {tx}
  BY DEF WithNewMedia
<1> DEFINE l == Len(m) + 1
<1>1. /\ Len(n) = l /\ \A j \in 1..Len(m) : n[j] = m[j]
      /\ DOMAIN m = 1..Len(m) /\ Len(m) \in Nat
  BY <1>0
<1>2. DOMAIN n = DOMAIN m \cup {l} /\ l \notin DOMAIN m
  BY <1>1
<1> HIDE DEF l
<1>3. \A j \in DOMAIN m : n[j] = m[j] /\ m[j] \in MediaRecords
  BY <1>1
<1>4. n[l].rx = {rx} /\ n[l].tx = {tx}
  BY <1>0 DEF l
<1>5. \A j \in DOMAIN m : /\ m[j].rx \subseteq Fds \ {rx, tx} /\ m[j].tx \subseteq Fds \ {rx, tx}
  <2> TAKE j \in DOMAIN m
  <2>1. m[j].rx \subseteq Fds /\ m[j].tx \subseteq Fds
    BY <1>3 DEF MediaRecords
  <2>2. {rx, tx} \cap (m[j].rx \cup m[j].tx) = {}
    BY <1>0 DEF Holds, RxKinds, TxKinds
  <2> QED
    BY <2>1, <2>2
<1>6. ASSUME NEW j \in DOMAIN n
      PROVE  /\ \A x \in n[j].rx : u[x].kind \in RxKinds
             /\ \A x \in n[j].tx : u[x].kind \in TxKinds
  <2>1. CASE j = l
    BY <1>0, <1>4, <2>1 DEF RxKinds, TxKinds
  <2>2. CASE j \in DOMAIN m
    <3>1. \A x \in m[j].rx : u[x] = t[x] /\ t[x].kind \in RxKinds
      BY <1>0, <1>5, <2>2 DEF Holds
    <3>2. \A x \in m[j].tx : u[x] = t[x] /\ t[x].kind \in TxKinds
      BY <1>0, <1>5, <2>2 DEF Holds
    <3> QED
      BY <1>3, <2>2, <3>1, <3>2
  <2> QED
    BY <1>2, <2>1, <2>2
<1>7. ASSUME NEW j \in DOMAIN n, NEW k \in DOMAIN n, j # k
      PROVE  (n[j].rx \cup n[j].tx) \cap (n[k].rx \cup n[k].tx) = {}
  <2>1. CASE j = l
    <3>1. k \in DOMAIN m
      BY <1>2, <1>7, <2>1
    <3> QED
      BY <1>3, <1>4, <1>5, <2>1, <3>1
  <2>2. CASE k = l
    <3>1. j \in DOMAIN m
      BY <1>2, <1>7, <2>2
    <3> QED
      BY <1>3, <1>4, <1>5, <2>2, <3>1
  <2>3. CASE j \in DOMAIN m /\ k \in DOMAIN m
    BY <1>3, <1>7, <2>3 DEF Holds
  <2> QED
    BY <1>2, <2>1, <2>2, <2>3
<1>8. ASSUME NEW x \in Fds, u[x].kind # "free"
      PROVE  \E j \in DOMAIN n : x \in n[j].rx \cup n[j].tx
  <2>1. CASE x \in {rx, tx}
    <3>1. x \in n[l].rx \cup n[l].tx
      BY <1>4, <2>1
    <3> QED
      BY <1>2, <3>1
  <2>2. CASE x \notin {rx, tx}
    <3>1. PICK j \in DOMAIN m : x \in m[j].rx \cup m[j].tx
      BY <1>0, <1>8, <2>2 DEF Holds
    <3> QED
      BY <1>2, <1>3, <3>1
  <2> QED
    BY <2>1, <2>2
<1> QED
  BY <1>6, <1>7, <1>8 DEF Holds

(* CanMedia::make opens two sockets for a new media, or changes nothing.   *)
CanMade(t, name, o, rx, tx) ==
  /\ rx # tx /\ t[rx].kind = "free" /\ t[tx].kind = "free"
  /\ o.table \in Tables /\ o.table[rx].kind = "canrx" /\ o.table[tx].kind = "cantx"
  /\ \A x \in Fds \ {rx, tx} : o.table[x] = t[x]
  /\ o.media = <<Medium(name, {rx}, {tx})>>

LEMMA CanMediaMakeOpens ==
  ASSUME NEW t \in Tables, NEW name \in STRING, NEW bad, NEW o, o = CanMediaMake(t, name, bad)
  PROVE  \/ o.table = t /\ o.media = <<>>
         \/ \E rx, tx \in Fds : CanMade(t, name, o, rx, tx)
<1> DEFINE rx == SocketcanOpen(t, name, "canrx", bad)
           tx == SocketcanOpen(rx.table, name, "cantx", bad)
<1>0. o = IF rx.fd = Error THEN [table |-> t, media |-> <<>>]
          ELSE IF tx.fd = Error THEN [table |-> Close(tx.table, {rx.fd}), media |-> <<>>]
          ELSE [table |-> tx.table, media |-> <<Medium(name, {rx.fd}, {tx.fd})>>]
  BY DEF CanMediaMake
<1>1. Opened(t, rx, "canrx")
  BY SocketcanOpens
<1> HIDE DEF rx
<1>2. CASE rx.fd = Error
  BY <1>0, <1>2
<1>3. CASE rx.fd # Error
  <2>1. PICK s \in Sockets : /\ s.kind = "canrx" /\ rx.table = [t EXCEPT ![rx.fd] = s]
                             /\ rx.fd \in Fds /\ t[rx.fd].kind = "free"
    BY <1>1, <1>3 DEF Opened
  <2>2. /\ rx.table \in Tables /\ rx.table[rx.fd] = s
        /\ \A x \in Fds \ {rx.fd} : rx.table[x] = t[x]
    BY <2>1, TableWith
  <2>3. Opened(rx.table, tx, "cantx")
    BY <2>2, SocketcanOpens
  <2> HIDE DEF tx
  <2>4. CASE tx.fd = Error
    <3>1. tx.table = rx.table
      BY <2>3, <2>4, KindsOfSockets DEF Opened
    <3>2. Close(tx.table, {rx.fd}) = t
      BY <2>1, <3>1, ClosedAgain
    <3> QED
      BY <1>0, <1>3, <2>4, <3>2
  <2>5. CASE tx.fd # Error
    <3>1. PICK v \in Sockets : /\ v.kind = "cantx" /\ tx.table = [rx.table EXCEPT ![tx.fd] = v]
                               /\ tx.fd \in Fds /\ rx.table[tx.fd].kind = "free"
      BY <2>3, <2>5 DEF Opened
    <3>2. /\ tx.table \in Tables /\ tx.table[tx.fd] = v
          /\ \A x \in Fds \ {tx.fd} : tx.table[x] = rx.table[x]
      BY <2>2, <3>1, TableWith
    <3>3. rx.fd # tx.fd
      BY <2>1, <2>2, <3>1
    <3>4. t[tx.fd].kind = "free"
      BY <2>2, <3>1, <3>3
    <3>5. o.table = tx.table /\ o.media = <<Medium(name, {rx.fd}, {tx.fd})>>
      BY <1>0, <1>3, <2>5
    <3>6. tx.table[rx.fd].kind = "canrx" /\ \A x \in Fds \ {rx.fd, tx.fd} : tx.table[x] = t[x]
      BY <2>1, <2>2, <3>2, <3>3
    <3>7. rx.fd \in Fds /\ tx.fd \in Fds /\ CanMade(t, name, o, rx.fd, tx.fd)
      BY <2>1, <3>1, <3>2, <3>3, <3>4, <3>5, <3>6 DEF CanMade
    <3> QED
      BY <3>7, Zenon
  <2> QED
    BY <2>4, <2>5
<1> QED
  BY <1>2, <1>3

---------------------------------------------------------------------------
(* The loops over the configuration.                                       *)

LEMMA AddressesAreStrings ==
  ASSUME list \in Seq([prefix : STRING, addresses : Seq(STRING)]), NEW prefix
  PROVE  Addresses(prefix) \in Seq(STRING)
<1> DEFINE n == Len(list)
           A == Seq(STRING)
           Step(k, a) == IF list[k].prefix = prefix THEN a \o list[k].addresses ELSE a
           g == CHOOSE f : f = [k \in 0..n |-> IF k = 0 THEN <<>>
                                               ELSE IF list[k].prefix = prefix
                                               THEN f[k - 1] \o list[k].addresses
                                               ELSE f[k - 1]]
<1>1. Addresses(prefix) = g[n]
  BY DEF Addresses
<1>2. n \in Nat /\ \A k \in 1..n : list[k].addresses \in A
  <2>1. n \in Nat /\ \A k \in 1..n : list[k] \in [prefix : STRING, addresses : Seq(STRING)]
    BY ElementOfSeq, LenProperties
  <2> QED
    BY <2>1
<1>3. <<>> \in A /\ \A k \in 1..n, a \in A : Step(k, a) \in A
  <2>1. ASSUME NEW k \in 1..n, NEW a \in A
        PROVE  Step(k, a) \in A
    <3>1. list[k].addresses \in A
      BY <1>2
    <3>2. a \o list[k].addresses \in A
      BY <3>1, ConcatProperties
    <3> QED
      BY <3>2
  <2> QED
    BY <2>1
<1> DEFINE step == [x \in (1..n) \X A |-> Step(x[1], x[2])]
<1> HIDE DEF Step, A, n
<1>4. step \in [(1..n) \X A -> A]
  BY <1>3
<1>5. \A k \in 1..n, a \in A : step[<<k, a>>] = Step(k, a)
  OBVIOUS
<1> HIDE DEF step
<1>6. PICK f : f \in Loops(n, A, <<>>, step)
  BY <1>2, <1>3, <1>4, LoopExists, Zenon
<1>7. f = [k \in 0..n |-> IF k = 0 THEN <<>> ELSE Step(k, f[k - 1])]
  <2>1. f \in [0..n -> A] /\ f[0] = <<>>
    BY <1>6 DEF Loops
  <2>2. ASSUME NEW k \in 0..n, k # 0
        PROVE  f[k] = Step(k, f[k - 1])
    <3>1. k \in 1..n /\ k - 1 \in 0..n
      BY <1>2, <2>2
    <3> QED
      BY <1>5, <1>6, <2>1, <3>1 DEF Loops
  <2> QED
    BY <2>1, <2>2
<1>8. g = [k \in 0..n |-> IF k = 0 THEN <<>> ELSE Step(k, g[k - 1])]
  BY <1>7 DEF Step
<1> HIDE DEF g
<1>9. g[0] = <<>> /\ \A k \in 1..n : g[k - 1] \in A => g[k] = step[<<k, g[k - 1]>>]
  BY <1>2, <1>5, <1>8
<1>10. \A m \in 0..n : g[m] \in A
  <2>1. Rounds(g, n, A, <<>>, step)
    BY <1>9 DEF Rounds
  <2> QED
    BY <1>2, <1>3, <1>4, <2>1, LoopStays
<1>11. n \in 0..n
  BY <1>2
<1> QED
  BY <1>1, <1>10, <1>11 DEF A

(* CanMediaCollection::parse keeps hold of what it opens.                  *)
CanParsed == {acc \in [table : Tables, media : MediaLists] : Holds(acc.table, acc.media)}

LEMMA CanParseStep ==
  ASSUME NEW a \in CanParsed, Len(a.media) # MaxMedia, NEW name \in STRING, NEW bad,
         NEW made, made = CanMediaMake(a.table, name, bad)
  PROVE  [table |-> made.table, media |-> a.media \o made.media] \in CanParsed
<1>0. /\ a.table \in Tables /\ a.media \in Seq(MediaRecords) /\ Len(a.media) <= 3
      /\ Holds(a.table, a.media)
  BY DEF CanParsed, MediaLists, MaxMedia
<1>1. Len(a.media) \in Nat /\ Len(a.media) + 1 <= 3
  <2>1. Len(a.media) \in Nat
    BY <1>0, LenProperties
  <2>2. Len(a.media) # 3
    BY DEF MaxMedia
  <2>3. \A x \in Nat : x <= 3 /\ x # 3 => x + 1 <= 3
    OBVIOUS
  <2> QED
    BY <1>0, <2>1, <2>2, <2>3
<1>2. CASE made.table = a.table /\ made.media = <<>>
  <2>1. a.media \o made.media = a.media
    BY <1>0, <1>2
  <2> QED
    BY <1>2, <2>1 DEF CanParsed
<1>3. CASE \E rx, tx \in Fds : CanMade(a.table, name, made, rx, tx)
  <2>1. PICK rx \in Fds, tx \in Fds : CanMade(a.table, name, made, rx, tx)
    BY <1>3
  <2> DEFINE new == Medium(name, {rx}, {tx})
             n == a.media \o made.media
  <2>2. new \in MediaRecords /\ new.rx = {rx} /\ new.tx = {tx}
    BY DEF Medium, MediaRecords
  <2> HIDE DEF new
  <2>3. /\ n \in Seq(MediaRecords) /\ Len(n) = Len(a.media) + 1 /\ n[Len(a.media) + 1] = new
        /\ \A j \in 1..Len(a.media) : n[j] = a.media[j]
    <3>1. n = a.media \o <<new>>
      BY <2>1 DEF new, CanMade
    <3> QED
      BY <1>0, <2>2, <3>1
  <2> HIDE DEF n
  <2>4. Holds(made.table, n)
    <3>1. made.table \in Tables /\ WithNewMedia(a.table, a.media, made.table, n, rx, tx)
      BY <2>1, <2>2, <2>3 DEF CanMade, WithNewMedia
    <3> QED
      BY <1>0, <2>3, <3>1, HoldsNewMedia, Zenon
  <2>5. n \in MediaLists
    BY <1>1, <2>3 DEF MediaLists, MaxMedia
  <2>6. [table |-> made.table, media |-> n] \in CanParsed
    BY <2>1, <2>4, <2>5 DEF CanParsed, CanMade
  <2> QED
    BY <2>6 DEF n
<1> QED
  BY <1>0, <1>2, <1>3, CanMediaMakeOpens

(* A round of the loop, and the loop round by round.                       *)
CanRound(a, b, name, bad) ==
  LET made == CanMediaMake(a.table, name, bad)
  IN  IF Len(a.media) = MaxMedia \/ name = "" THEN b = a
      ELSE b = [table |-> made.table, media |-> a.media \o made.media]

CanRounds(g, names, bad) ==
  /\ g[0] = [table |-> table, media |-> <<>>]
  /\ \A k \in 0..Len(names) : g[k] \in CanParsed
  /\ \A k \in 1..Len(names) : CanRound(g[k - 1], g[k], names[k], bad)

LEMMA CanParseRounds ==
  ASSUME NEW names \in Seq(STRING), NEW bad, table \in Tables, Holds(table, <<>>)
  PROVE  \E g : CanRounds(g, names, bad) /\ CanParse(names, bad) = g[Len(names)]
<1> DEFINE n == Len(names)
           A == CanParsed
           a0 == [table |-> table, media |-> <<>>]
           Step(k, a) == IF Len(a.media) = MaxMedia \/ names[k] = "" THEN a
                         ELSE LET made == CanMediaMake(a.table, names[k], bad)
                              IN  [table |-> made.table, media |-> a.media \o made.media]
           g == CHOOSE f : f = [k \in 0..n |->
                  IF k = 0 THEN [table |-> table, media |-> <<>>]
                  ELSE IF Len(f[k - 1].media) = MaxMedia \/ names[k] = "" THEN f[k - 1]
                  ELSE LET made == CanMediaMake(f[k - 1].table, names[k], bad)
                       IN  [table |-> made.table, media |-> f[k - 1].media \o made.media]]
<1>1. CanParse(names, bad) = g[n]
  BY DEF CanParse
<1>2. n \in Nat /\ \A k \in 1..n : names[k] \in STRING
  OBVIOUS
<1>3. a0 \in A /\ \A k \in 1..n, a \in A : Step(k, a) \in A
  <2>1. a0 \in A
    <3>1. <<>> \in MediaLists
      BY DEF MediaLists, MaxMedia
    <3> QED
      BY <3>1 DEF CanParsed
  <2>2. ASSUME NEW k \in 1..n, NEW a \in A
        PROVE  Step(k, a) \in A
    BY <1>2, CanParseStep
  <2> QED
    BY <2>1, <2>2
<1> DEFINE step == [x \in (1..n) \X A |-> Step(x[1], x[2])]
<1> HIDE DEF Step, A, n
<1>4. step \in [(1..n) \X A -> A]
  BY <1>3
<1>5. \A k \in 1..n, a \in A : step[<<k, a>>] = Step(k, a)
  OBVIOUS
<1> HIDE DEF step, a0
<1>6. PICK f : f \in Loops(n, A, a0, step)
  BY <1>2, <1>3, <1>4, LoopExists, Zenon
<1>7. f = [k \in 0..n |-> IF k = 0 THEN a0 ELSE Step(k, f[k - 1])]
  <2>1. f \in [0..n -> A] /\ f[0] = a0
    BY <1>6 DEF Loops
  <2>2. ASSUME NEW k \in 0..n, k # 0
        PROVE  f[k] = Step(k, f[k - 1])
    <3>1. k \in 1..n /\ k - 1 \in 0..n
      BY <1>2, <2>2
    <3> QED
      BY <1>5, <1>6, <2>1, <3>1 DEF Loops
  <2> QED
    BY <2>1, <2>2
<1>8. g = [k \in 0..n |-> IF k = 0 THEN a0 ELSE Step(k, g[k - 1])]
  BY <1>7 DEF Step, a0
<1> HIDE DEF g
<1>9. g[0] = a0 /\ \A k \in 1..n : g[k - 1] \in A => g[k] = step[<<k, g[k - 1]>>]
  BY <1>2, <1>5, <1>8
<1>10. \A m \in 0..n : g[m] \in A
  <2>1. Rounds(g, n, A, a0, step)
    BY <1>9 DEF Rounds
  <2> QED
    BY <1>2, <1>3, <1>4, <2>1, LoopStays
<1>11. \A k \in 1..n : g[k] = Step(k, g[k - 1])
  BY <1>2, <1>8
<1>12. CanRounds(g, names, bad)
  <2>1. \A k \in 1..n : CanRound(g[k - 1], g[k], names[k], bad)
    BY <1>11 DEF Step, CanRound
  <2> QED
    BY <1>9, <1>10, <2>1 DEF CanRounds, a0, n, A
<1> QED
  BY <1>1, <1>12 DEF n

LEMMA CanParseHolds ==
  ASSUME NEW names \in Seq(STRING), NEW bad, table \in Tables, Holds(table, <<>>)
  PROVE  CanParse(names, bad) \in CanParsed
<1>1. PICK g : CanRounds(g, names, bad) /\ CanParse(names, bad) = g[Len(names)]
  BY CanParseRounds
<1>2. Len(names) \in 0..Len(names)
  OBVIOUS
<1> QED
  BY <1>1, <1>2 DEF CanRounds

(* UdpMediaCollection::parse opens nothing.                                *)
UdpParsed == {m \in MediaLists : \A i \in DOMAIN m : m[i].rx = {} /\ m[i].tx = {}}

LEMMA UdpParseStep ==
  ASSUME NEW m \in UdpParsed, Len(m) # MaxMedia, NEW name \in STRING
  PROVE  Append(m, Medium(name, {}, {})) \in UdpParsed
<1> DEFINE new == Medium(name, {}, {})
           l == Append(m, new)
<1>1. m \in Seq(MediaRecords) /\ Len(m) \in Nat /\ Len(m) + 1 <= 3
  <2>1. m \in Seq(MediaRecords) /\ Len(m) <= 3 /\ Len(m) # 3
    BY DEF UdpParsed, MediaLists, MaxMedia
  <2>2. Len(m) \in Nat
    BY <2>1, LenProperties
  <2>3. \A x \in Nat : x <= 3 /\ x # 3 => x + 1 <= 3
    OBVIOUS
  <2> QED
    BY <2>1, <2>2, <2>3
<1>2. new \in MediaRecords /\ new.rx = {} /\ new.tx = {}
  BY DEF Medium, MediaRecords
<1> HIDE DEF new
<1>3. /\ l \in Seq(MediaRecords) /\ Len(l) = Len(m) + 1 /\ DOMAIN l = 1..(Len(m) + 1)
      /\ l[Len(m) + 1] = new /\ \A i \in 1..Len(m) : l[i] = m[i]
  BY <1>1, <1>2
<1>4. \A i \in DOMAIN l : i = Len(m) + 1 \/ i \in DOMAIN m
  BY <1>1, <1>3
<1>5. \A i \in DOMAIN m : i \in 1..Len(m) /\ m[i].rx = {} /\ m[i].tx = {}
  BY <1>1 DEF UdpParsed
<1> HIDE DEF l
<1>6. l \in MediaLists
  BY <1>1, <1>3 DEF MediaLists, MaxMedia
<1>7. l \in UdpParsed
  BY <1>2, <1>3, <1>4, <1>5, <1>6 DEF UdpParsed
<1> QED
  BY <1>7 DEF l, new

UdpRounds(g, names) ==
  /\ g[0] = <<>>
  /\ \A k \in 0..Len(names) : g[k] \in UdpParsed
  /\ \A k \in 1..Len(names) :
       g[k] = IF Len(g[k - 1]) = MaxMedia \/ names[k] = "" THEN g[k - 1]
              ELSE Append(g[k - 1], Medium(names[k], {}, {}))

LEMMA UdpParseRounds ==
  ASSUME NEW names \in Seq(STRING)
  PROVE  \E g : UdpRounds(g, names) /\ UdpParse(names) = [table |-> table, media |-> g[Len(names)]]
<1> DEFINE n == Len(names)
           A == UdpParsed
           Step(k, a) == IF Len(a) = MaxMedia \/ names[k] = "" THEN a
                         ELSE Append(a, Medium(names[k], {}, {}))
           g == CHOOSE f : f = [k \in 0..n |->
                  IF k = 0 THEN <<>>
                  ELSE IF Len(f[k - 1]) = MaxMedia \/ names[k] = "" THEN f[k - 1]
                  ELSE Append(f[k - 1], Medium(names[k], {}, {}))]
<1>1. UdpParse(names) = [table |-> table, media |-> g[n]]
  BY DEF UdpParse
<1>2. n \in Nat /\ \A k \in 1..n : names[k] \in STRING
  OBVIOUS
<1>3. <<>> \in A /\ \A k \in 1..n, a \in A : Step(k, a) \in A
  <2>1. <<>> \in A
    BY DEF UdpParsed, MediaLists, MaxMedia
  <2>2. ASSUME NEW k \in 1..n, NEW a \in A
        PROVE  Step(k, a) \in A
    BY <1>2, UdpParseStep
  <2> QED
    BY <2>1, <2>2
<1> DEFINE step == [x \in (1..n) \X A |-> Step(x[1], x[2])]
<1> HIDE DEF Step, A, n
<1>4. step \in [(1..n) \X A -> A]
  BY <1>3
<1>5. \A k \in 1..n, a \in A : step[<<k, a>>] = Step(k, a)
  OBVIOUS
<1> HIDE DEF step
<1>6. PICK f : f \in Loops(n, A, <<>>, step)
  BY <1>2, <1>3, <1>4, LoopExists, Zenon
<1>7. f = [k \in 0..n |-> IF k = 0 THEN <<>> ELSE Step(k, f[k - 1])]
  <2>1. f \in [0..n -> A] /\ f[0] = <<>>
    BY <1>6 DEF Loops
  <2>2. ASSUME NEW k \in 0..n, k # 0
        PROVE  f[k] = Step(k, f[k - 1])
    <3>1. k \in 1..n /\ k - 1 \in 0..n
      BY <1>2, <2>2
    <3> QED
      BY <1>5, <1>6, <2>1, <3>1 DEF Loops
  <2> QED
    BY <2>1, <2>2
<1>8. g = [k \in 0..n |-> IF k = 0 THEN <<>> ELSE Step(k, g[k - 1])]
  BY <1>7 DEF Step
<1> HIDE DEF g
<1>9. g[0] = <<>> /\ \A k \in 1..n : g[k - 1] \in A => g[k] = step[<<k, g[k - 1]>>]
  BY <1>2, <1>5, <1>8
<1>10. \A m \in 0..n : g[m] \in A
  <2>1. Rounds(g, n, A, <<>>, step)
    BY <1>9 DEF Rounds
  <2> QED
    BY <1>2, <1>3, <1>4, <2>1, LoopStays
<1>11. \A k \in 1..n : g[k] = Step(k, g[k - 1])
  BY <1>2, <1>8
<1>12. UdpRounds(g, names)
  BY <1>9, <1>10, <1>11 DEF UdpRounds, Step, n, A
<1> QED
  BY <1>1, <1>12 DEF n

LEMMA UdpParseHolds ==
  ASSUME NEW names \in Seq(STRING)
  PROVE  UdpParse(names).table = table /\ UdpParse(names).media \in UdpParsed
<1>1. PICK g : UdpRounds(g, names) /\ UdpParse(names) = [table |-> table, media |-> g[Len(names)]]
  BY UdpParseRounds
<1>2. Len(names) \in 0..Len(names)
  OBVIOUS
<1>3. g[Len(names)] \in UdpParsed
  BY <1>1, <1>2 DEF UdpRounds
<1> QED
  BY <1>1, <1>3

---------------------------------------------------------------------------
(* The loops over the interfaces.                                          *)

(* The sockets that CAN frames are received from stay as they are.         *)
CanRxKept(t) == \A fd \in Fds : t[fd].kind = "canrx" => t[fd] = table[fd]

(* Only one of the media has changed.                                      *)
WithMedium(m, n, i, rx, tx) ==
  /\ n \in MediaLists /\ DOMAIN n = DOMAIN m
  /\ n[i].rx = rx /\ n[i].tx = tx
  /\ \A j \in DOMAIN m : j # i => n[j] = m[j]

LEMMA MediaWith ==
  ASSUME NEW m \in MediaLists, NEW i \in DOMAIN m, NEW fds \in SUBSET Fds
  PROVE  /\ WithMedium(m, [m EXCEPT ![i].rx = @ \cup fds], i, m[i].rx \cup fds, m[i].tx)
         /\ WithMedium(m, [m EXCEPT ![i].tx = fds], i, m[i].rx, fds)
<1>1. m \in Seq(MediaRecords) /\ DOMAIN m = 1..Len(m) /\ Len(m) \in Nat /\ Len(m) <= MaxMedia
  BY DEF MediaLists
<1>2. m[i] \in MediaRecords
  BY <1>1
<1> DEFINE a == [m[i] EXCEPT !.rx = @ \cup fds]
           b == [m[i] EXCEPT !.tx = fds]
<1>3. a \in MediaRecords /\ a.rx = m[i].rx \cup fds /\ a.tx = m[i].tx
  BY <1>2 DEF MediaRecords
<1>4. b \in MediaRecords /\ b.rx = m[i].rx /\ b.tx = fds
  BY <1>2 DEF MediaRecords
<1>5. [m EXCEPT ![i].rx = @ \cup fds] = [m EXCEPT ![i] = a]
  OBVIOUS
<1>6. [m EXCEPT ![i].tx = fds] = [m EXCEPT ![i] = b]
  OBVIOUS
<1> HIDE DEF a, b
<1>7. ASSUME NEW r \in MediaRecords
      PROVE  WithMedium(m, [m EXCEPT ![i] = r], i, r.rx, r.tx)
  <2> DEFINE n == [m EXCEPT ![i] = r]
  <2>1. n \in Seq(MediaRecords) /\ Len(n) = Len(m) /\ DOMAIN n = DOMAIN m
    BY <1>1
  <2>2. n[i] = r /\ \A j \in DOMAIN m : j # i => n[j] = m[j]
    BY <1>1
  <2> HIDE DEF n
  <2>3. WithMedium(m, n, i, r.rx, r.tx)
    BY <1>1, <2>1, <2>2 DEF MediaLists, WithMedium
  <2> QED
    BY <2>3 DEF n
<1>8. WithMedium(m, [m EXCEPT ![i] = a], i, a.rx, a.tx)
  BY <1>3, <1>7, Zenon
<1>9. WithMedium(m, [m EXCEPT ![i] = b], i, b.rx, b.tx)
  BY <1>4, <1>7, Zenon
<1> QED
  BY <1>3, <1>4, <1>5, <1>6, <1>8, <1>9, Zenon

(* Making receive sockets for a port.                                      *)
RxAccs ==
  {acc \in [table : Tables, media : MediaLists] :
     DOMAIN acc.media = Interfaces /\ Holds(acc.table, acc.media) /\ CanRxKept(acc.table)}

LEMMA MakeRxSocketHolds ==
  ASSUME NEW acc \in RxAccs, NEW i \in Interfaces, NEW p \in Ports, NEW bad, NEW memory
  PROVE  MakeRxSocket(acc, i, p, bad, memory) \in RxAccs
<1> DEFINE made == UdpRxMake(acc.table, bag.media[i].dev, p, bad, memory)
           n == [acc.media EXCEPT ![i].rx = @ \cup {made.fd}]
<1>0. MakeRxSocket(acc, i, p, bad, memory) =
        [table |-> made.table, media |-> IF made.fd = Error THEN acc.media ELSE n]
  BY DEF MakeRxSocket
<1>1. /\ acc.table \in Tables /\ acc.media \in MediaLists /\ acc.media \in Seq(MediaRecords)
      /\ DOMAIN acc.media = Interfaces /\ Holds(acc.table, acc.media) /\ CanRxKept(acc.table)
  BY DEF RxAccs, MediaLists
<1>2. Opened(acc.table, made, "udprx")
  BY <1>1, UdpRxMakeOpens
<1> HIDE DEF made
<1>3. CASE made.fd = Error
  <2>1. made.table = acc.table
    BY <1>2, <1>3, KindsOfSockets DEF Opened
  <2> QED
    BY <1>0, <1>1, <1>3, <2>1 DEF RxAccs
<1>4. CASE made.fd # Error
  <2>1. PICK v \in Sockets : /\ v.kind = "udprx" /\ made.table = [acc.table EXCEPT ![made.fd] = v]
                             /\ made.fd \in Fds /\ acc.table[made.fd].kind = "free"
    BY <1>2, <1>4 DEF Opened
  <2>2. /\ made.table \in Tables /\ made.table[made.fd] = v
        /\ \A x \in Fds \ {made.fd} : made.table[x] = acc.table[x]
    BY <1>1, <2>1, TableWith
  <2>3. /\ n \in MediaLists /\ DOMAIN n = DOMAIN acc.media
        /\ n[i].rx = acc.media[i].rx \cup {made.fd} /\ n[i].tx = acc.media[i].tx
        /\ \A j \in DOMAIN acc.media : j # i => n[j] = acc.media[j]
    <3>1. {made.fd} \in SUBSET Fds /\ i \in DOMAIN acc.media
      BY <1>1, <2>1
    <3>2. WithMedium(acc.media, n, i, acc.media[i].rx \cup {made.fd}, acc.media[i].tx)
      BY <1>1, <3>1, MediaWith, Zenon
    <3> HIDE DEF n
    <3> QED
      BY <3>2 DEF WithMedium
  <2> HIDE DEF n
  <2>4. WithOneMore(acc.table, acc.media, made.table, n, i, made.fd)
    BY <2>1, <2>2, <2>3 DEF WithOneMore, RxKinds
  <2>5. n \in Seq(MediaRecords) /\ i \in DOMAIN acc.media
    BY <1>1, <2>3 DEF MediaLists
  <2>6. Holds(made.table, n)
    BY <1>1, <2>1, <2>2, <2>4, <2>5, HoldsOneMore, Zenon
  <2>7. CanRxKept(made.table)
    BY <1>1, <2>1, <2>2 DEF CanRxKept
  <2> QED
    BY <1>0, <1>1, <1>4, <2>2, <2>3, <2>6, <2>7 DEF RxAccs
<1> QED
  BY <1>3, <1>4

LEMMA MakeRxSocketsHold ==
  ASSUME NEW p \in Ports, NEW bad, NEW memory,
         table \in Tables, bag.media \in MediaLists, Holds(table, bag.media)
  PROVE  MakeRxSockets(p, bad, memory) \in RxAccs
<1> DEFINE acc == [table |-> table, media |-> bag.media]
           Step(a, i) == IF i \in Interfaces THEN MakeRxSocket(a, i, p, bad, memory) ELSE a
<1>1. acc \in RxAccs
  BY DEF RxAccs, CanRxKept, Interfaces
<1>2. \A a \in RxAccs, i \in 1..3 : Step(a, i) \in RxAccs
  BY MakeRxSocketHolds
<1>3. MakeRxSockets(p, bad, memory) = Step(Step(Step(acc, 1), 2), 3)
  BY DEF MakeRxSockets, InTurn
<1> HIDE DEF Step, acc
<1>4. Step(acc, 1) \in RxAccs
  BY <1>1, <1>2
<1>5. Step(Step(acc, 1), 2) \in RxAccs
  BY <1>2, <1>4
<1> QED
  BY <1>2, <1>3, <1>5

(* Queueing a transfer: after interface k, every one up to it has the      *)
(* transfer queued or given up, and the others are as they were.           *)
Queueing(acc, k) ==
  /\ DOMAIN acc.media = Interfaces /\ Holds(acc.table, acc.media) /\ CanRxKept(acc.table)
  /\ \A j \in Interfaces : j \in 1..k => j \in acc.queued \cup acc.failed
  /\ \A j \in Interfaces : j \notin 1..k => acc.media[j] = bag.media[j]

TxAccs ==
  [table : Tables, media : MediaLists, queued : SUBSET Interfaces, failed : SUBSET Interfaces,
   stop : {FALSE}]

LEMMA MakeTxSocketHolds ==
  ASSUME NEW k \in 0..2, NEW acc \in TxAccs, Queueing(acc, k), NEW i \in Interfaces, i = k + 1,
         bag.media[i].tx = {}, NEW bad, NEW memory
  PROVE  /\ MakeTxSocket(acc, i, bad, memory) \in TxAccs
         /\ Queueing(MakeTxSocket(acc, i, bad, memory), k + 1)
<1> DEFINE made == UdpTxMake(acc.table, bag.media[i].dev, bad, memory)
           q == MakeTxSocket(acc, i, bad, memory)
           n == [acc.media EXCEPT ![i].tx = {made.fd}]
<1>0. q = IF made.fd = Error
          THEN [acc EXCEPT !.failed = @ \cup {i}, !.stop = ~TransientErrorHandler]
          ELSE [acc EXCEPT !.table = made.table, !.media[i].tx = {made.fd},
                           !.queued = @ \cup {i}]
  BY DEF MakeTxSocket
<1>1. /\ acc.table \in Tables /\ acc.media \in MediaLists /\ acc.media \in Seq(MediaRecords)
      /\ acc.queued \subseteq Interfaces /\ acc.failed \subseteq Interfaces
      /\ DOMAIN acc.media = Interfaces /\ Holds(acc.table, acc.media) /\ CanRxKept(acc.table)
      /\ \A j \in Interfaces : j \in 1..k => j \in acc.queued \cup acc.failed
      /\ \A j \in Interfaces : j \notin 1..k => acc.media[j] = bag.media[j]
  BY DEF TxAccs, Queueing, MediaLists
<1>2. /\ \A j : j \in 1..(k + 1) => j \in 1..k \/ j = i
      /\ \A j : j \notin 1..(k + 1) => j \notin 1..k /\ j # i
      /\ i \notin 1..k
  OBVIOUS
<1>3. Opened(acc.table, made, "udptx")
  BY <1>1, UdpTxMakeOpens
<1> HIDE DEF made
<1>4. CASE made.fd = Error
  <2>1. q = [acc EXCEPT !.failed = acc.failed \cup {i}, !.stop = FALSE]
    BY <1>0, <1>4 DEF TransientErrorHandler
  <2> HIDE DEF q
  <2>2. /\ q.table = acc.table /\ q.media = acc.media /\ q.queued = acc.queued
        /\ q.failed = acc.failed \cup {i} /\ q \in TxAccs
    BY <1>1, <2>1 DEF TxAccs
  <2>3. Queueing(q, k + 1)
    BY <1>1, <1>2, <2>2 DEF Queueing
  <2> QED
    BY <2>2, <2>3 DEF q
<1>5. CASE made.fd # Error
  <2>1. PICK v \in Sockets : /\ v.kind = "udptx" /\ made.table = [acc.table EXCEPT ![made.fd] = v]
                             /\ made.fd \in Fds /\ acc.table[made.fd].kind = "free"
    BY <1>3, <1>5 DEF Opened
  <2>2. /\ made.table \in Tables /\ made.table[made.fd] = v
        /\ \A x \in Fds \ {made.fd} : made.table[x] = acc.table[x]
    BY <1>1, <2>1, TableWith
  <2>3. WithMedium(acc.media, n, i, acc.media[i].rx, {made.fd})
    <3>1. {made.fd} \in SUBSET Fds /\ i \in DOMAIN acc.media
      BY <1>1, <2>1
    <3> QED
      BY <1>1, <3>1, MediaWith, Zenon
  <2>4. q = [acc EXCEPT !.table = made.table, !.media = n, !.queued = acc.queued \cup {i}]
    BY <1>0, <1>1, <1>5 DEF TxAccs
  <2> HIDE DEF n, q
  <2>5. /\ n \in MediaLists /\ DOMAIN n = DOMAIN acc.media /\ n[i].rx = acc.media[i].rx
        /\ n[i].tx = acc.media[i].tx \cup {made.fd}
        /\ \A j \in DOMAIN acc.media : j # i => n[j] = acc.media[j]
    <3>1. acc.media[i].tx = {}
      BY <1>1, <1>2
    <3> QED
      BY <2>3, <3>1 DEF WithMedium
  <2>6. WithOneMore(acc.table, acc.media, made.table, n, i, made.fd)
    BY <2>1, <2>2, <2>5 DEF WithOneMore, TxKinds
  <2>7. n \in Seq(MediaRecords) /\ i \in DOMAIN acc.media
    BY <1>1, <2>5 DEF MediaLists
  <2>8. Holds(made.table, n)
    BY <1>1, <2>1, <2>2, <2>6, <2>7, HoldsOneMore, Zenon
  <2>9. CanRxKept(made.table)
    BY <1>1, <2>1, <2>2 DEF CanRxKept
  <2>10. /\ q.table = made.table /\ q.media = n /\ q.failed = acc.failed
         /\ q.queued = acc.queued \cup {i} /\ q \in TxAccs
    BY <1>1, <2>2, <2>4, <2>5 DEF TxAccs
  <2>11. Queueing(q, k + 1)
    BY <1>1, <1>2, <2>5, <2>8, <2>9, <2>10 DEF Queueing
  <2> QED
    BY <2>10, <2>11 DEF q
<1> QED
  BY <1>4, <1>5

LEMMA QueueForHolds ==
  ASSUME NEW k \in 0..2, NEW acc \in TxAccs, Queueing(acc, k), NEW i, i = k + 1,
         NEW bad, NEW memory, NEW q,
         q = IF i \in Interfaces THEN QueueFor(acc, i, bad, memory) ELSE acc
  PROVE  q \in TxAccs /\ Queueing(q, k + 1)
<1>0. acc.stop = FALSE
  BY DEF TxAccs
<1>1. /\ \A j : j \in 1..(k + 1) => j \in 1..k \/ j = i
      /\ \A j : j \notin 1..(k + 1) => j \notin 1..k /\ j # i
  OBVIOUS
<1>2. CASE i \notin Interfaces
  BY <1>1, <1>2 DEF Queueing
<1>3. CASE i \in Interfaces /\ bag.media[i].tx # {}
  <2>1. q = [acc EXCEPT !.queued = acc.queued \cup {i}]
    BY <1>0, <1>3 DEF QueueFor
  <2>2. /\ q.table = acc.table /\ q.media = acc.media /\ q.queued = acc.queued \cup {i}
        /\ q.failed = acc.failed /\ q \in TxAccs
    BY <1>3, <2>1 DEF TxAccs
  <2> QED
    BY <1>1, <2>2 DEF Queueing
<1>4. CASE i \in Interfaces /\ bag.media[i].tx = {}
  <2>1. q = MakeTxSocket(acc, i, bad, memory)
    BY <1>0, <1>4 DEF QueueFor
  <2> QED
    BY <1>4, <2>1, MakeTxSocketHolds
<1> QED
  BY <1>2, <1>3, <1>4

LEMMA QueueHolds ==
  ASSUME NEW bad, NEW memory, table \in Tables, bag.media \in MediaLists, Holds(table, bag.media)
  PROVE  Queue(bad, memory) \in TxAccs /\ Queueing(Queue(bad, memory), 3)
<1> DEFINE acc == [table |-> table, media |-> bag.media, queued |-> {}, failed |-> {},
                   stop |-> FALSE]
           Step(a, i) == IF i \in Interfaces THEN QueueFor(a, i, bad, memory) ELSE a
<1>1. acc \in TxAccs /\ Queueing(acc, 0)
  BY DEF TxAccs, Queueing, CanRxKept, Interfaces
<1>2. ASSUME NEW k \in 0..2, NEW a \in TxAccs, Queueing(a, k)
      PROVE  Step(a, k + 1) \in TxAccs /\ Queueing(Step(a, k + 1), k + 1)
  BY <1>2, QueueForHolds
<1>3. Queue(bad, memory) = Step(Step(Step(acc, 1), 2), 3)
  BY DEF Queue, InTurn
<1> HIDE DEF Step, acc
<1>4. Step(acc, 1) \in TxAccs /\ Queueing(Step(acc, 1), 1)
  <2>1. 0 \in 0..2 /\ 0 + 1 = 1
    OBVIOUS
  <2> QED
    BY <1>1, <1>2, <2>1
<1>5. Step(Step(acc, 1), 2) \in TxAccs /\ Queueing(Step(Step(acc, 1), 2), 2)
  <2>1. 1 \in 0..2 /\ 1 + 1 = 2
    OBVIOUS
  <2> QED
    BY <1>2, <1>4, <2>1
<1>6. Step(Step(Step(acc, 1), 2), 3) \in TxAccs /\ Queueing(Step(Step(Step(acc, 1), 2), 3), 3)
  <2>1. 2 \in 0..2 /\ 2 + 1 = 3
    OBVIOUS
  <2> QED
    BY <1>2, <1>5, <2>1
<1> QED
  BY <1>3, <1>6

---------------------------------------------------------------------------
(* The invariant: steps that open and close nothing.                       *)

(* Every socket stays what it is and lets the same ports pass.             *)
SameSockets(t) ==
  /\ t \in Tables
  /\ \A fd \in Fds : /\ t[fd].kind = table[fd].kind
                     /\ t[fd].kind # "free" => t[fd].filter = table[fd].filter

(* One socket in place of another.                                         *)
LEMMA SocketReplaced ==
  ASSUME table \in Tables, NEW fd \in Fds, NEW s \in Sockets, s.kind = table[fd].kind,
         s.filter = table[fd].filter
  PROVE  SameSockets([table EXCEPT ![fd] = s])
BY TableWith DEF SameSockets

LEMMA SameSocketsHeld ==
  ASSUME MediaInv, SameSockets(table'), UNCHANGED <<list, bag, subs, refused>>
  PROVE  /\ Holds(table', bag.media)
         /\ bag.kind = "udp" => \A fd \in Fds : table'[fd].kind # "canrx"
         /\ SubscribedPortsPass'
<1>1. /\ table \in Tables /\ Holds(table, bag.media) /\ SubscribedPortsPass
      /\ bag.kind = "udp" => \A fd \in Fds : table[fd].kind # "canrx"
      /\ bag.media = <<>> \/ bag.media \in Seq(MediaRecords)
  BY DEF MediaInv, NoBag, TransportBags, MediaLists
<1>2. \A i \in DOMAIN bag.media : bag.media[i].rx \subseteq Fds /\ bag.media[i].tx \subseteq Fds
  <2>1. \A i \in DOMAIN bag.media : bag.media[i] \in MediaRecords
    BY <1>1
  <2> QED
    BY <2>1 DEF MediaRecords
<1>3. \A fd \in Fds : table'[fd].kind = table[fd].kind
  BY DEF SameSockets
<1>4. Holds(table', bag.media)
  BY <1>1, <1>2, <1>3 DEF Holds
<1>5. SubscribedPortsPass'
  <2> SUFFICES ASSUME NEW fd \in Fds \ refused, table'[fd].kind = "canrx"
               PROVE  subs \subseteq table'[fd].filter
    BY DEF SubscribedPortsPass
  <2>1. table[fd].kind = "canrx" /\ table'[fd].filter = table[fd].filter
    BY DEF SameSockets
  <2> QED
    BY <1>1, <2>1 DEF SubscribedPortsPass
<1> QED
  BY <1>1, <1>3, <1>4, <1>5

(* Steps of the sockets alone.                                             *)
LEMMA OnlySockets ==
  ASSUME MediaInv, SameSockets(table'),
         UNCHANGED <<list, bag, subs, count, txq, carried, failed, refused>>
  PROVE  MediaInv'
<1>1. /\ Holds(table', bag.media) /\ SubscribedPortsPass'
      /\ bag.kind = "udp" => \A fd \in Fds : table'[fd].kind # "canrx"
  BY SameSocketsHeld
<1>2. table' \in Tables
  BY DEF SameSockets
<1>3. Holds(table, bag.media)' /\ (\A t \in 1..count, i \in Interfaces : Accounted(t, i))'
  BY <1>1 DEF Holds, MediaInv, Accounted, Interfaces
<1> QED
  BY <1>1, <1>2, <1>3 DEF MediaInv

LEMMA TypedSockets ==
  ASSUME MediaInv
  PROVE  /\ table \in Tables
         /\ \A fd \in Fds : table[fd].kind # "free" => table[fd] \in Sockets
         /\ \A i \in Interfaces : \A fd \in bag.media[i].tx : fd \in Fds /\ table[fd] \in Sockets
<1>1. table \in Tables /\ Holds(table, bag.media) /\ (bag = NoBag \/ bag \in TransportBags)
  BY DEF MediaInv
<1>2. \A fd \in Fds : table[fd].kind # "free" => table[fd] \in Sockets
  <2>1. \A fd \in Fds : table[fd] \in Sockets \/ table[fd] = Free
    BY <1>1 DEF Tables
  <2> QED
    BY <2>1 DEF Free
<1>3. ASSUME NEW i \in Interfaces, NEW fd \in bag.media[i].tx
      PROVE  fd \in Fds /\ table[fd] \in Sockets
  <2>1. bag.media[i] \in MediaRecords
    BY <1>1 DEF Interfaces, TransportBags, MediaLists, NoBag
  <2>2. fd \in Fds
    BY <2>1 DEF MediaRecords
  <2>3. table[fd].kind \in TxKinds
    BY <1>1 DEF Holds, Interfaces
  <2> QED
    BY <1>2, <2>2, <2>3 DEF TxKinds
<1> QED
  BY <1>1, <1>2, <1>3

LEMMA MediaHoldRx ==
  ASSUME MediaInv
  PROVE  \A i \in Interfaces : \A fd \in bag.media[i].rx : fd \in Fds /\ table[fd].kind \in RxKinds
<1>1. Holds(table, bag.media) /\ (bag = NoBag \/ bag \in TransportBags)
  BY DEF MediaInv
<1> TAKE i \in Interfaces
<1>2. bag.media[i] \in MediaRecords
  BY <1>1 DEF Interfaces, TransportBags, MediaLists, NoBag
<1>3. bag.media[i].rx \subseteq Fds
  BY <1>2 DEF MediaRecords
<1> QED
  BY <1>1, <1>3 DEF Holds, Interfaces

LEMMA InterfacesAreSlots ==
  ASSUME MediaInv
  PROVE  Interfaces \subseteq Slots
<1>1. CASE bag = NoBag
  BY <1>1 DEF NoBag, Interfaces
<1>2. CASE bag \in TransportBags
  <2> DEFINE m == bag.media
  <2>1. m \in MediaLists
    BY <1>2 DEF TransportBags
  <2> HIDE DEF m
  <2>2. m \in Seq(MediaRecords) /\ Len(m) <= 3
    BY <2>1 DEF MediaLists, MaxMedia
  <2>3. DOMAIN m = 1..Len(m) /\ Len(m) \in Nat
    BY <2>2, LenProperties
  <2>4. DOMAIN m \subseteq 1..3
    BY <2>2, <2>3
  <2> QED
    BY <2>4 DEF m, Interfaces, Slots, MaxMedia
<1> QED
  BY <1>1, <1>2 DEF MediaInv

LEMMA DeviceSendsKeeps ==
  ASSUME MediaInv, NEW fd \in Fds, DeviceSends(fd)
  PROVE  MediaInv'
<1> DEFINE s == [table[fd] EXCEPT !.room = TRUE]
<1>1. table[fd] \in Sockets /\ table \in Tables
  BY TypedSockets DEF DeviceSends
<1>2. s \in Sockets /\ s.kind = table[fd].kind /\ s.filter = table[fd].filter
  BY <1>1 DEF Sockets
<1>3. table' = [table EXCEPT ![fd] = s]
  BY DEF DeviceSends
<1> HIDE DEF s
<1>4. SameSockets(table')
  BY <1>1, <1>2, <1>3, SocketReplaced
<1> QED
  BY <1>4, OnlySockets DEF DeviceSends

LEMMA PopKeeps ==
  ASSUME MediaInv, NEW fd \in Fds, Pop(fd)
  PROVE  MediaInv'
<1> DEFINE s == SocketcanPop(table[fd])
<1>1. table[fd] \in Sockets /\ table \in Tables
  BY TypedSockets DEF Pop
<1>2. s \in Sockets /\ s.kind = table[fd].kind /\ s.filter = table[fd].filter
  BY <1>1 DEF Sockets, SocketcanPop
<1>3. table' = [table EXCEPT ![fd] = s]
  BY DEF Pop
<1> HIDE DEF s
<1>4. SameSockets(table')
  BY <1>1, <1>2, <1>3, SocketReplaced
<1> QED
  BY <1>4, OnlySockets DEF Pop

LEMMA ReceiveKeeps ==
  ASSUME MediaInv, NEW fd \in Fds, Receive(fd)
  PROVE  MediaInv'
<1> DEFINE s == UdpRxReceive(table[fd])
<1>1. table[fd] \in Sockets /\ table \in Tables
  BY TypedSockets DEF Receive
<1>2. s \in Sockets /\ s.kind = table[fd].kind /\ s.filter = table[fd].filter
  BY <1>1 DEF Sockets, UdpRxReceive
<1>3. table' = [table EXCEPT ![fd] = s]
  BY DEF Receive
<1> HIDE DEF s
<1>4. SameSockets(table')
  BY <1>1, <1>2, <1>3, SocketReplaced
<1> QED
  BY <1>4, OnlySockets DEF Receive

LEMMA ArriveKeeps ==
  ASSUME MediaInv, NEW dev, NEW p, Arrive(dev, p)
  PROVE  MediaInv'
<1> DEFINE to == {fd \in Fds : /\ table[fd].kind \in {"canrx", "udprx"}
                               /\ table[fd].dev = dev /\ table[fd].bound
                               /\ table[fd].port \in {"all", p} /\ p \in table[fd].filter}
<1>1. table' = [fd \in Fds |-> IF fd \in to THEN [table[fd] EXCEPT !.rcv = 1] ELSE table[fd]]
  BY DEF Arrive
<1>2. to \subseteq Fds /\ \A fd \in to : table[fd].kind # "free"
  OBVIOUS
<1> HIDE DEF to
<1>3. ASSUME NEW fd \in Fds
      PROVE  /\ table'[fd] \in Sockets \cup {Free} /\ table'[fd].kind = table[fd].kind
             /\ table'[fd].kind # "free" => table'[fd].filter = table[fd].filter
  <2>1. CASE fd \in to
    <3>1. table[fd] \in Sockets
      BY <1>2, <2>1, TypedSockets
    <3>2. table'[fd] = [table[fd] EXCEPT !.rcv = 1]
      BY <1>1, <2>1
    <3> QED
      BY <3>1, <3>2 DEF Sockets
  <2>2. CASE fd \notin to
    BY <1>1, <2>2, TypedSockets DEF Tables
  <2> QED
    BY <2>1, <2>2
<1>4. SameSockets(table')
  BY <1>1, <1>3 DEF SameSockets, Tables
<1> QED
  BY <1>4, OnlySockets DEF Arrive

LEMMA SetLinkKeeps ==
  ASSUME MediaInv, NEW dev, NEW state, SetLink(dev, state)
  PROVE  MediaInv'
<1> DEFINE hit == {fd \in Fds : /\ table[fd].kind \in {"canrx", "cantx"} /\ table[fd].dev = dev
                                /\ state # "up"}
           s(fd) == [table[fd] EXCEPT !.err = TRUE, !.bound = @ /\ state # "gone"]
<1>1. table' = [fd \in Fds |-> IF fd \in hit THEN s(fd) ELSE table[fd]]
  BY DEF SetLink
<1>2. \A fd \in hit : fd \in Fds /\ table[fd].kind # "free"
  OBVIOUS
<1> HIDE DEF hit
<1>3. ASSUME NEW fd \in Fds
      PROVE  /\ table'[fd] \in Sockets \cup {Free} /\ table'[fd].kind = table[fd].kind
             /\ table'[fd].kind # "free" => table'[fd].filter = table[fd].filter
  <2>1. CASE fd \in hit
    <3>1. table[fd] \in Sockets
      BY <1>2, <2>1, TypedSockets
    <3>2. table'[fd] = s(fd)
      BY <1>1, <2>1
    <3>3. s(fd) \in Sockets /\ s(fd).kind = table[fd].kind /\ s(fd).filter = table[fd].filter
      BY <3>1 DEF Sockets
    <3> QED
      BY <3>2, <3>3
  <2>2. CASE fd \notin hit
    BY <1>1, <2>2, TypedSockets DEF Tables
  <2> QED
    BY <2>1, <2>2
<1>4. SameSockets(table')
  BY <1>1, <1>3 DEF SameSockets, Tables
<1> QED
  BY <1>4, OnlySockets DEF SetLink

---------------------------------------------------------------------------
(* The invariant: sending.                                                 *)

LEMMA QueueSets ==
  ASSUME NEW s \in Seq(Nat), NEW x \in Nat
  PROVE  /\ Append(s, x) \in Seq(Nat)
         /\ ToSet(s) \cup {x} \subseteq ToSet(Append(s, x))
         /\ s # <<>> => Tail(s) \in Seq(Nat) /\ ToSet(s) \subseteq ToSet(Tail(s)) \cup {Head(s)}
<1>1. Append(s, x) \in Seq(Nat)
  OBVIOUS
<1>2. ToSet(s) \cup {x} \subseteq ToSet(Append(s, x))
  <2>1. DOMAIN Append(s, x) = 1..(Len(s) + 1) /\ DOMAIN s = 1..Len(s) /\ Len(s) \in Nat
    OBVIOUS
  <2>2. Append(s, x)[Len(s) + 1] = x /\ \A k \in 1..Len(s) : Append(s, x)[k] = s[k]
    OBVIOUS
  <2>3. Len(s) + 1 \in 1..(Len(s) + 1) /\ 1..Len(s) \subseteq 1..(Len(s) + 1)
    BY <2>1
  <2> QED
    BY <2>1, <2>2, <2>3 DEF ToSet
<1>3. ASSUME s # <<>>
      PROVE  Tail(s) \in Seq(Nat) /\ ToSet(s) \subseteq ToSet(Tail(s)) \cup {Head(s)}
  <2>1. /\ Tail(s) \in Seq(Nat) /\ Len(Tail(s)) = Len(s) - 1 /\ Len(s) \in Nat /\ Len(s) # 0
        /\ Head(s) = s[1] /\ \A k \in 1..(Len(s) - 1) : Tail(s)[k] = s[k + 1]
    BY <1>3
  <2>2. ASSUME NEW k \in DOMAIN s
        PROVE  s[k] \in ToSet(Tail(s)) \cup {Head(s)}
    <3>1. CASE k = 1
      BY <2>1, <3>1
    <3>2. CASE k # 1
      <4>1. k - 1 \in 1..(Len(s) - 1) /\ (k - 1) + 1 = k /\ k - 1 \in DOMAIN Tail(s)
        BY <2>1, <3>2
      <4>2. Tail(s)[k - 1] = s[k]
        BY <2>1, <4>1
      <4> QED
        BY <4>1, <4>2 DEF ToSet
    <3> QED
      BY <3>1, <3>2
  <2> QED
    BY <2>1, <2>2 DEF ToSet
<1> QED
  BY <1>1, <1>2, <1>3

(* An attempt to send leaves the head of the queue there, or accounts for  *)
(* it otherwise.                                                           *)
LEMMA TriedKeeps ==
  ASSUME MediaInv, NEW i \in Slots, HasToSend(i), NEW fd \in bag.media[i].tx, NEW done,
         done.sock \in Sockets, done.sock.kind = table[fd].kind,
         done.sock.filter = table[fd].filter, Tried(i, fd, done)
  PROVE  MediaInv'
<1> DEFINE told == PushResult(done.res)
           item == <<Head(txq[i]), i>>
<1>1. /\ fd \in Fds /\ table \in Tables
  BY TypedSockets DEF HasToSend
<1>2. /\ table' = [table EXCEPT ![fd] = done.sock]
      /\ txq' = IF told = "busy" THEN txq ELSE [txq EXCEPT ![i] = Tail(@)]
      /\ carried' = IF told = "accepted" THEN carried \cup {item} ELSE carried
      /\ failed' = IF told = "failure" THEN failed \cup {item} ELSE failed
      /\ UNCHANGED <<list, bag, subs, count, refused>>
  BY DEF Tried
<1>3. told \in {"busy", "accepted", "failure"}
  BY DEF PushResult
<1> HIDE DEF told
<1>4. SameSockets(table')
  BY <1>1, <1>2, SocketReplaced
<1>5. /\ Holds(table', bag.media) /\ SubscribedPortsPass'
      /\ bag.kind = "udp" => \A x \in Fds : table'[x].kind # "canrx"
  BY <1>2, <1>4, SameSocketsHeld
<1>6. txq \in [Slots -> Seq(Nat)] /\ txq[i] \in Seq(Nat) /\ txq[i] # <<>>
  BY DEF MediaInv, HasToSend
<1>7. Tail(txq[i]) \in Seq(Nat) /\ ToSet(txq[i]) \subseteq ToSet(Tail(txq[i])) \cup {Head(txq[i])}
  BY <1>6, QueueSets
<1>8. txq' \in [Slots -> Seq(Nat)]
  BY <1>2, <1>6, <1>7
<1>9. ASSUME NEW t \in 1..count, NEW j \in Interfaces
      PROVE  t \in ToSet(txq'[j]) \/ <<t, j>> \in carried' \/ <<t, j>> \in failed'
  <2>1. t \in ToSet(txq[j]) \/ <<t, j>> \in carried \/ <<t, j>> \in failed
    BY DEF MediaInv, Accounted
  <2>2. j \in Slots
    BY InterfacesAreSlots
  <2>3. CASE told = "busy" \/ j # i
    <3>1. txq'[j] = txq[j]
      BY <1>2, <1>6, <2>2, <2>3
    <3> QED
      BY <1>2, <2>1, <3>1
  <2>4. CASE told # "busy" /\ j = i
    <3>1. txq'[j] = Tail(txq[i])
      BY <1>2, <1>6, <2>4
    <3>2. item \in carried' \/ item \in failed'
      BY <1>2, <1>3, <2>4
    <3>3. t \in ToSet(txq[i]) => t \in ToSet(txq'[j]) \/ t = Head(txq[i])
      BY <1>7, <3>1
    <3> QED
      BY <1>2, <2>1, <2>4, <3>2, <3>3
  <2> QED
    BY <2>3, <2>4
<1>10. (\A t \in 1..count, j \in Interfaces : Accounted(t, j))'
  BY <1>2, <1>9 DEF Accounted, Interfaces
<1>11. Holds(table, bag.media)'
  BY <1>2, <1>5 DEF Holds
<1> QED
  BY <1>2, <1>4, <1>5, <1>8, <1>10, <1>11 DEF MediaInv, SameSockets

LEMMA PushKeeps ==
  ASSUME MediaInv, NEW i \in Slots, Push(i)
  PROVE  MediaInv'
<1>1. PICK fd \in bag.media[i].tx, nobufs \in BOOLEAN : Tried(i, fd, SocketcanPush(table[fd], nobufs))
  BY DEF Push
<1>2. HasToSend(i) /\ i \in Interfaces
  BY DEF Push, HasToSend
<1> DEFINE done == SocketcanPush(table[fd], nobufs)
<1>3. table[fd] \in Sockets
  BY <1>2, TypedSockets
<1>4. done.sock \in Sockets /\ done.sock.kind = table[fd].kind /\ done.sock.filter = table[fd].filter
  BY <1>3 DEF SocketcanPush, Sockets
<1>5. Tried(i, fd, done)
  BY <1>1
<1> HIDE DEF done
<1> QED
  BY <1>2, <1>4, <1>5, TriedKeeps

LEMMA SendToKeeps ==
  ASSUME MediaInv, NEW i \in Slots, SendTo(i)
  PROVE  MediaInv'
<1>1. PICK fd \in bag.media[i].tx : Tried(i, fd, UdpTxSend(table[fd]))
  BY DEF SendTo
<1>2. HasToSend(i) /\ i \in Interfaces
  BY DEF SendTo, HasToSend
<1> DEFINE done == UdpTxSend(table[fd])
<1>3. table[fd] \in Sockets
  BY <1>2, TypedSockets
<1>4. done.sock \in Sockets /\ done.sock.kind = table[fd].kind /\ done.sock.filter = table[fd].filter
  BY <1>3 DEF UdpTxSend, Sockets
<1>5. Tried(i, fd, done)
  BY <1>1
<1> HIDE DEF done
<1> QED
  BY <1>2, <1>4, <1>5, TriedKeeps

LEMMA PushCallbackKeeps ==
  ASSUME MediaInv, NEW i, PushCallback(i)
  PROVE  MediaInv'
<1>1. SameSockets(table')
  BY DEF PushCallback, MediaInv, SameSockets
<1> QED
  BY <1>1, OnlySockets DEF PushCallback

(* What does not change the kind of the bag, and what it does not say.     *)
LEMMA BagWith ==
  ASSUME NEW b \in TransportBags, NEW m \in MediaLists
  PROVE  /\ [b EXCEPT !.media = m] \in TransportBags
         /\ [b EXCEPT !.media = m].media = m /\ [b EXCEPT !.media = m].kind = b.kind
BY DEF TransportBags

LEMMA SendKeeps ==
  ASSUME MediaInv, Send
  PROVE  MediaInv'
<1>1. PICK bad, memory :
        /\ table' = Queue(bad, memory).table
        /\ bag' = [bag EXCEPT !.media = Queue(bad, memory).media]
        /\ txq' = [i \in Slots |-> IF i \in Queue(bad, memory).queued
                                   THEN Append(txq[i], count + 1) ELSE txq[i]]
        /\ failed' = failed \cup {<<count + 1, i>> : i \in Queue(bad, memory).failed}
  BY DEF Send
<1> DEFINE q == Queue(bad, memory)
<1>2. /\ bag \in TransportBags /\ bag.media \in MediaLists /\ table \in Tables
      /\ Holds(table, bag.media) /\ count \in Nat /\ txq \in [Slots -> Seq(Nat)]
      /\ subs \subseteq Ports
  BY DEF MediaInv, Send, TransportBags
<1>3. q \in TxAccs /\ Queueing(q, 3)
  BY <1>2, QueueHolds
<1>4. /\ table' = q.table
      /\ bag' = [bag EXCEPT !.media = q.media]
      /\ txq' = [i \in Slots |-> IF i \in q.queued THEN Append(txq[i], count + 1) ELSE txq[i]]
      /\ failed' = failed \cup {<<count + 1, i>> : i \in q.failed}
      /\ count' = count + 1 /\ UNCHANGED <<list, subs, carried, refused>>
  BY <1>1 DEF Send
<1> HIDE DEF q
<1>5. /\ table' \in Tables /\ q.media \in MediaLists /\ DOMAIN q.media = Interfaces
      /\ Holds(q.table, q.media) /\ CanRxKept(q.table)
      /\ \A j \in Interfaces : j \in 1..3 => j \in q.queued \cup q.failed
  BY <1>3, <1>4 DEF TxAccs, Queueing
<1>6. bag' \in TransportBags /\ bag'.media = q.media /\ bag'.kind = bag.kind
  BY <1>2, <1>4, <1>5, BagWith
<1>7. Holds(table, bag.media)'
  BY <1>4, <1>5, <1>6 DEF Holds
<1>8. (bag.kind = "udp" => \A fd \in Fds : table[fd].kind # "canrx")'
  BY <1>4, <1>5, <1>6 DEF MediaInv, CanRxKept
<1>9. SubscribedPortsPass'
  BY <1>4, <1>5 DEF MediaInv, SubscribedPortsPass, CanRxKept
<1>10. txq' \in [Slots -> Seq(Nat)]
  <2>1. \A i \in Slots : Append(txq[i], count + 1) \in Seq(Nat)
    BY <1>2
  <2> QED
    BY <1>2, <1>4, <2>1
<1>11. ASSUME NEW t \in 1..(count + 1), NEW j \in Interfaces
       PROVE  t \in ToSet(txq'[j]) \/ <<t, j>> \in carried \/ <<t, j>> \in failed'
  <2>1. j \in Slots /\ j \in 1..3
    BY InterfacesAreSlots DEF Slots, MaxMedia
  <2>2. txq[j] \in Seq(Nat) /\ count + 1 \in Nat
    BY <1>2, <2>1
  <2>3. ToSet(txq[j]) \cup {count + 1} \subseteq ToSet(Append(txq[j], count + 1))
    BY <2>2, QueueSets
  <2>4. ToSet(txq[j]) \subseteq ToSet(txq'[j])
    BY <1>4, <2>1, <2>3
  <2>5. CASE t = count + 1
    <3>1. CASE j \in q.queued
      BY <1>4, <2>1, <2>3, <2>5, <3>1
    <3>2. CASE j \in q.failed
      BY <1>4, <2>5, <3>2
    <3> QED
      BY <1>5, <2>1, <3>1, <3>2
  <2>6. CASE t # count + 1
    <3>1. t \in 1..count
      BY <1>2, <2>6
    <3>2. t \in ToSet(txq[j]) \/ <<t, j>> \in carried \/ <<t, j>> \in failed
      BY <3>1 DEF MediaInv, Accounted
    <3> QED
      BY <1>4, <2>4, <3>2
  <2> QED
    BY <2>5, <2>6
<1>12. (\A t \in 1..count, j \in Interfaces : Accounted(t, j))'
  BY <1>4, <1>5, <1>6, <1>11 DEF Accounted, Interfaces
<1>13. bag' # NoBag /\ list' \in Seq([prefix : STRING, addresses : Seq(STRING)])
  BY <1>4, <1>6 DEF MediaInv, NoBag, TransportBags
<1> QED
  BY <1>2, <1>4, <1>5, <1>6, <1>7, <1>8, <1>9, <1>10, <1>12, <1>13 DEF MediaInv

---------------------------------------------------------------------------
(* The invariant: the bag and the subscriptions.                           *)

LEMMA InitHolds ==
  ASSUME Init
  PROVE  MediaInv
<1>1. /\ list \in Lists /\ table = [fd \in Fds |-> Free] /\ bag = NoBag /\ subs = {}
      /\ count = 0 /\ txq = [i \in Slots |-> <<>>]
  BY DEF Init
<1>2. list \in Seq([prefix : STRING, addresses : Seq(STRING)])
  BY <1>1, ListsAssumption
<1>3. table \in Tables /\ \A fd \in Fds : table[fd].kind = "free"
  BY <1>1 DEF Tables, Free
<1>4. bag.media = <<>> /\ bag.kind = "none" /\ DOMAIN bag.media = {}
  BY <1>1 DEF NoBag
<1>5. Holds(table, bag.media)
  BY <1>3, <1>4 DEF Holds
<1>6. txq \in [Slots -> Seq(Nat)] /\ 1..count = {} /\ count \in Nat
  BY <1>1
<1>7. SubscribedPortsPass
  BY <1>3 DEF SubscribedPortsPass
<1> QED
  BY <1>1, <1>2, <1>3, <1>4, <1>5, <1>6, <1>7 DEF MediaInv

LEMMA MakeBagMakes ==
  ASSUME NEW kind, NEW parsed, NEW bad, NEW factory,
         MakeBag(kind, parsed, bad, factory).bag # NoBag
  PROVE  /\ MakeBag(kind, parsed, bad, factory).table = parsed.table
         /\ MakeBag(kind, parsed, bad, factory).bag =
              [kind |-> kind, media |-> parsed.media, bad |-> bad]
BY DEF MakeBag

LEMMA InitTransportKeeps ==
  ASSUME MediaInv, InitTransport
  PROVE  MediaInv'
<1>1. PICK bad \in SocketFaults({"canrx", "cantx"}), udpFactory \in BOOLEAN, canFactory \in BOOLEAN :
        LET udp == UdpTransportBag(udpFactory)
            can == CanTransportBag(bad, canFactory)
            made == IF udp.bag # NoBag THEN udp ELSE can
        IN  made.bag # NoBag /\ bag' = made.bag /\ table' = made.table
  BY DEF InitTransport, Chances
<1>2. /\ bag = NoBag /\ count = 0 /\ subs = {} /\ table \in Tables
      /\ UNCHANGED <<list, subs, count, txq, carried, failed>>
      /\ list \in Seq([prefix : STRING, addresses : Seq(STRING)])
      /\ txq \in [Slots -> Seq(Nat)]
  BY DEF InitTransport, MediaInv
<1>3. Holds(table, <<>>) /\ \A fd \in Fds : table[fd].kind = "free"
  <2>1. Holds(table, <<>>)
    BY <1>2 DEF MediaInv, NoBag
  <2>2. DOMAIN <<>> = {}
    OBVIOUS
  <2> QED
    BY <2>1, <2>2 DEF Holds
<1>4. Addresses("udp://") \in Seq(STRING) /\ Addresses("socketcan:") \in Seq(STRING)
  BY <1>2, AddressesAreStrings
<1>5. bad \in SUBSET (Devices \X {"canrx", "cantx"})
  BY <1>1 DEF SocketFaults, Configured
<1>6. /\ table' \in Tables /\ bag' \in TransportBags /\ Holds(table', bag'.media)
      /\ bag'.kind = "udp" => \A fd \in Fds : table'[fd].kind # "canrx"
  <2> DEFINE udp == UdpTransportBag(udpFactory)
             can == CanTransportBag(bad, canFactory)
             up == UdpParse(Addresses("udp://"))
             cp == CanParse(Addresses("socketcan:"), bad)
  <2>0. udp = MakeBag("udp", up, {}, udpFactory) /\ can = MakeBag("can", cp, bad, canFactory)
    BY DEF UdpTransportBag, CanTransportBag
  <2>1. up.table = table /\ up.media \in UdpParsed
    BY <1>4, UdpParseHolds
  <2>2. cp \in CanParsed
    BY <1>2, <1>3, <1>4, CanParseHolds
  <2>3. CASE udp.bag # NoBag
    <3>1. bag' = udp.bag /\ table' = udp.table
      BY <1>1, <2>3
    <3> HIDE DEF udp, can, up, cp
    <3>2. udp.table = up.table /\ udp.bag = [kind |-> "udp", media |-> up.media, bad |-> {}]
      BY <2>0, <2>3, MakeBagMakes
    <3>3. table' = table /\ bag'.media = up.media /\ bag'.kind = "udp" /\ bag' \in TransportBags
      BY <2>1, <3>1, <3>2 DEF UdpParsed, TransportBags
    <3>4. Holds(table, up.media)
      BY <1>3, <2>1 DEF Holds, UdpParsed
    <3> QED
      BY <1>2, <1>3, <3>3, <3>4
  <2>4. CASE udp.bag = NoBag
    <3>1. bag' = can.bag /\ table' = can.table /\ can.bag # NoBag
      BY <1>1, <2>4
    <3> HIDE DEF udp, can, up, cp
    <3>2. can.table = cp.table /\ can.bag = [kind |-> "can", media |-> cp.media, bad |-> bad]
      BY <2>0, <3>1, MakeBagMakes
    <3>3. cp.table \in Tables /\ cp.media \in MediaLists /\ Holds(cp.table, cp.media)
      BY <2>2 DEF CanParsed
    <3>4. table' = cp.table /\ bag'.media = cp.media /\ bag'.kind = "can" /\ bag' \in TransportBags
      BY <1>5, <3>1, <3>2, <3>3 DEF TransportBags
    <3> QED
      BY <3>3, <3>4
  <2> QED
    BY <2>3, <2>4
<1>7. Holds(table, bag.media)'
  BY <1>6 DEF Holds
<1>8. SubscribedPortsPass'
  BY <1>2 DEF SubscribedPortsPass
<1>9. bag' # NoBag /\ 1..count' = {}
  BY <1>2, <1>6 DEF NoBag, TransportBags
<1> QED
  BY <1>2, <1>6, <1>7, <1>8, <1>9 DEF MediaInv

LEMMA ShutdownKeeps ==
  ASSUME MediaInv, Shutdown
  PROVE  MediaInv'
<1>1. /\ table' = Close(table, OwnedBy(bag)) /\ bag' = NoBag /\ subs' = {} /\ count' = 0
      /\ txq' = [i \in Slots |-> <<>>] /\ list' = list
  BY DEF Shutdown
<1>2. /\ list \in Seq([prefix : STRING, addresses : Seq(STRING)])
      /\ Holds(table, bag.media) /\ table \in Tables
  BY DEF MediaInv
<1>3. ASSUME NEW fd \in Fds
      PROVE  table'[fd] = Free
  <2>1. CASE table[fd].kind = "free"
    <3>1. table[fd] = Free
      BY <1>2, <2>1, KindsOfSockets
    <3> QED
      BY <1>1, <3>1 DEF Close
  <2>2. CASE table[fd].kind # "free"
    <3>1. PICK i \in DOMAIN bag.media : fd \in bag.media[i].rx \cup bag.media[i].tx
      BY <1>2, <2>2 DEF Holds
    <3>2. fd \in OwnedBy(bag)
      BY <3>1 DEF OwnedBy
    <3> QED
      BY <1>1, <3>2 DEF Close
  <2> QED
    BY <2>1, <2>2
<1>4. table' \in Tables /\ \A fd \in Fds : table'[fd].kind = "free"
  <2>1. table' = [fd \in Fds |-> table'[fd]]
    BY <1>1 DEF Close
  <2> QED
    BY <1>3, <2>1 DEF Tables, Free
<1>5. bag'.media = <<>> /\ bag'.kind = "none" /\ DOMAIN bag'.media = {}
  BY <1>1 DEF NoBag
<1>6. Holds(table, bag.media)'
  BY <1>4, <1>5 DEF Holds
<1>7. txq' \in [Slots -> Seq(Nat)] /\ 1..count' = {} /\ count' \in Nat
  BY <1>1
<1>8. SubscribedPortsPass'
  BY <1>1 DEF SubscribedPortsPass
<1> QED
  BY <1>1, <1>2, <1>4, <1>5, <1>6, <1>7, <1>8 DEF MediaInv

(* Setting filters changes only what the sockets let pass.  After          *)
(* interface k, those up to it let the ports pass or refused them.         *)
FilterAccs == [table : Tables, stop : {FALSE}]

FiltersSet(acc, k, ports, bad) ==
  /\ \A fd \in Fds : acc.table[fd].kind = table[fd].kind
  /\ \A i \in Interfaces : i \in 1..k =>
       \A fd \in bag.media[i].rx \ Refusing(ports, bad) : acc.table[fd].filter = ports

LEMMA FilterMediaSets ==
  ASSUME MediaInv, NEW k \in 0..2, NEW ports \in SUBSET Ports, NEW bad, NEW acc \in FilterAccs,
         FiltersSet(acc, k, ports, bad), NEW i, i = k + 1, NEW q,
         q = IF i \in Interfaces THEN FilterMedia(acc, i, ports, bad) ELSE acc
  PROVE  q \in FilterAccs /\ FiltersSet(q, k + 1, ports, bad)
<1> DEFINE ok == bag.media[i].rx \ Refusing(ports, bad)
           s(fd) == [acc.table[fd] EXCEPT !.filter = ports]
<1>1. /\ acc.table \in Tables /\ acc.stop = FALSE
      /\ \A fd \in Fds : acc.table[fd].kind = table[fd].kind
      /\ \A j \in Interfaces : j \in 1..k =>
           \A fd \in bag.media[j].rx \ Refusing(ports, bad) : acc.table[fd].filter = ports
  BY DEF FilterAccs, FiltersSet
<1>2. \A j : j \in 1..(k + 1) => j \in 1..k \/ j = i
  OBVIOUS
<1>3. CASE i \notin Interfaces
  BY <1>2, <1>3 DEF FiltersSet
<1>4. CASE i \in Interfaces
  <2>1. q = [table |-> [fd \in Fds |-> IF fd \in ok THEN s(fd) ELSE acc.table[fd]],
             stop |-> ok # bag.media[i].rx /\ ~TransientErrorHandler]
    BY <1>1, <1>4 DEF FilterMedia
  <2>2. \A j \in Interfaces : \A fd \in bag.media[j].rx : fd \in Fds /\ table[fd].kind \in RxKinds
    BY MediaHoldRx
  <2>3. ASSUME NEW fd \in Fds, fd \in ok
        PROVE  s(fd) \in Sockets /\ s(fd).kind = acc.table[fd].kind /\ s(fd).filter = ports
    <3>1. acc.table[fd].kind \in RxKinds
      BY <1>1, <1>4, <2>2, <2>3
    <3>2. acc.table[fd] \in Sockets
      BY <1>1, <3>1 DEF Tables, Free, RxKinds
    <3> QED
      BY <3>2 DEF Sockets
  <2> HIDE DEF ok, s
  <2>4. /\ q.stop = FALSE
        /\ q.table = [fd \in Fds |-> IF fd \in ok THEN s(fd) ELSE acc.table[fd]]
    <3> DEFINE f == [fd \in Fds |-> IF fd \in ok THEN s(fd) ELSE acc.table[fd]]
    <3>1. q = [table |-> f, stop |-> FALSE]
      BY <2>1 DEF TransientErrorHandler
    <3> HIDE DEF f
    <3>2. q.stop = FALSE /\ q.table = f
      BY <3>1
    <3> QED
      BY <3>2 DEF f
  <2>5. q.table \in Tables
    BY <1>1, <2>3, <2>4 DEF Tables
  <2>6. q \in FilterAccs
    BY <2>1, <2>4, <2>5 DEF FilterAccs
  <2>7. \A fd \in Fds : q.table[fd].kind = table[fd].kind
    BY <1>1, <2>3, <2>4
  <2>8. ASSUME NEW j \in Interfaces, j \in 1..(k + 1),
               NEW fd \in bag.media[j].rx \ Refusing(ports, bad)
        PROVE  q.table[fd].filter = ports
    <3>1. fd \in Fds
      BY <2>2
    <3>2. CASE fd \in ok
      BY <2>3, <2>4, <3>1, <3>2
    <3>3. CASE fd \notin ok
      <4>1. j \in 1..k
        BY <1>2, <2>8, <3>3 DEF ok
      <4> QED
        BY <1>1, <2>4, <2>8, <3>1, <3>3, <4>1
    <3> QED
      BY <3>2, <3>3
  <2> QED
    BY <2>6, <2>7, <2>8 DEF FiltersSet
<1> QED
  BY <1>3, <1>4

LEMMA FilterAllSets ==
  ASSUME MediaInv, NEW ports \in SUBSET Ports, NEW bad
  PROVE  FilterAll(ports, bad) \in FilterAccs /\ FiltersSet(FilterAll(ports, bad), 3, ports, bad)
<1> DEFINE acc == [table |-> table, stop |-> FALSE]
           Step(a, i) == IF i \in Interfaces THEN FilterMedia(a, i, ports, bad) ELSE a
<1>1. acc \in FilterAccs /\ FiltersSet(acc, 0, ports, bad)
  BY DEF FilterAccs, FiltersSet, MediaInv
<1>2. ASSUME NEW k \in 0..2, NEW a \in FilterAccs, FiltersSet(a, k, ports, bad)
      PROVE  Step(a, k + 1) \in FilterAccs /\ FiltersSet(Step(a, k + 1), k + 1, ports, bad)
  BY <1>2, FilterMediaSets
<1>3. FilterAll(ports, bad) = Step(Step(Step(acc, 1), 2), 3)
  BY DEF FilterAll, InTurn
<1> HIDE DEF Step, acc
<1>4. Step(acc, 1) \in FilterAccs /\ FiltersSet(Step(acc, 1), 1, ports, bad)
  <2>1. 0 \in 0..2 /\ 0 + 1 = 1
    OBVIOUS
  <2> QED
    BY <1>1, <1>2, <2>1
<1>5. Step(Step(acc, 1), 2) \in FilterAccs /\ FiltersSet(Step(Step(acc, 1), 2), 2, ports, bad)
  <2>1. 1 \in 0..2 /\ 1 + 1 = 2
    OBVIOUS
  <2> QED
    BY <1>2, <1>4, <2>1
<1>6. /\ Step(Step(Step(acc, 1), 2), 3) \in FilterAccs
      /\ FiltersSet(Step(Step(Step(acc, 1), 2), 3), 3, ports, bad)
  <2>1. 2 \in 0..2 /\ 2 + 1 = 3
    OBVIOUS
  <2> QED
    BY <1>2, <1>5, <2>1
<1> QED
  BY <1>3, <1>6

(* Every CAN socket for receiving belongs to an interface, so the loop     *)
(* reaches it.                                                             *)
LEMMA SetFiltersPasses ==
  ASSUME MediaInv, subs' \subseteq Ports, SetFilters(subs')
  PROVE  /\ table' \in Tables /\ \A fd \in Fds : table'[fd].kind = table[fd].kind
         /\ SubscribedPortsPass'
<1>1. PICK bad : table' = FilterAll(subs', bad).table /\ refused' = Refusing(subs', bad)
  BY DEF SetFilters
<1> DEFINE q == FilterAll(subs', bad)
<1>2. q \in FilterAccs /\ FiltersSet(q, 3, subs', bad)
  BY FilterAllSets
<1>3. table' = q.table
  BY <1>1
<1> HIDE DEF q
<1>4. /\ table' \in Tables /\ \A fd \in Fds : table'[fd].kind = table[fd].kind
      /\ \A i \in Interfaces : i \in 1..3 =>
           \A fd \in bag.media[i].rx \ refused' : table'[fd].filter = subs'
  BY <1>1, <1>2, <1>3 DEF FilterAccs, FiltersSet
<1>5. ASSUME NEW fd \in Fds \ refused', table'[fd].kind = "canrx"
      PROVE  table'[fd].filter = subs'
  <2>1. table[fd].kind = "canrx"
    BY <1>4, <1>5
  <2>2. PICK i \in Interfaces : fd \in bag.media[i].rx
    BY <2>1 DEF MediaInv, Holds, Interfaces, RxKinds, TxKinds
  <2>3. i \in 1..3
    BY InterfacesAreSlots DEF Slots, MaxMedia
  <2> QED
    BY <1>4, <1>5, <2>2, <2>3
<1> QED
  BY <1>4, <1>5 DEF SubscribedPortsPass

LEMMA CanSubscriptions ==
  ASSUME MediaInv, bag # NoBag, bag.kind = "can", subs' \subseteq Ports, SetFilters(subs'),
         UNCHANGED <<list, count, txq, carried, failed>>
  PROVE  MediaInv'
<1>1. /\ table' \in Tables /\ \A fd \in Fds : table'[fd].kind = table[fd].kind
      /\ SubscribedPortsPass'
  BY SetFiltersPasses
<1>2. bag' = bag
  BY DEF SetFilters
<1>3. Holds(table, bag.media) /\ bag \in TransportBags /\ bag.media \in Seq(MediaRecords)
  BY DEF MediaInv, TransportBags, MediaLists
<1>4. \A i \in DOMAIN bag.media : bag.media[i].rx \subseteq Fds /\ bag.media[i].tx \subseteq Fds
  <2>1. \A i \in DOMAIN bag.media : bag.media[i] \in MediaRecords
    BY <1>3
  <2> QED
    BY <2>1 DEF MediaRecords
<1>5. Holds(table', bag.media)
  BY <1>1, <1>3, <1>4 DEF Holds
<1>6. Holds(table, bag.media)'
  BY <1>2, <1>5 DEF Holds
<1>7. (\A t \in 1..count, i \in Interfaces : Accounted(t, i))'
  BY <1>2 DEF MediaInv, Accounted, Interfaces
<1> QED
  BY <1>1, <1>2, <1>6, <1>7 DEF MediaInv

(* A step of a UDP bag that changes its sockets and nothing else.          *)
LEMMA UdpSubscriptions ==
  ASSUME MediaInv, bag # NoBag, bag.kind = "udp", subs' \subseteq Ports, table' \in Tables,
         NEW m \in MediaLists, DOMAIN m = Interfaces, bag' = [bag EXCEPT !.media = m],
         Holds(table', m), \A fd \in Fds : table'[fd].kind # "canrx",
         UNCHANGED <<list, count, txq, carried, failed>>
  PROVE  MediaInv'
<1>1. bag \in TransportBags
  BY DEF MediaInv
<1>2. bag' \in TransportBags /\ bag'.media = m /\ bag'.kind = "udp"
  BY <1>1, BagWith
<1>3. Holds(table, bag.media)'
  BY <1>2 DEF Holds
<1>4. (\A t \in 1..count, i \in Interfaces : Accounted(t, i))'
  BY <1>2 DEF MediaInv, Accounted, Interfaces
<1>5. SubscribedPortsPass'
  BY DEF SubscribedPortsPass, Fds
<1>6. bag' # NoBag
  BY <1>2 DEF NoBag
<1> QED
  BY <1>2, <1>3, <1>4, <1>5, <1>6 DEF MediaInv

LEMMA SubscribeKeeps ==
  ASSUME MediaInv, NEW p \in Ports, Subscribe(p)
  PROVE  MediaInv'
<1>1. /\ bag # NoBag /\ subs' \subseteq Ports /\ UNCHANGED <<list, count, txq, carried, failed>>
  BY DEF Subscribe, MediaInv
<1>2. CASE bag.kind = "can" /\ SetFilters(subs')
  BY <1>1, <1>2, CanSubscriptions
<1>3. CASE bag.kind = "udp"
  <2>1. PICK bad, memory : /\ bag' = [bag EXCEPT !.media = MakeRxSockets(p, bad, memory).media]
                           /\ table' = MakeRxSockets(p, bad, memory).table
    BY <1>3 DEF Subscribe
  <2> DEFINE made == MakeRxSockets(p, bad, memory)
  <2>2. table \in Tables /\ bag.media \in MediaLists /\ Holds(table, bag.media)
    BY <1>1 DEF MediaInv, TransportBags
  <2>3. made \in RxAccs
    BY <2>2, MakeRxSocketsHold
  <2>4. bag' = [bag EXCEPT !.media = made.media] /\ table' = made.table
    BY <2>1
  <2> HIDE DEF made
  <2>5. /\ table' \in Tables /\ made.media \in MediaLists /\ DOMAIN made.media = Interfaces
        /\ Holds(table', made.media) /\ CanRxKept(table')
    BY <2>3, <2>4 DEF RxAccs
  <2>6. \A fd \in Fds : table'[fd].kind # "canrx"
    BY <1>3, <2>5 DEF MediaInv, CanRxKept
  <2> QED
    BY <1>1, <1>3, <2>4, <2>5, <2>6, UdpSubscriptions
<1> QED
  BY <1>2, <1>3 DEF Subscribe

LEMMA FunctionIsSequence ==
  ASSUME NEW S, NEW l \in Nat, NEW f \in [1..l -> S]
  PROVE  f \in Seq(S) /\ Len(f) = l
OBVIOUS

(* The sockets of a port are taken from the media and closed.              *)
LEMMA Released ==
  ASSUME NEW t \in Tables, NEW m \in MediaLists, Holds(t, m),
         NEW gone \in SUBSET Fds, \A fd \in gone : t[fd].kind = "udprx",
         NEW n, n = [i \in DOMAIN m |-> [m[i] EXCEPT !.rx = @ \ gone]]
  PROVE  /\ Close(t, gone) \in Tables /\ n \in MediaLists /\ Holds(Close(t, gone), n)
         /\ \A fd \in Fds : Close(t, gone)[fd].kind \in {t[fd].kind, "free"}
<1> DEFINE u == Close(t, gone)
<1>1. /\ \A fd \in gone : u[fd] = Free
      /\ \A fd \in Fds \ gone : u[fd] = t[fd]
      /\ u \in Tables
  BY DEF Close, Tables
<1> HIDE DEF u
<1>2. m \in Seq(MediaRecords) /\ DOMAIN m = 1..Len(m) /\ Len(m) \in Nat /\ Len(m) <= MaxMedia
  BY DEF MediaLists
<1>3. \A i \in DOMAIN m : m[i] \in MediaRecords
  BY <1>2
<1>4. ASSUME NEW i \in DOMAIN m
      PROVE  /\ n[i] \in MediaRecords /\ n[i].rx = m[i].rx \ gone /\ n[i].tx = m[i].tx
             /\ m[i].rx \subseteq Fds /\ m[i].tx \subseteq Fds \ gone
  <2>1. n[i] = [m[i] EXCEPT !.rx = m[i].rx \ gone]
    OBVIOUS
  <2>2. /\ n[i] \in MediaRecords /\ n[i].rx = m[i].rx \ gone /\ n[i].tx = m[i].tx
        /\ m[i].rx \subseteq Fds /\ m[i].tx \subseteq Fds
    BY <1>3, <2>1 DEF MediaRecords
  <2>3. m[i].tx \cap gone = {}
    BY DEF Holds, TxKinds
  <2> QED
    BY <2>2, <2>3
<1>5. DOMAIN n = DOMAIN m
  OBVIOUS
<1>6. n \in MediaLists
  <2>1. \A i \in 1..Len(m) : n[i] \in MediaRecords
    BY <1>2, <1>4
  <2>2. n \in [1..Len(m) -> MediaRecords]
    BY <1>2, <2>1
  <2>3. n \in Seq(MediaRecords) /\ Len(n) = Len(m)
    BY <1>2, <2>2, FunctionIsSequence, Zenon
  <2> QED
    BY <1>2, <2>3 DEF MediaLists
<1>7. Holds(u, n)
  <2>1. \A i \in DOMAIN n : /\ \A fd \in n[i].rx : u[fd].kind \in RxKinds
                            /\ \A fd \in n[i].tx : u[fd].kind \in TxKinds
    BY <1>1, <1>4, <1>5 DEF Holds
  <2>2. \A i, j \in DOMAIN n : i # j => (n[i].rx \cup n[i].tx) \cap (n[j].rx \cup n[j].tx) = {}
    <3> SUFFICES ASSUME NEW i \in DOMAIN n, NEW j \in DOMAIN n, i # j
                 PROVE  (n[i].rx \cup n[i].tx) \cap (n[j].rx \cup n[j].tx) = {}
      OBVIOUS
    <3>1. i \in DOMAIN m /\ j \in DOMAIN m
      BY <1>5
    <3>2. (m[i].rx \cup m[i].tx) \cap (m[j].rx \cup m[j].tx) = {}
      BY <3>1 DEF Holds
    <3>3. /\ n[i].rx \subseteq m[i].rx /\ n[i].tx = m[i].tx
          /\ n[j].rx \subseteq m[j].rx /\ n[j].tx = m[j].tx
      BY <1>4, <3>1
    <3> QED
      BY <3>2, <3>3, Zenon
  <2>3. ASSUME NEW fd \in Fds, u[fd].kind # "free"
        PROVE  \E i \in DOMAIN n : fd \in n[i].rx \cup n[i].tx
    <3>1. fd \notin gone /\ t[fd].kind # "free"
      BY <1>1, <2>3 DEF Free
    <3>2. PICK i \in DOMAIN m : fd \in m[i].rx \cup m[i].tx
      BY <3>1 DEF Holds
    <3> QED
      BY <1>4, <1>5, <3>1, <3>2
  <2> QED
    BY <2>1, <2>2, <2>3 DEF Holds
<1>8. \A fd \in Fds : u[fd].kind \in {t[fd].kind, "free"}
  BY <1>1 DEF Free
<1> QED
  BY <1>1, <1>6, <1>7, <1>8 DEF u

LEMMA UnsubscribeKeeps ==
  ASSUME MediaInv, NEW p \in Ports, Unsubscribe(p)
  PROVE  MediaInv'
<1>1. /\ bag # NoBag /\ subs' \subseteq Ports /\ UNCHANGED <<list, count, txq, carried, failed>>
  BY DEF Unsubscribe, MediaInv
<1>2. CASE bag.kind = "can" /\ SetFilters(subs')
  BY <1>1, <1>2, CanSubscriptions
<1>3. CASE bag.kind = "udp"
  <2> DEFINE gone == {fd \in Fds : table[fd].kind = "udprx" /\ table[fd].port = p}
             n == [i \in DOMAIN bag.media |-> [bag.media[i] EXCEPT !.rx = @ \ gone]]
  <2>1. bag' = [bag EXCEPT !.media = n] /\ table' = Close(table, gone)
    BY <1>3 DEF Unsubscribe, Interfaces
  <2>2. gone \in SUBSET Fds /\ \A fd \in gone : table[fd].kind = "udprx"
    OBVIOUS
  <2>3. table \in Tables /\ bag.media \in MediaLists /\ Holds(table, bag.media)
    BY <1>1 DEF MediaInv, TransportBags
  <2> HIDE DEF gone
  <2>4. /\ table' \in Tables /\ n \in MediaLists /\ Holds(table', n)
        /\ \A fd \in Fds : table'[fd].kind \in {table[fd].kind, "free"}
    BY <2>1, <2>2, <2>3, Released
  <2>5. DOMAIN n = Interfaces
    BY DEF Interfaces
  <2> HIDE DEF n
  <2>6. \A fd \in Fds : table'[fd].kind # "canrx"
    BY <1>3, <2>4 DEF MediaInv
  <2> QED
    BY <1>1, <1>3, <2>1, <2>4, <2>5, <2>6, UdpSubscriptions
<1> QED
  BY <1>2, <1>3 DEF Unsubscribe

---------------------------------------------------------------------------
(* Which interfaces are used.                                              *)

LEMMA FreeFdsFinite ==
  ASSUME NEW t
  PROVE  IsFiniteSet(FreeFds(t)) /\ Cardinality(FreeFds(t)) \in Nat
<1>1. IsFiniteSet(Fds)
  BY MediaAssumption, FS_Interval DEF Fds
<1>2. FreeFds(t) \in SUBSET Fds
  BY DEF FreeFds
<1>3. IsFiniteSet(FreeFds(t))
  BY <1>1, <1>2, FS_Subset
<1> QED
  BY <1>3, FS_CardinalityType

LEMMA TwoFree ==
  ASSUME NEW t, ~(Cardinality(FreeFds(t)) < 2)
  PROVE  FreeFds(t) # {} /\ \A x : FreeFds(t) # {x}
<1>1. FreeFds(t) # {}
  BY FS_EmptySet
<1>2. ASSUME NEW x, FreeFds(t) = {x}
      PROVE  FALSE
  <2>1. Cardinality(FreeFds(t)) = 1
    BY <1>2, FS_Singleton
  <2> QED
    BY <2>1
<1> QED
  BY <1>1, <1>2

LEMMA TwoAreFree ==
  ASSUME NEW t, NEW x \in FreeFds(t), NEW y \in FreeFds(t), x # y
  PROVE  ~(Cardinality(FreeFds(t)) < 2)
<1>1. IsFiniteSet({x}) /\ Cardinality({x}) = 1
  BY FS_Singleton
<1>2. Cardinality({x} \cup {y}) = Cardinality({x}) + 1
  BY <1>1, FS_AddElement
<1>3. {x} \cup {y} \in SUBSET FreeFds(t)
  OBVIOUS
<1>4. Cardinality({x} \cup {y}) <= Cardinality(FreeFds(t))
  BY <1>3, FreeFdsFinite, FS_Subset
<1>5. Cardinality(FreeFds(t)) \in Nat
  BY FreeFdsFinite
<1> QED
  BY <1>1, <1>2, <1>4, <1>5

(* A socket is opened for a device that works, if there is a descriptor.   *)
LEMMA OpenedOrNot ==
  ASSUME NEW t \in Tables, NEW name, NEW kind \in {"canrx", "cantx"}, NEW bad
  PROVE  /\ (~Exists(name) \/ <<name, kind>> \in bad) => SocketcanOpen(t, name, kind, bad).fd = Error
         /\ (Exists(name) /\ <<name, kind>> \notin bad /\ FreeFds(t) # {}) =>
              SocketcanOpen(t, name, kind, bad).fd # Error
<1> DEFINE ok == name \notin LongNames /\ Exists(name) /\ <<name, kind>> \notin bad
           o == SocketcanOpen(t, name, kind, bad)
<1>1. o = OpenSocket(t, kind, name, "all", ok)
  BY DEF SocketcanOpen
<1>2. Exists(name) => name \notin LongNames
  BY NamesAssumption DEF Exists
<1>3. ASSUME ~ok
      PROVE  o.fd = Error
  BY <1>1, <1>3 DEF OpenSocket
<1>4. ASSUME ok, FreeFds(t) # {}
      PROVE  o.fd # Error
  <2>1. LowestFree(t) \in Fds
    BY <1>4, LowestFreeIsFree
  <2>2. o.fd = LowestFree(t)
    BY <1>1, <1>4 DEF OpenSocket
  <2> QED
    BY <2>1, <2>2, KindsOfSockets
<1> QED
  BY <1>2, <1>3, <1>4

(* CanMedia::make succeeds for a device that works and two descriptors.    *)
Works(name, bad) == Exists(name) /\ <<name, "canrx">> \notin bad /\ <<name, "cantx">> \notin bad

LEMMA CanMadeOrNot ==
  ASSUME NEW t \in Tables, NEW name \in STRING, NEW bad, NEW o, o = CanMediaMake(t, name, bad)
  PROVE  /\ ~Works(name, bad) => o.media = <<>>
         /\ (Works(name, bad) /\ ~(Cardinality(FreeFds(t)) < 2)) => o.media # <<>>
<1> DEFINE rx == SocketcanOpen(t, name, "canrx", bad)
           tx == SocketcanOpen(rx.table, name, "cantx", bad)
<1>0. o = IF rx.fd = Error THEN [table |-> t, media |-> <<>>]
          ELSE IF tx.fd = Error THEN [table |-> Close(tx.table, {rx.fd}), media |-> <<>>]
          ELSE [table |-> tx.table, media |-> <<Medium(name, {rx.fd}, {tx.fd})>>]
  BY DEF CanMediaMake
<1>1. Opened(t, rx, "canrx")
  BY SocketcanOpens
<1>2. /\ (~Exists(name) \/ <<name, "canrx">> \in bad) => rx.fd = Error
      /\ (Exists(name) /\ <<name, "canrx">> \notin bad /\ FreeFds(t) # {}) => rx.fd # Error
  BY OpenedOrNot
<1> HIDE DEF rx
<1>3. CASE rx.fd = Error
  <2>1. o.media = <<>>
    BY <1>0, <1>3
  <2> QED
    BY <1>2, <1>3, <2>1, TwoFree DEF Works
<1>4. CASE rx.fd # Error
  <2>1. PICK s \in Sockets : /\ rx.table = [t EXCEPT ![rx.fd] = s]
                             /\ rx.fd \in Fds /\ t[rx.fd].kind = "free"
    BY <1>1, <1>4 DEF Opened
  <2>2. rx.table \in Tables /\ \A x \in Fds \ {rx.fd} : rx.table[x] = t[x]
    BY <2>1, TableWith
  <2>3. /\ (~Exists(name) \/ <<name, "cantx">> \in bad) => tx.fd = Error
        /\ (Exists(name) /\ <<name, "cantx">> \notin bad /\ FreeFds(rx.table) # {}) => tx.fd # Error
    BY <2>2, OpenedOrNot
  <2> HIDE DEF tx
  <2>4. FreeFds(t) \ {rx.fd} \subseteq FreeFds(rx.table)
    BY <2>2 DEF FreeFds
  <2>5. rx.fd \in FreeFds(t)
    BY <2>1 DEF FreeFds
  <2>6. ~(Cardinality(FreeFds(t)) < 2) => FreeFds(rx.table) # {}
    <3>1. FreeFds(rx.table) = {} => FreeFds(t) = {rx.fd}
      BY <2>4, <2>5
    <3> QED
      BY <3>1, TwoFree
  <2>7. tx.fd = Error => o.media = <<>>
    BY <1>0, <1>4
  <2>8. tx.fd # Error => o.media # <<>>
    <3> DEFINE m == Medium(name, {rx.fd}, {tx.fd})
    <3>1. tx.fd # Error => o.media = <<m>>
      BY <1>0, <1>4
    <3> HIDE DEF m
    <3>2. <<m>> # <<>>
      OBVIOUS
    <3> QED
      BY <3>1, <3>2, Zenon
  <2> QED
    BY <1>2, <1>4, <2>3, <2>6, <2>7, <2>8 DEF Works
<1> QED
  BY <1>3, <1>4

(* What is true after every round: there are three media, or too few       *)
(* descriptors, or as many media as devices that work.                     *)
Complete(a, c) ==
  \/ Len(a.media) = MaxMedia
  \/ Cardinality(FreeFds(a.table)) < 2
  \/ Len(a.media) = c

(* A round adds a medium of the device only if it works, and two           *)
(* descriptors are free.                                                   *)
Adds(a, b, name, bad) ==
  /\ name # "" /\ Works(name, bad)
  /\ Len(a.media) # MaxMedia /\ ~(Cardinality(FreeFds(a.table)) < 2)
  /\ \E m \in MediaRecords : m.dev = name /\ b.media = Append(a.media, m)

LEMMA CanRoundAdds ==
  ASSUME NEW a \in CanParsed, NEW name \in STRING, NEW bad, NEW b, CanRound(a, b, name, bad)
  PROVE  b.media = a.media \/ Adds(a, b, name, bad)
<1>1. a.table \in Tables /\ a.media \in Seq(MediaRecords)
  BY DEF CanParsed, MediaLists
<1>2. CASE Len(a.media) = MaxMedia \/ name = ""
  <2>1. b = a
    BY <1>2 DEF CanRound
  <2> QED
    BY <2>1
<1>3. CASE Len(a.media) # MaxMedia /\ name # ""
  <2>1. PICK made : made = CanMediaMake(a.table, name, bad)
    OBVIOUS
  <2>2. b = [table |-> made.table, media |-> a.media \o made.media]
    BY <1>3, <2>1 DEF CanRound
  <2>3. b.media = a.media \o made.media
    BY <2>2
  <2>4. ~Works(name, bad) => made.media = <<>>
    BY <1>1, <2>1, CanMadeOrNot
  <2>5. \/ made.media = <<>>
        \/ \E rx, tx \in Fds : CanMade(a.table, name, made, rx, tx)
    BY <1>1, <2>1, CanMediaMakeOpens
  <2>6. CASE made.media = <<>>
    BY <1>1, <2>3, <2>6
  <2>7. CASE made.media # <<>>
    <3>1. PICK rx \in Fds, tx \in Fds : CanMade(a.table, name, made, rx, tx)
      BY <2>5, <2>7
    <3>2. rx # tx /\ rx \in FreeFds(a.table) /\ tx \in FreeFds(a.table)
      BY <3>1 DEF CanMade, FreeFds
    <3>3. ~(Cardinality(FreeFds(a.table)) < 2)
      BY <3>2, TwoAreFree
    <3>4. PICK m : m = Medium(name, {rx}, {tx})
      OBVIOUS
    <3>5. m \in MediaRecords /\ m.dev = name
      BY <3>4 DEF Medium, MediaRecords
    <3>6. made.media = <<m>>
      BY <3>1, <3>4 DEF CanMade
    <3>7. b.media = Append(a.media, m)
      BY <1>1, <2>3, <3>5, <3>6
    <3> QED
      BY <1>3, <2>4, <2>7, <3>3, <3>5, <3>7 DEF Adds
  <2> QED
    BY <2>6, <2>7
<1> QED
  BY <1>2, <1>3

(* The next medium is for the next of the places.                          *)
LEMMA NextOfThem ==
  ASSUME NEW m \in Seq(MediaRecords), NEW names, NEW P, FirstOf(m, names, P),
         NEW r \in MediaRecords, NEW k \in P, r.dev = names[k],
         Cardinality(UpTo(P, k)) = Len(m) + 1
  PROVE  FirstOf(Append(m, r), names, P)
<1>1. DOMAIN Append(m, r) = 1..(Len(m) + 1) /\ DOMAIN m = 1..Len(m) /\ Len(m) \in Nat
  OBVIOUS
<1>2. Append(m, r)[Len(m) + 1] = r /\ \A i \in 1..Len(m) : Append(m, r)[i] = m[i]
  OBVIOUS
<1>3. ASSUME NEW i \in 1..(Len(m) + 1)
      PROVE  \E j \in P : Append(m, r)[i].dev = names[j] /\ Cardinality(UpTo(P, j)) = i
  <2>1. CASE i = Len(m) + 1
    BY <1>2, <2>1
  <2>2. CASE i # Len(m) + 1
    <3>1. i \in 1..Len(m)
      BY <1>1, <2>2
    <3>2. PICK j \in P : m[i].dev = names[j] /\ Cardinality(UpTo(P, j)) = i
      BY <1>1, <3>1 DEF FirstOf
    <3> QED
      BY <1>2, <3>1, <3>2
  <2> QED
    BY <2>1, <2>2
<1> QED
  BY <1>1, <1>3 DEF FirstOf

LEMMA CanRoundComplete ==
  ASSUME NEW a \in CanParsed, NEW name \in STRING, NEW bad, NEW b, CanRound(a, b, name, bad),
         NEW c \in Nat, Complete(a, c)
  PROVE  IF name # "" /\ Works(name, bad) THEN Complete(b, c + 1) ELSE Complete(b, c)
<1>1. /\ a.table \in Tables /\ a.media \in Seq(MediaRecords) /\ Len(a.media) \in Nat
  BY DEF CanParsed, MediaLists
<1>2. CASE Len(a.media) = MaxMedia
  <2>1. b = a
    BY <1>2 DEF CanRound
  <2> QED
    BY <1>2, <2>1 DEF Complete
<1>3. CASE Len(a.media) # MaxMedia /\ name = ""
  <2>1. b = a
    BY <1>3 DEF CanRound
  <2> QED
    BY <1>3, <2>1
<1>4. CASE Len(a.media) # MaxMedia /\ name # ""
  <2>1. PICK made : made = CanMediaMake(a.table, name, bad)
    OBVIOUS
  <2>2. b = [table |-> made.table, media |-> a.media \o made.media]
    BY <1>4, <2>1 DEF CanRound
  <2>3. b.table = made.table /\ b.media = a.media \o made.media
    BY <2>2
  <2>4. /\ ~Works(name, bad) => made.media = <<>>
        /\ (Works(name, bad) /\ ~(Cardinality(FreeFds(a.table)) < 2)) => made.media # <<>>
    BY <1>1, <2>1, CanMadeOrNot
  <2>5. \/ made.table = a.table /\ made.media = <<>>
        \/ \E rx, tx \in Fds : CanMade(a.table, name, made, rx, tx)
    BY <1>1, <2>1, CanMediaMakeOpens
  <2>6. made.media = <<>> => b.media = a.media
    BY <1>1, <2>3
  <2>7. \A rx, tx \in Fds : CanMade(a.table, name, made, rx, tx) =>
          Len(b.media) = Len(a.media) + 1 /\ FreeFds(made.table) \subseteq FreeFds(a.table)
    <3> TAKE rx \in Fds, tx \in Fds
    <3> HAVE CanMade(a.table, name, made, rx, tx)
    <3>1. made.media = <<Medium(name, {rx}, {tx})>>
      BY DEF CanMade
    <3>2. Medium(name, {rx}, {tx}) \in MediaRecords
      BY DEF Medium, MediaRecords
    <3>3. Len(b.media) = Len(a.media) + 1
      BY <1>1, <2>3, <3>1, <3>2
    <3>4. FreeFds(made.table) \subseteq FreeFds(a.table)
      BY DEF CanMade, FreeFds
    <3> QED
      BY <3>3, <3>4
  <2>8. FreeFds(made.table) \subseteq FreeFds(a.table)
    BY <2>5, <2>7
  <2>9. Cardinality(FreeFds(a.table)) < 2 => Cardinality(FreeFds(b.table)) < 2
    <3>1. Cardinality(FreeFds(made.table)) <= Cardinality(FreeFds(a.table))
      BY <2>8, FreeFdsFinite, FS_Subset
    <3>2. Cardinality(FreeFds(made.table)) \in Nat /\ Cardinality(FreeFds(a.table)) \in Nat
      BY FreeFdsFinite
    <3> QED
      BY <2>3, <3>1, <3>2
  <2>10. made.media # <<>> => Len(b.media) = Len(a.media) + 1
    BY <2>5, <2>7
  <2>11. CASE Cardinality(FreeFds(a.table)) < 2
    BY <2>9, <2>11 DEF Complete
  <2>12. CASE ~(Cardinality(FreeFds(a.table)) < 2)
    <3>1. Len(a.media) = c
      BY <1>4, <2>12 DEF Complete
    <3>2. CASE Works(name, bad)
      <4>1. Len(b.media) = c + 1
        BY <2>4, <2>10, <2>12, <3>1, <3>2
      <4> QED
        BY <1>4, <3>2, <4>1 DEF Complete
    <3>3. CASE ~Works(name, bad)
      <4>1. Len(b.media) = c
        BY <2>4, <2>6, <3>1, <3>3
      <4> QED
        BY <3>3, <4>1 DEF Complete
    <3> QED
      BY <3>2, <3>3
  <2> QED
    BY <2>11, <2>12
<1> QED
  BY <1>2, <1>3, <1>4

(* Counting the places up to k of those in a set.                          *)
LEMMA CountOneMore ==
  ASSUME NEW n \in Nat, NEW P \in SUBSET (1..n), NEW k \in 0..(n - 1)
  PROVE  /\ Cardinality(UpTo(P, k)) \in Nat
         /\ Cardinality(UpTo(P, k + 1)) =
              IF k + 1 \in P THEN Cardinality(UpTo(P, k)) + 1 ELSE Cardinality(UpTo(P, k))
<1>1. IsFiniteSet(1..n)
  BY FS_Interval
<1>2. UpTo(P, k) \in SUBSET (1..n)
  BY DEF UpTo
<1>3. IsFiniteSet(UpTo(P, k))
  BY <1>1, <1>2, FS_Subset
<1>4. Cardinality(UpTo(P, k)) \in Nat
  BY <1>3, FS_CardinalityType
<1>5. \A j \in P : j <= k + 1 <=> j <= k \/ j = k + 1
  OBVIOUS
<1>6. k + 1 \notin UpTo(P, k)
  BY DEF UpTo
<1>7. CASE k + 1 \in P
  <2>1. UpTo(P, k + 1) = UpTo(P, k) \cup {k + 1}
    BY <1>5, <1>7 DEF UpTo
  <2>2. Cardinality(UpTo(P, k) \cup {k + 1}) = Cardinality(UpTo(P, k)) + 1
    BY <1>3, <1>6, FS_AddElement
  <2> QED
    BY <1>4, <1>7, <2>1, <2>2
<1>8. CASE k + 1 \notin P
  <2>1. UpTo(P, k + 1) = UpTo(P, k)
    BY <1>5, <1>8 DEF UpTo
  <2> QED
    BY <1>4, <1>8, <2>1
<1> QED
  BY <1>7, <1>8

LEMMA CountFromTo ==
  ASSUME NEW n \in Nat, NEW P \in SUBSET (1..n)
  PROVE  Cardinality(UpTo(P, 0)) = 0 /\ UpTo(P, n) = P
<1>0. \A j \in P : j \in Int /\ 1 <= j /\ j <= n /\ ~(j <= 0)
  OBVIOUS
<1>1. UpTo(P, 0) = {}
  BY <1>0 DEF UpTo
<1>2. UpTo(P, n) = P
  BY <1>0 DEF UpTo
<1> QED
  BY <1>1, <1>2, FS_EmptySet

LEMMA CanParseComplete ==
  ASSUME NEW names \in Seq(STRING), NEW bad \in SUBSET (Devices \X {"canrx", "cantx"}),
         table \in Tables, Holds(table, <<>>)
  PROVE  /\ Complete(CanParse(names, bad), Cardinality(Working(names, bad)))
         /\ FirstOf(CanParse(names, bad).media, names, Working(names, bad))
<1> DEFINE n == Len(names)
           P == Working(names, bad)
           C(k) == Cardinality(UpTo(P, k))
<1>1. n \in Nat /\ DOMAIN names = 1..n /\ \A k \in 1..n : names[k] \in STRING
  OBVIOUS
<1>2. P \in SUBSET (1..n)
  BY <1>1 DEF Working, Named
<1>3. \A k \in 1..n : k \in P <=> names[k] # "" /\ Works(names[k], bad)
  <2> TAKE k \in 1..n
  <2>1. (\A b \in bad : b[1] # names[k]) <=>
          <<names[k], "canrx">> \notin bad /\ <<names[k], "cantx">> \notin bad
    <3>1. \A b \in bad : b = <<b[1], b[2]>> /\ b[2] \in {"canrx", "cantx"}
      OBVIOUS
    <3>2. ASSUME NEW b \in bad, b[1] = names[k]
          PROVE  <<names[k], "canrx">> \in bad \/ <<names[k], "cantx">> \in bad
      BY <3>1, <3>2
    <3>3. \A x : <<names[k], x>>[1] = names[k]
      OBVIOUS
    <3> QED
      BY <3>2, <3>3
  <2> QED
    BY <1>1, <2>1 DEF Working, Named, Works
<1> HIDE DEF P
<1>4. PICK g : CanRounds(g, names, bad) /\ CanParse(names, bad) = g[n]
  BY CanParseRounds
<1>5. /\ g[0] = [table |-> table, media |-> <<>>]
      /\ \A k \in 0..n : g[k] \in CanParsed
      /\ \A k \in 1..n : CanRound(g[k - 1], g[k], names[k], bad)
  BY <1>4 DEF CanRounds
<1>6. C(0) = 0 /\ UpTo(P, n) = P
  BY <1>1, <1>2, CountFromTo
<1> DEFINE S == {k \in 0..n : Complete(g[k], C(k)) /\ FirstOf(g[k].media, names, P)}
<1>7. 0 \in S
  <2>1. Len(g[0].media) = 0
    BY <1>5
  <2>2. Complete(g[0], C(0))
    BY <1>6, <2>1 DEF Complete
  <2>3. g[0].media = <<>> /\ DOMAIN <<>> = {}
    BY <1>5
  <2>4. FirstOf(g[0].media, names, P)
    BY <2>3 DEF FirstOf
  <2> QED
    BY <1>1, <2>2, <2>4
<1>8. ASSUME NEW k \in 0..(n - 1), k \in S
      PROVE  k + 1 \in S
  <2>1. k + 1 \in 1..n /\ k + 1 \in 0..n /\ k \in 0..n /\ (k + 1) - 1 = k
    BY <1>1
  <2>2. /\ C(k) \in Nat
        /\ C(k + 1) = IF k + 1 \in P THEN C(k) + 1 ELSE C(k)
    BY <1>1, <1>2, CountOneMore
  <2>3. /\ g[k] \in CanParsed /\ names[k + 1] \in STRING
        /\ CanRound(g[k], g[k + 1], names[k + 1], bad) /\ Complete(g[k], C(k))
        /\ FirstOf(g[k].media, names, P)
    BY <1>1, <1>5, <1>8, <2>1
  <2>10. Cardinality(UpTo(P, k + 1)) = C(k + 1)
    OBVIOUS
  <2> HIDE DEF C
  <2>4. IF names[k + 1] # "" /\ Works(names[k + 1], bad)
          THEN Complete(g[k + 1], C(k) + 1) ELSE Complete(g[k + 1], C(k))
    <3>0. PICK b : b = g[k + 1]
      OBVIOUS
    <3>1. PICK a \in CanParsed, name \in STRING, c \in Nat :
            a = g[k] /\ b = g[k + 1] /\ name = names[k + 1] /\ c = C(k)
      BY <2>2, <2>3, <3>0
    <3>2. CanRound(a, b, name, bad) /\ Complete(a, c)
      BY <2>3, <3>1
    <3>3. IF name # "" /\ Works(name, bad) THEN Complete(b, c + 1) ELSE Complete(b, c)
      BY <3>2, CanRoundComplete
    <3> QED
      BY <3>1, <3>3
  <2>5. Complete(g[k + 1], C(k + 1))
    BY <1>3, <2>1, <2>2, <2>4
  <2>6. FirstOf(g[k + 1].media, names, P)
    <3>1. PICK m \in Seq(MediaRecords) : m = g[k].media
      BY <2>3 DEF CanParsed, MediaLists
    <3>2. CASE g[k + 1].media = m
      BY <2>3, <3>1, <3>2
    <3>3. CASE g[k + 1].media # m
      <4>1. /\ names[k + 1] # "" /\ Works(names[k + 1], bad)
            /\ Len(g[k].media) # MaxMedia /\ ~(Cardinality(FreeFds(g[k].table)) < 2)
            /\ \E r \in MediaRecords : r.dev = names[k + 1] /\ g[k + 1].media = Append(m, r)
        <5>1. PICK a \in CanParsed, name \in STRING, b \in {g[k + 1]} :
                a = g[k] /\ b = g[k + 1] /\ name = names[k + 1]
          BY <2>3
        <5>2. CanRound(a, b, name, bad) /\ b.media # a.media /\ a.media = m
          BY <2>3, <3>1, <3>3, <5>1
        <5>3. Adds(a, b, name, bad)
          BY <5>2, CanRoundAdds
        <5>4. names[k + 1] # "" /\ Works(names[k + 1], bad)
          BY <5>1, <5>3 DEF Adds
        <5>5. Len(g[k].media) # MaxMedia /\ ~(Cardinality(FreeFds(g[k].table)) < 2)
          BY <5>1, <5>3 DEF Adds
        <5>6. \E r \in MediaRecords : r.dev = names[k + 1] /\ g[k + 1].media = Append(m, r)
          BY <5>1, <5>2, <5>3 DEF Adds
        <5> QED
          BY <5>4, <5>5, <5>6
      <4>2. PICK r \in MediaRecords : r.dev = names[k + 1] /\ g[k + 1].media = Append(m, r)
        BY <4>1
      <4>3. k + 1 \in P
        BY <1>3, <2>1, <4>1
      <4>4. Len(m) = C(k)
        BY <2>3, <3>1, <4>1 DEF Complete
      <4>5. Cardinality(UpTo(P, k + 1)) = Len(m) + 1
        BY <2>2, <2>10, <4>3, <4>4
      <4>6. FirstOf(m, names, P)
        BY <2>3, <3>1
      <4> QED
        BY <4>2, <4>3, <4>5, <4>6, NextOfThem
    <3> QED
      BY <3>2, <3>3
  <2> QED
    BY <2>1, <2>5, <2>6
<1> HIDE DEF S, C
<1>9. n \in S
  BY <1>1, <1>7, <1>8, RoundByRound
<1> QED
  BY <1>4, <1>6, <1>9 DEF S, C, P

LEMMA UdpParseComplete ==
  ASSUME NEW names \in Seq(STRING)
  PROVE  /\ \/ Len(UdpParse(names).media) = MaxMedia
            \/ Len(UdpParse(names).media) = Cardinality(Named(names))
         /\ FirstOf(UdpParse(names).media, names, Named(names))
<1> DEFINE n == Len(names)
           P == Named(names)
           C(k) == Cardinality(UpTo(P, k))
<1>1. n \in Nat /\ DOMAIN names = 1..n
  OBVIOUS
<1>2. P \in SUBSET (1..n) /\ \A k \in 1..n : k \in P <=> names[k] # ""
  BY <1>1 DEF Named
<1> HIDE DEF P
<1>3. PICK g : UdpRounds(g, names) /\ UdpParse(names) = [table |-> table, media |-> g[n]]
  BY UdpParseRounds
<1>4. /\ g[0] = <<>>
      /\ \A k \in 0..n : g[k] \in UdpParsed
      /\ \A k \in 1..n : g[k] = IF Len(g[k - 1]) = MaxMedia \/ names[k] = "" THEN g[k - 1]
                                ELSE Append(g[k - 1], Medium(names[k], {}, {}))
  BY <1>3 DEF UdpRounds
<1>5. C(0) = 0 /\ UpTo(P, n) = P
  BY <1>1, <1>2, CountFromTo
<1> DEFINE S == {k \in 0..n : (Len(g[k]) = MaxMedia \/ Len(g[k]) = C(k)) /\ FirstOf(g[k], names, P)}
<1>6. 0 \in S
  <2>1. Len(g[0]) = C(0)
    BY <1>4, <1>5
  <2>2. g[0] = <<>> /\ DOMAIN <<>> = {}
    <3>1. g[0] = <<>>
      BY <1>4
    <3>2. DOMAIN <<>> = {}
      OBVIOUS
    <3> QED
      BY <3>1, <3>2
  <2>3. FirstOf(g[0], names, P)
    BY <2>2 DEF FirstOf
  <2> HIDE DEF C
  <2> QED
    BY <1>1, <2>1, <2>3
<1>7. ASSUME NEW k \in 0..(n - 1), k \in S
      PROVE  k + 1 \in S
  <2>1. k + 1 \in 1..n /\ k + 1 \in 0..n /\ k \in 0..n /\ (k + 1) - 1 = k
    BY <1>1
  <2>2. /\ C(k) \in Nat
        /\ C(k + 1) = IF k + 1 \in P THEN C(k) + 1 ELSE C(k)
    BY <1>1, <1>2, CountOneMore
  <2>9. Cardinality(UpTo(P, k + 1)) = C(k + 1)
    OBVIOUS
  <2> HIDE DEF C
  <2>3. PICK m : m = g[k]
    OBVIOUS
  <2>4. /\ m \in Seq(MediaRecords)
        /\ Len(m) = MaxMedia \/ Len(m) = C(k)
        /\ FirstOf(m, names, P)
    <3>1. m \in UdpParsed
      BY <1>4, <2>1, <2>3
    <3> QED
      BY <1>7, <2>3, <3>1 DEF UdpParsed, MediaLists
  <2>5. g[k + 1] = IF Len(m) = MaxMedia \/ names[k + 1] = "" THEN m
                   ELSE Append(m, Medium(names[k + 1], {}, {}))
    BY <1>4, <2>1, <2>3
  <2>6. Len(Append(m, Medium(names[k + 1], {}, {}))) = Len(m) + 1
    <3>1. Medium(names[k + 1], {}, {}) \in MediaRecords
      BY <1>1, <2>1 DEF Medium, MediaRecords
    <3> QED
      BY <2>4, <3>1
  <2>7. Len(g[k + 1]) = MaxMedia \/ Len(g[k + 1]) = C(k + 1)
    BY <1>2, <2>1, <2>2, <2>4, <2>5, <2>6
  <2>8. FirstOf(g[k + 1], names, P)
    <3>1. CASE Len(m) = MaxMedia \/ names[k + 1] = ""
      BY <2>4, <2>5, <3>1
    <3>2. CASE ~(Len(m) = MaxMedia \/ names[k + 1] = "")
      <4>1. PICK r \in MediaRecords : r = Medium(names[k + 1], {}, {}) /\ r.dev = names[k + 1]
        <5>1. names[k + 1] \in STRING
          BY <1>1, <2>1
        <5>2. PICK name \in STRING : name = names[k + 1]
          BY <5>1
        <5>3. Medium(name, {}, {}) \in MediaRecords /\ Medium(name, {}, {}).dev = name
          BY DEF Medium, MediaRecords
        <5> QED
          BY <5>2, <5>3
      <4>2. g[k + 1] = Append(m, r)
        BY <2>5, <3>2, <4>1
      <4>3. k + 1 \in P
        BY <1>2, <2>1, <3>2
      <4>4. Cardinality(UpTo(P, k + 1)) = Len(m) + 1
        BY <2>2, <2>4, <2>9, <3>2, <4>3
      <4> QED
        BY <2>4, <4>1, <4>2, <4>3, <4>4, NextOfThem
    <3> QED
      BY <3>1, <3>2
  <2> QED
    BY <2>1, <2>7, <2>8
<1> HIDE DEF S, C
<1>8. n \in S
  BY <1>1, <1>6, <1>7, RoundByRound
<1>9. UdpParse(names).media = g[n]
  BY <1>3
<1> QED
  BY <1>5, <1>8, <1>9 DEF S, C, P

LEMMA InitTransportUses ==
  ASSUME MediaInv, InitTransport
  PROVE  LET names == Addresses(IF bag'.kind = "udp" THEN "udp://" ELSE "socketcan:")
             places == IF bag'.kind = "udp" THEN Named(names) ELSE Working(names, bag'.bad)
         IN  /\ FirstOf(bag'.media, names, places)
             /\ \/ Len(bag'.media) = MaxMedia
                \/ Len(bag'.media) = Cardinality(places)
                \/ bag'.kind = "can" /\ Cardinality(FreeFds(table')) < 2
<1>1. PICK bad \in SocketFaults({"canrx", "cantx"}), udpFactory \in BOOLEAN, canFactory \in BOOLEAN :
        LET udp == UdpTransportBag(udpFactory)
            can == CanTransportBag(bad, canFactory)
            made == IF udp.bag # NoBag THEN udp ELSE can
        IN  made.bag # NoBag /\ bag' = made.bag /\ table' = made.table
  BY DEF InitTransport, Chances
<1>2. /\ bag = NoBag /\ table \in Tables /\ list \in Seq([prefix : STRING, addresses : Seq(STRING)])
      /\ Holds(table, <<>>)
  BY DEF InitTransport, MediaInv, NoBag
<1>3. Addresses("udp://") \in Seq(STRING) /\ Addresses("socketcan:") \in Seq(STRING)
  BY <1>2, AddressesAreStrings
<1>4. bad \in SUBSET (Devices \X {"canrx", "cantx"})
  BY <1>1 DEF SocketFaults, Configured
<1> DEFINE udp == UdpTransportBag(udpFactory)
           can == CanTransportBag(bad, canFactory)
           up == UdpParse(Addresses("udp://"))
           cp == CanParse(Addresses("socketcan:"), bad)
<1>5. udp = MakeBag("udp", up, {}, udpFactory) /\ can = MakeBag("can", cp, bad, canFactory)
  BY DEF UdpTransportBag, CanTransportBag
<1>6. /\ Len(up.media) = MaxMedia \/ Len(up.media) = Cardinality(Named(Addresses("udp://")))
      /\ FirstOf(up.media, Addresses("udp://"), Named(Addresses("udp://")))
  BY <1>3, UdpParseComplete
<1>7. /\ Complete(cp, Cardinality(Working(Addresses("socketcan:"), bad)))
      /\ FirstOf(cp.media, Addresses("socketcan:"), Working(Addresses("socketcan:"), bad))
  BY <1>2, <1>3, <1>4, CanParseComplete
<1>8. CASE udp.bag # NoBag
  <2>1. bag' = udp.bag /\ table' = udp.table
    BY <1>1, <1>8
  <2> HIDE DEF udp, can, up, cp
  <2>2. udp.bag = [kind |-> "udp", media |-> up.media, bad |-> {}]
    BY <1>5, <1>8, MakeBagMakes
  <2>3. bag'.media = up.media /\ bag'.kind = "udp"
    BY <2>1, <2>2
  <2> QED
    BY <1>6, <2>3
<1>9. CASE udp.bag = NoBag
  <2>1. bag' = can.bag /\ table' = can.table /\ can.bag # NoBag
    BY <1>1, <1>9
  <2> HIDE DEF udp, can, up, cp
  <2>2. can.table = cp.table /\ can.bag = [kind |-> "can", media |-> cp.media, bad |-> bad]
    BY <1>5, <2>1, MakeBagMakes
  <2>3. table' = cp.table /\ bag'.media = cp.media /\ bag'.kind = "can" /\ bag'.bad = bad
    BY <2>1, <2>2
  <2> QED
    BY <1>7, <2>3 DEF Complete
<1> QED
  BY <1>8, <1>9

---------------------------------------------------------------------------
(* The theorems.                                                           *)

LEMMA Inductive ==
  ASSUME MediaInv, [Next]_vars
  PROVE  MediaInv'
<1>1. CASE InitTransport
  BY <1>1, InitTransportKeeps
<1>2. CASE Shutdown
  BY <1>2, ShutdownKeeps
<1>3. CASE Send
  BY <1>3, SendKeeps
<1>4. CASE \E p \in Ports : Subscribe(p) \/ Unsubscribe(p)
  BY <1>4, SubscribeKeeps, UnsubscribeKeeps
<1>5. CASE \E i \in Slots : Push(i) \/ SendTo(i) \/ PushCallback(i)
  BY <1>5, PushKeeps, SendToKeeps, PushCallbackKeeps
<1>6. CASE \E fd \in Fds : DeviceSends(fd) \/ Pop(fd) \/ Receive(fd)
  BY <1>6, DeviceSendsKeeps, PopKeeps, ReceiveKeeps
<1>7. CASE \E dev \in Devices, p \in Ports : Arrive(dev, p)
  BY <1>7, ArriveKeeps
<1>8. CASE \E dev \in Devices, state \in {"up", "down", "gone"} : SetLink(dev, state)
  BY <1>8, SetLinkKeeps
<1>9. CASE UNCHANGED vars
  <2>1. SameSockets(table')
    BY <1>9 DEF vars, MediaInv, SameSockets
  <2> QED
    BY <1>9, <2>1, OnlySockets DEF vars
<1> QED
  BY <1>1, <1>2, <1>3, <1>4, <1>5, <1>6, <1>7, <1>8, <1>9 DEF Next

LEMMA OwnedFollows ==
  ASSUME MediaInv
  PROVE  SocketsOwned
<1>1. Holds(table, bag.media) /\ (bag = NoBag \/ bag \in TransportBags)
  BY DEF MediaInv
<1>2. \A i \in DOMAIN bag.media : bag.media[i].rx \subseteq Fds /\ bag.media[i].tx \subseteq Fds
  <2>1. \A i \in DOMAIN bag.media : bag.media[i] \in MediaRecords
    BY <1>1 DEF NoBag, TransportBags, MediaLists
  <2> QED
    BY <2>1 DEF MediaRecords
<1>3. OwnedBy(bag) = Fds \ FreeFds(table)
  <2>1. ASSUME NEW fd \in OwnedBy(bag)
        PROVE  fd \in Fds /\ table[fd].kind # "free"
    <3>1. PICK i \in DOMAIN bag.media : fd \in bag.media[i].rx \cup bag.media[i].tx
      BY DEF OwnedBy
    <3>2. table[fd].kind \in RxKinds \cup TxKinds
      BY <1>1, <3>1 DEF Holds
    <3> QED
      BY <1>2, <3>1, <3>2 DEF RxKinds, TxKinds
  <2>2. ASSUME NEW fd \in Fds, table[fd].kind # "free"
        PROVE  fd \in OwnedBy(bag)
    BY <1>1, <2>2 DEF Holds, OwnedBy
  <2> QED
    BY <2>1, <2>2 DEF FreeFds
<1>4. \A i \in Interfaces : bag.media[i].rx \cap bag.media[i].tx = {}
  BY <1>1 DEF Holds, RxKinds, TxKinds, Interfaces
<1> QED
  BY <1>1, <1>3, <1>4 DEF SocketsOwned, Holds, Interfaces

LEMMA LossFollows ==
  ASSUME MediaInv
  PROVE  LostOnlyIfEveryInterfaceFailed
BY DEF MediaInv, Accounted, LostOnlyIfEveryInterfaceFailed

(* No descriptor of a socket is lost and none is held by two owners,       *)
(* however many interfaces are configured and descriptors left, and        *)
(* whichever call of the two drivers fails.                                *)
THEOREM DescriptorsAlwaysOwned == Spec => []SocketsOwned
<1>1. Init => MediaInv
  BY InitHolds
<1>2. MediaInv /\ [Next]_vars => MediaInv'
  BY Inductive
<1>3. MediaInv => SocketsOwned
  BY OwnedFollows
<1> QED
  BY <1>1, <1>2, <1>3, PTL DEF Spec

(* With any number of transfers, a transfer is lost only when every        *)
(* interface failed to send it.                                            *)
THEOREM OneWorkingInterfaceIsEnough == Spec => []LostOnlyIfEveryInterfaceFailed
<1>1. Init => MediaInv
  BY InitHolds
<1>2. MediaInv /\ [Next]_vars => MediaInv'
  BY Inductive
<1>3. MediaInv => LostOnlyIfEveryInterfaceFailed
  BY LossFollows
<1> QED
  BY <1>1, <1>2, <1>3, PTL DEF Spec

(* For any number of ports and of filters of the kernel, any order of      *)
(* subscriptions and any failures of ::setsockopt, an interface filters    *)
(* out a subscribed port only if it refused the last filters itself.       *)
THEOREM FiltersFollowSubscriptions == Spec => []SubscribedPortsPass
<1>1. Init => MediaInv
  BY InitHolds
<1>2. MediaInv /\ [Next]_vars => MediaInv'
  BY Inductive
<1>3. MediaInv => SubscribedPortsPass
  BY DEF MediaInv
<1> QED
  BY <1>1, <1>2, <1>3, PTL DEF Spec

(* For any configuration and any devices, a CAN transport is brought up    *)
(* with the first configured interfaces that work, as far as there are     *)
(* places and descriptors, whichever ones before them could not be opened, *)
(* and a UDP transport with the first that have an address.                *)
THEOREM InterfacesThatWorkAreUsed == Spec => WorkingInterfacesUsed
<1>1. Init => MediaInv
  BY InitHolds
<1>2. MediaInv /\ [Next]_vars => MediaInv'
  BY Inductive
<1>3. ASSUME MediaInv, [Next]_vars
      PROVE  [InitTransport =>
                LET names == Addresses(IF bag'.kind = "udp" THEN "udp://" ELSE "socketcan:")
                    places == IF bag'.kind = "udp" THEN Named(names)
                              ELSE Working(names, bag'.bad)
                IN  /\ FirstOf(bag'.media, names, places)
                    /\ \/ Len(bag'.media) = MaxMedia
                       \/ Len(bag'.media) = Cardinality(places)
                       \/ bag'.kind = "can" /\ Cardinality(FreeFds(table')) < 2]_vars
  BY <1>3, InitTransportUses
<1> QED
  BY <1>1, <1>2, <1>3, PTL DEF Spec, WorkingInterfacesUsed

=============================================================================
