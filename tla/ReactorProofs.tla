--------------------------- MODULE ReactorProofs ---------------------------
(***************************************************************************)
(* Proofs about the event loop, for both platforms, any number of          *)
(* connections and descriptors, any number of events per wait, and any     *)
(* failures.                                                               *)
(***************************************************************************)
EXTENDS Reactor, SequenceTheorems, FiniteSetTheorems, WellFoundedInduction, TLAPS

---------------------------------------------------------------------------
(* Loops.  A loop is a function f with what there is after k rounds as     *)
(* f[k].                                                                   *)

(* A set of natural numbers that is not empty has a least element.         *)
LEMMA LeastNatural ==
  ASSUME NEW T, T \subseteq Nat, T # {}
  PROVE  Min(T) \in T /\ \A k \in T : Min(T) <= k
<1> DEFINE R == {ss \in Nat \X Nat : ss[1] < ss[2]}
<1>1. IsWellFoundedOn(R, Nat)
  BY NatLessThanWellFounded DEF OpToRel
<1>2. \A x, y \in Nat : (<<y, x>> \in R) <=> y < x
  OBVIOUS
<1> HIDE DEF R
<1>3. PICK x \in T : \A y \in T : ~ (<<y, x>> \in R)
  BY <1>1, WFMin
<1>4. \A k \in T : x <= k
  <2> TAKE k \in T
  <2>1. x \in Nat /\ k \in Nat
    OBVIOUS
  <2>2. ~(k < x)
    BY <1>3, <1>2, <2>1
  <2> QED
    BY <2>1, <2>2
<1> QED
  BY <1>4 DEF Min

(* What holds at first and after every round holds at the end.             *)
LEMMA RoundByRound ==
  ASSUME NEW n \in Nat, NEW S, 0 \in S, \A k \in 0..(n - 1) : k \in S => k + 1 \in S
  PROVE  n \in S
<1> DEFINE T == {k \in Nat : k <= n /\ k \notin S}
<1> SUFFICES ASSUME T # {}
             PROVE  FALSE
  OBVIOUS
<1>1. Min(T) \in T /\ \A k \in T : Min(T) <= k
  BY LeastNatural
<1>2. PICK m \in T : \A k \in T : m <= k
  BY <1>1
<1>3. m \in Nat /\ m <= n /\ m \notin S /\ m # 0
  BY <1>2
<1>4. m - 1 \in 0..(n - 1) /\ m - 1 \in Nat /\ (m - 1) + 1 = m /\ m - 1 <= n /\ ~(m <= m - 1)
  BY <1>3
<1>5. m - 1 \in S
  BY <1>2, <1>4
<1> QED
  BY <1>3, <1>4, <1>5

(* A loop whose rounds stay in A is there, and stays in A.                 *)
Loops(n, A, a0, step) ==
  {f \in [0..n -> A] : f[0] = a0 /\ \A k \in 1..n : f[k] = step[<<k, f[k - 1]>>]}

LEMMA LoopExists ==
  ASSUME NEW n \in Nat, NEW A, NEW a0 \in A, NEW step \in [(1..n) \X A -> A]
  PROVE  \E f : f \in Loops(n, A, a0, step)
<1> DEFINE IsLoop(f, m) == /\ f \in [0..m -> A] /\ f[0] = a0
                           /\ \A k \in 1..m : f[k] = step[<<k, f[k - 1]>>]
           S == {m \in 0..n : \E f : IsLoop(f, m)}
<1>1. 0 \in S
  <2> DEFINE f == [k \in 0..0 |-> a0]
  <2>1. f \in [0..0 -> A] /\ f[0] = a0 /\ 1..0 = {}
    OBVIOUS
  <2> HIDE DEF f
  <2>2. IsLoop(f, 0)
    BY <2>1
  <2>3. 0 \in 0..n
    OBVIOUS
  <2> QED
    BY <2>2, <2>3, Zenon
<1>2. ASSUME NEW m \in 0..(n - 1), m \in S
      PROVE  m + 1 \in S
  <2>1. PICK f : IsLoop(f, m)
    BY <1>2
  <2> DEFINE g == [k \in 0..(m + 1) |-> IF k = m + 1 THEN step[<<m + 1, f[m]>>] ELSE f[k]]
  <2>2. m \in Nat /\ m \in 0..m /\ m + 1 \in 1..n /\ m + 1 \in 0..n
    BY <1>2
  <2>3. f[m] \in A
    BY <2>1, <2>2
  <2>4. step[<<m + 1, f[m]>>] \in A
    BY <2>2, <2>3
  <2>5. g \in [0..(m + 1) -> A]
    BY <2>1, <2>2, <2>4
  <2>6. g[0] = a0
    BY <2>1, <2>2
  <2>7. ASSUME NEW k \in 1..(m + 1)
        PROVE  g[k] = step[<<k, g[k - 1]>>]
    <3>1. CASE k = m + 1
      <4>1. k - 1 = m /\ m # m + 1 /\ m \in 0..(m + 1) /\ m + 1 \in 0..(m + 1)
        BY <3>1, <2>2
      <4>2. g[m + 1] = step[<<m + 1, f[m]>>] /\ g[m] = f[m]
        BY <4>1
      <4> QED
        BY <3>1, <4>1, <4>2
    <3>2. CASE k # m + 1
      <4>1. k \in 1..m /\ k \in 0..(m + 1) /\ k - 1 \in 0..(m + 1) /\ k - 1 # m + 1
        BY <3>2, <2>2
      <4> QED
        BY <2>1, <3>2, <4>1
    <3> QED
      BY <3>1, <3>2
  <2>8. IsLoop(g, m + 1)
    BY <2>5, <2>6, <2>7
  <2> QED
    BY <2>2, <2>8
<1> HIDE DEF S
<1>3. n \in S
  BY <1>1, <1>2, RoundByRound
<1> QED
  BY <1>3 DEF S, Loops

LEMMA LoopStays ==
  ASSUME NEW n \in Nat, NEW A, NEW a0 \in A, NEW step \in [(1..n) \X A -> A],
         NEW g, g[0] = a0, \A k \in 1..n : g[k - 1] \in A => g[k] = step[<<k, g[k - 1]>>]
  PROVE  g[n] \in A
<1> DEFINE S == {k \in 0..n : g[k] \in A}
<1>1. 0 \in S
  OBVIOUS
<1>2. ASSUME NEW k \in 0..(n - 1), k \in S
      PROVE  k + 1 \in S
  <2>1. k + 1 \in 0..n /\ k + 1 \in 1..n /\ (k + 1) - 1 = k /\ g[k] \in A
    BY <1>2
  <2>2. g[k + 1] = step[<<k + 1, g[k]>>]
    BY <2>1
  <2> QED
    BY <2>1, <2>2
<1> HIDE DEF S
<1>3. n \in S
  BY <1>1, <1>2, RoundByRound
<1> QED
  BY <1>3 DEF S

---------------------------------------------------------------------------
(* What an executor can be.                                                *)

Keys == Fds \X Int
Interests == [fd : Fds, events : Int, ptr : Names \X {"temp", "owned"}]
Executors ==
  [platform : {"epoll", "kqueue"}, node : [Names -> [fd : Fds \cup {-1}, events : Int]],
   total : Int, interest : SUBSET Interests, active : Seq(Keys), due : Seq(Names)]

(* The names with a node.                                                  *)
Live(e) == {n \in Names : e.node[n].fd # -1}

(* The interest of a node that is where its owner keeps it.                *)
InterestOf(e, n) == [fd |-> e.node[n].fd, events |-> e.node[n].events, ptr |-> Owned(n)]

(* The executor e is right for the table t of descriptors.                 *)
Sound(e, t) ==
  /\ e \in Executors
  /\ e.interest = {InterestOf(e, n) : n \in Live(e)}
  /\ \A n \in Live(e) : t[e.node[n].fd] = SocketOf(n)
  /\ IsFiniteSet(Live(e)) /\ e.total = Cardinality(Live(e))
  /\ e.due \in Seq(Live(e))

(* A socket has one descriptor.                                            *)
Distinct(t) ==
  /\ t \in [Fds -> Sockets \cup {"free"}]
  /\ \A f, g \in Fds : t[f] = t[g] => f = g \/ t[f] = "free"

(* The daemon's own sockets are open.                                      *)
OwnOpen(t) == t[CanRxFd] = "canrx" /\ t[CanTxFd] = "cantx" /\ t[ServerFd] = "listen"

(* A connection waits in the backlog b once, and is not accepted yet.      *)
QueuedOnce(b, t) ==
  /\ b \in Seq(Conns)
  /\ \A i, j \in DOMAIN b : b[i] = b[j] => i = j
  /\ \A i \in DOMAIN b : \A fd \in Fds : t[fd] # b[i]

ReactorInv ==
  /\ Sound(ex, fds)
  /\ Distinct(fds)
  /\ running => OwnOpen(fds)
  /\ QueuedOnce(backlog, fds)
  /\ txq \in Nat /\ (txq = 0 => "push" \notin Live(ex))
  /\ ~running => Live(ex) = {}

---------------------------------------------------------------------------
(* The sequences.                                                          *)

LEMMA KeepKeeps ==
  ASSUME NEW T, NEW s \in Seq(T), NEW K
  PROVE  Keep(s, K) \in Seq(T \cap K)
<1> DEFINE n == Len(s)
           A == Seq(T \cap K)
           Step(k, a) == IF s[k] \in K THEN Append(a, s[k]) ELSE a
           g == CHOOSE f : f = [k \in 0..n |-> IF k = 0 THEN <<>>
                                               ELSE IF s[k] \in K THEN Append(f[k - 1], s[k])
                                               ELSE f[k - 1]]
<1>1. Keep(s, K) = g[n]
  BY DEF Keep
<1>2. n \in Nat /\ \A k \in 1..n : s[k] \in T
  OBVIOUS
<1>3. <<>> \in A /\ \A k \in 1..n, a \in A : Step(k, a) \in A
  <2>1. ASSUME NEW k \in 1..n, NEW a \in A
        PROVE  Step(k, a) \in A
    <3>1. s[k] \in T
      BY <1>2
    <3>2. s[k] \in K => Append(a, s[k]) \in A
      BY <3>1
    <3> QED
      BY <3>2
  <2> QED
    BY <2>1
<1> DEFINE step == [x \in (1..n) \X A |-> Step(x[1], x[2])]
<1> HIDE DEF Step, A, n
<1>4. step \in [(1..n) \X A -> A]
  BY <1>3
<1>5. \A k \in 1..n, a \in A : step[<<k, a>>] = Step(k, a)
  OBVIOUS
<1> HIDE DEF step
<1>6. PICK f : f \in Loops(n, A, <<>>, step)
  BY <1>2, <1>3, <1>4, LoopExists, Zenon
<1>7. f = [k \in 0..n |-> IF k = 0 THEN <<>> ELSE Step(k, f[k - 1])]
  <2>1. f \in [0..n -> A] /\ f[0] = <<>>
    BY <1>6 DEF Loops
  <2>2. ASSUME NEW k \in 0..n, k # 0
        PROVE  f[k] = Step(k, f[k - 1])
    <3>1. k \in 1..n /\ k - 1 \in 0..n
      BY <1>2, <2>2
    <3> QED
      BY <1>5, <1>6, <2>1, <3>1 DEF Loops
  <2> QED
    BY <2>1, <2>2
<1>8. g = [k \in 0..n |-> IF k = 0 THEN <<>> ELSE Step(k, g[k - 1])]
  BY <1>7 DEF Step
<1> HIDE DEF g
<1>9. g[0] = <<>> /\ \A k \in 1..n : g[k - 1] \in A => g[k] = step[<<k, g[k - 1]>>]
  BY <1>2, <1>5, <1>8
<1>10. g[n] \in A
  BY <1>2, <1>3, <1>4, <1>9, LoopStays
<1> QED
  BY <1>1, <1>10 DEF A

LEMMA SeqOfMore ==
  ASSUME NEW S, NEW T, S \subseteq T, NEW s \in Seq(S)
  PROVE  s \in Seq(T)
OBVIOUS

LEMMA KeepTyped ==
  ASSUME NEW T, NEW s \in Seq(T), NEW K
  PROVE  Keep(s, K) \in Seq(T)
<1>1. Keep(s, K) \in Seq(T \cap K) /\ T \cap K \subseteq T
  BY KeepKeeps
<1> QED
  BY <1>1, SeqOfMore, Zenon

LEMMA KeysListed ==
  ASSUME NEW active \in Seq(Keys), NEW key \in Keys, NEW keys
  PROVE  Activate(active, key) \in Seq(Keys) /\ Deactivate(active, keys) \in Seq(Keys)
<1>1. Activate(active, key) \in Seq(Keys)
  BY DEF Activate
<1>2. Deactivate(active, keys) \in Seq(Keys)
  BY KeepTyped DEF Deactivate
<1> QED
  BY <1>1, <1>2

---------------------------------------------------------------------------
(* The kernel's table.                                                     *)

(* Only the kernel's part of an executor differs.                          *)
SameNodes(e, f) ==
  /\ f \in Executors
  /\ f.platform = e.platform /\ f.node = e.node /\ f.total = e.total /\ f.due = e.due

LEMMA KeyTyped ==
  ASSUME NEW r \in Interests
  PROVE  Key(r) \in Keys
BY DEF Key, Keys, Interests

LEMMA ForgetGives ==
  ASSUME NEW e \in Executors, NEW gone
  PROVE  SameNodes(e, Forget(e, gone)) /\ Forget(e, gone).interest = e.interest \ gone
<1> DEFINE l == Deactivate(e.active, {Key(r) : r \in gone})
<1>1. e.active \in Seq(Keys)
  BY DEF Executors
<1>2. l \in Seq(Keys)
  BY <1>1, KeepTyped DEF Deactivate
<1>3. Forget(e, gone) = [e EXCEPT !.interest = e.interest \ gone, !.active = l]
  BY DEF Forget
<1> HIDE DEF l
<1> QED
  BY <1>2, <1>3 DEF SameNodes, Executors

LEMMA ForgetNothing ==
  ASSUME NEW e \in Executors
  PROVE  SameNodes(e, Forget(e, {})) /\ Forget(e, {}).interest = e.interest
<1>1. SameNodes(e, Forget(e, {})) /\ Forget(e, {}).interest = e.interest \ {}
  BY ForgetGives, Zenon
<1>2. e.interest \ {} = e.interest
  OBVIOUS
<1> QED
  BY <1>1, <1>2, Zenon

LEMMA WatchGives ==
  ASSUME NEW e \in Executors, NEW r \in Interests
  PROVE  SameNodes(e, Watch(e, r)) /\ Watch(e, r).interest = e.interest \cup {r}
<1> DEFINE l == Activate(e.active, Key(r))
<1>1. l \in Seq(Keys)
  BY KeyTyped, KeysListed DEF Executors
<1> DEFINE w == e.interest \cup {r}
<1>2. Watch(e, r) = [e EXCEPT !.interest = w, !.active = l]
  BY DEF Watch
<1>3. w \in SUBSET Interests
  BY DEF Executors
<1> HIDE DEF l, w
<1>4. SameNodes(e, Watch(e, r)) /\ Watch(e, r).interest = w
  BY <1>1, <1>2, <1>3 DEF SameNodes, Executors
<1> QED
  BY <1>4 DEF w

LEMMA ArrivedGives ==
  ASSUME NEW e \in Executors, NEW fd
  PROVE  SameNodes(e, Arrived(e, fd)) /\ Arrived(e, fd).interest = e.interest
<1> DEFINE key == <<fd, IF e.platform = "epoll" THEN EPOLLIN ELSE EVFILT_READ>>
<1>1. CASE key \in {Key(r) : r \in e.interest}
  <2>1. key \in Keys
    BY <1>1, KeyTyped DEF Executors
  <2>2. Arrived(e, fd) = [e EXCEPT !.active = Activate(e.active, key)]
    BY <1>1 DEF Arrived
  <2> HIDE DEF key
  <2>3. Activate(e.active, key) \in Seq(Keys)
    BY <2>1, KeysListed DEF Executors
  <2> QED
    BY <2>2, <2>3 DEF SameNodes, Executors
<1>2. CASE key \notin {Key(r) : r \in e.interest}
  <2>1. Arrived(e, fd) = e
    BY <1>2 DEF Arrived
  <2> QED
    BY <2>1 DEF SameNodes
<1> QED
  BY <1>1, <1>2

---------------------------------------------------------------------------
(* Registering a callback: whichever the platform, the node is there, and  *)
(* the kernel's pointer leads to where its owner keeps it.                 *)

Registered(e, f, n, fd, events) ==
  /\ f \in Executors /\ f.platform = e.platform
  /\ f.node = [e.node EXCEPT ![n] = [fd |-> fd, events |-> events]]
  /\ f.total = e.total + 1 /\ f.due = e.due
  /\ f.interest = e.interest \cup {[fd |-> fd, events |-> events, ptr |-> Owned(n)]}

(* The same with one more node.                                            *)
WithNode(e, f, n, fd, events) ==
  /\ f \in Executors /\ f.platform = e.platform /\ f.interest = e.interest
  /\ f.node = [e.node EXCEPT ![n] = [fd |-> fd, events |-> events]]
  /\ f.node[n] = [fd |-> fd, events |-> events]
  /\ f.total = e.total + 1 /\ f.due = e.due

LEMMA Counted ==
  ASSUME NEW e \in Executors, NEW n \in Names, NEW fd \in Fds, NEW events \in Int
  PROVE  WithNode(e, [e EXCEPT !.node[n] = [fd |-> fd, events |-> events], !.total = @ + 1],
                  n, fd, events)
<1>1. e.node \in [Names -> [fd : Fds \cup {-1}, events : Int]] /\ e.total \in Int
  BY DEF Executors
<1> DEFINE nodes == [e.node EXCEPT ![n] = [fd |-> fd, events |-> events]]
           f == [e EXCEPT !.node[n] = [fd |-> fd, events |-> events], !.total = @ + 1]
<1>2. nodes \in [Names -> [fd : Fds \cup {-1}, events : Int]] /\ nodes[n] = [fd |-> fd, events |-> events]
  BY <1>1
<1>3. f = [e EXCEPT !.node = nodes, !.total = e.total + 1]
  BY DEF Executors
<1> HIDE DEF nodes, f
<1>4. /\ f \in Executors /\ f.platform = e.platform /\ f.interest = e.interest
      /\ f.node = nodes /\ f.total = e.total + 1 /\ f.due = e.due
  <2> DEFINE Nodes == [Names -> [fd : Fds \cup {-1}, events : Int]]
             l == e.total + 1
  <2>1. nodes \in Nodes /\ l \in Int
    BY <1>1, <1>2
  <2>2. f = [e EXCEPT !.node = nodes, !.total = l]
    BY <1>3
  <2>3. e \in [platform : {"epoll", "kqueue"}, node : Nodes,
               total : Int, interest : SUBSET Interests, active : Seq(Keys), due : Seq(Names)]
    BY DEF Executors
  <2> HIDE DEF Nodes, l
  <2>4. f \in [platform : {"epoll", "kqueue"}, node : Nodes,
               total : Int, interest : SUBSET Interests, active : Seq(Keys), due : Seq(Names)]
    BY <2>1, <2>2, <2>3
  <2>5. /\ f.platform = e.platform /\ f.interest = e.interest
        /\ f.node = nodes /\ f.total = l /\ f.due = e.due
    BY <2>2, <2>3
  <2> QED
    BY <2>4, <2>5 DEF Executors, Nodes, l
<1>5. WithNode(e, f, n, fd, events)
  BY <1>2, <1>4 DEF nodes, WithNode
<1> QED
  BY <1>5 DEF f

LEMMA PointersTyped ==
  ASSUME NEW n \in Names, NEW fd \in Fds, NEW events \in Int
  PROVE  /\ [fd |-> fd, events |-> events, ptr |-> Temp(n)] \in Interests
         /\ [fd |-> fd, events |-> events, ptr |-> Owned(n)] \in Interests
         /\ Temp(n) # Owned(n)
BY DEF Interests, Temp, Owned

LEMMA EpollRegisters ==
  ASSUME NEW e \in Executors, NEW n \in Names, NEW fd \in Fds, NEW events \in Int,
         \A r \in e.interest : r.fd # fd
  PROVE  Registered(e, EpollMove(EpollSetup(e, n, fd, events), n), n, fd, events)
<1> DEFINE e1 == [e EXCEPT !.node[n] = [fd |-> fd, events |-> events], !.total = @ + 1]
           temp == [fd |-> fd, events |-> events, ptr |-> Temp(n)]
           own == [fd |-> fd, events |-> events, ptr |-> Owned(n)]
           e2 == EpollSetup(e, n, fd, events)
           e3 == EpollMove(e2, n)
<1>1. /\ e1 \in Executors /\ e1.platform = e.platform /\ e1.interest = e.interest
      /\ e1.node = [e.node EXCEPT ![n] = [fd |-> fd, events |-> events]]
      /\ e1.node[n] = [fd |-> fd, events |-> events]
      /\ e1.total = e.total + 1 /\ e1.due = e.due
  <2>1. WithNode(e, e1, n, fd, events)
    BY Counted, Zenon
  <2> HIDE DEF e1
  <2> QED
    BY <2>1 DEF WithNode
<1>2. temp \in Interests /\ own \in Interests /\ temp.fd = fd /\ own.fd = fd
  BY PointersTyped
<1>3. e2 = CtlAdd(e1, temp)
  BY DEF EpollSetup
<1> HIDE DEF e1
<1>4. e2 = Watch(e1, temp)
  BY <1>1, <1>2, <1>3 DEF CtlAdd, OfFd
<1>5. SameNodes(e1, e2) /\ e2.interest = e.interest \cup {temp}
  BY <1>1, <1>2, <1>4, WatchGives
<1>6. e3 = CtlMod(e2, own)
  <2>1. e2.node[n].fd = fd /\ e2.node[n].events = events
    BY <1>1, <1>5 DEF SameNodes
  <2> HIDE DEF e2
  <2> QED
    BY <2>1 DEF EpollMove
<1> HIDE DEF e2, e3, temp, own
<1>7. OfFd(e2, fd) = {temp}
  BY <1>2, <1>5 DEF OfFd
<1>8. e3 = Watch(Forget(e2, {temp}), own)
  BY <1>2, <1>6, <1>7 DEF CtlMod
<1>9. e2 \in Executors
  BY <1>5 DEF SameNodes
<1>10. SameNodes(e2, Forget(e2, {temp})) /\ Forget(e2, {temp}).interest = e2.interest \ {temp}
  BY <1>9, ForgetGives
<1>11. SameNodes(Forget(e2, {temp}), e3) /\ e3.interest = (e2.interest \ {temp}) \cup {own}
  <2>1. Forget(e2, {temp}) \in Executors
    BY <1>10 DEF SameNodes
  <2> QED
    BY <1>2, <1>8, <1>10, <2>1, WatchGives
<1>12. temp \notin e.interest
  BY <1>2
<1>13. e3.interest = e.interest \cup {own}
  BY <1>5, <1>11, <1>12
<1>14. /\ e3 \in Executors /\ e3.platform = e.platform /\ e3.node = e1.node
       /\ e3.total = e1.total /\ e3.due = e1.due
  BY <1>1, <1>5, <1>10, <1>11 DEF SameNodes
<1>15. Registered(e, e3, n, fd, events)
  BY <1>1, <1>13, <1>14 DEF Registered, own
<1> QED
  BY <1>15 DEF e3, e2

LEMMA KqueueRegisters ==
  ASSUME NEW e \in Executors, NEW n \in Names, NEW fd \in Fds, NEW filter, OrVnode(filter) \in Int,
         \A r \in e.interest : r.fd # fd
  PROVE  Registered(e, KqueueMove(KqueueSetup(e, n, fd, filter), n), n, fd, OrVnode(filter))
<1> DEFINE events == OrVnode(filter)
           e1 == [e EXCEPT !.node[n] = [fd |-> fd, events |-> events], !.total = @ + 1]
           temp == [fd |-> fd, events |-> events, ptr |-> Temp(n)]
           own == [fd |-> fd, events |-> events, ptr |-> Owned(n)]
           e2 == KqueueSetup(e, n, fd, filter)
           e3 == KqueueMove(e2, n)
<1>3. e2 = EvAdd(e1, temp)
  BY DEF KqueueSetup
<1>0. events \in Int
  OBVIOUS
<1> HIDE DEF events
<1>1. /\ e1 \in Executors /\ e1.platform = e.platform /\ e1.interest = e.interest
      /\ e1.node = [e.node EXCEPT ![n] = [fd |-> fd, events |-> events]]
      /\ e1.node[n] = [fd |-> fd, events |-> events]
      /\ e1.total = e.total + 1 /\ e1.due = e.due
  <2>1. WithNode(e, e1, n, fd, events)
    BY <1>0, Counted, Zenon
  <2> HIDE DEF e1
  <2> QED
    BY <2>1 DEF WithNode
<1>2. /\ temp \in Interests /\ own \in Interests /\ temp.fd = fd /\ own.fd = fd
      /\ temp.events = events /\ own.events = events
  BY <1>0, PointersTyped
<1> HIDE DEF e1
<1>4. OfPair(e1, fd, events) = {}
  BY <1>1 DEF OfPair, OfFd
<1>5. SameNodes(e1, e2) /\ e2.interest = e.interest \cup {temp}
  <2>1. e2 = Watch(Forget(e1, {}), temp)
    BY <1>2, <1>3, <1>4 DEF EvAdd
  <2>2. SameNodes(e1, Forget(e1, {})) /\ Forget(e1, {}).interest = e.interest
    BY <1>1, ForgetNothing
  <2>3. SameNodes(Forget(e1, {}), e2) /\ e2.interest = e.interest \cup {temp}
    BY <1>2, <2>1, <2>2, WatchGives DEF SameNodes
  <2> QED
    BY <2>2, <2>3 DEF SameNodes
<1>6. e3 = EvAdd(EvDelete(e2, fd, events), own)
  <2>1. e2.node[n].fd = fd /\ e2.node[n].events = events
    BY <1>1, <1>5 DEF SameNodes
  <2> HIDE DEF e2
  <2> QED
    BY <2>1 DEF KqueueMove
<1> HIDE DEF e2, e3, temp, own
<1> DEFINE e4 == EvDelete(e2, fd, events)
<1>7. SameNodes(e2, e4) /\ e4.interest = e.interest
  <2>1. OfPair(e2, fd, events) = {temp}
    BY <1>2, <1>5 DEF OfPair, OfFd
  <2>2. e4 = Forget(e2, {temp})
    BY <2>1 DEF EvDelete
  <2>3. temp \notin e.interest /\ e2 \in Executors
    BY <1>2, <1>5 DEF SameNodes
  <2>4. SameNodes(e2, e4) /\ e4.interest = e2.interest \ {temp}
    BY <2>2, <2>3, ForgetGives
  <2> QED
    BY <1>5, <2>3, <2>4
<1> HIDE DEF e4
<1>8. SameNodes(e4, e3) /\ e3.interest = e.interest \cup {own}
  <2>1. OfPair(e4, fd, events) = {}
    BY <1>7 DEF OfPair, OfFd
  <2>2. e3 = Watch(Forget(e4, {}), own)
    BY <1>2, <1>6, <2>1 DEF EvAdd, e4
  <2>3. e4 \in Executors
    BY <1>7 DEF SameNodes
  <2>4. SameNodes(e4, Forget(e4, {})) /\ Forget(e4, {}).interest = e.interest
    BY <1>7, <2>3, ForgetNothing
  <2>5. SameNodes(Forget(e4, {}), e3) /\ e3.interest = e.interest \cup {own}
    BY <1>2, <2>2, <2>4, WatchGives DEF SameNodes
  <2> QED
    BY <2>4, <2>5 DEF SameNodes
<1>9. /\ e3 \in Executors /\ e3.platform = e.platform /\ e3.node = e1.node
      /\ e3.total = e1.total /\ e3.due = e1.due
  BY <1>1, <1>5, <1>7, <1>8 DEF SameNodes
<1>10. Registered(e, e3, n, fd, events)
  BY <1>1, <1>8, <1>9 DEF Registered, own
<1> QED
  BY <1>10 DEF e3, e2, events

LEMMA CallbackRegistered ==
  ASSUME NEW e \in Executors, NEW n \in Names, NEW fd \in Fds, NEW trigger,
         \A r \in e.interest : r.fd # fd
  PROVE  \E events \in Int : Registered(e, RegisterAwaitableCallback(e, n, fd, trigger), n, fd, events)
<1>1. CASE e.platform = "epoll"
  <2>1. EpollTrigger(trigger) \in Int
    BY DEF EpollTrigger, EPOLLIN, EPOLLOUT
  <2>2. RegisterAwaitableCallback(e, n, fd, trigger) =
          EpollMove(EpollSetup(e, n, fd, EpollTrigger(trigger)), n)
    BY <1>1 DEF RegisterAwaitableCallback, EpollRegister
  <2> QED
    BY <2>1, <2>2, EpollRegisters
<1>2. CASE e.platform # "epoll"
  <2>1. OrVnode(KqueueTrigger(trigger)) \in Int
    BY DEF KqueueTrigger, OrVnode, EVFILT_READ, EVFILT_WRITE, EVFILT_VNODE
  <2>2. RegisterAwaitableCallback(e, n, fd, trigger) =
          KqueueMove(KqueueSetup(e, n, fd, KqueueTrigger(trigger)), n)
    BY <1>2 DEF RegisterAwaitableCallback, KqueueRegister
  <2> QED
    BY <2>1, <2>2, KqueueRegisters
<1> QED
  BY <1>1, <1>2

---------------------------------------------------------------------------
(* A sound executor stays sound.                                           *)

LEMMA SocketsDiffer ==
  /\ \A m, n \in Names : SocketOf(m) = SocketOf(n) => m = n
  /\ \A n \in Names : SocketOf(n) # "free" /\ SocketOf(n) \in Sockets
  /\ SocketOf("accept") = "listen" /\ SocketOf("pop") = "canrx" /\ SocketOf("push") = "cantx"
  /\ \A c \in Conns : SocketOf(c) = c /\ c \in Names /\ c \notin {"accept", "pop", "push"}
  /\ {"accept", "pop", "push"} \subseteq Names
<1>1. \A c \in Conns : c \notin {"accept", "pop", "push", "listen", "canrx", "cantx", "free"}
  BY ConnsAssumption
<1>2. SocketOf("accept") = "listen" /\ SocketOf("pop") = "canrx" /\ SocketOf("push") = "cantx"
  BY DEF SocketOf
<1>3. \A c \in Conns : SocketOf(c) = c
  BY <1>1 DEF SocketOf
<1>4. \A n \in Names : n \in {"accept", "pop", "push"} \/ n \in Conns
  BY NamesAssumption
<1>5. \A n \in Names : SocketOf(n) # "free" /\ SocketOf(n) \in Sockets
  BY <1>1, <1>2, <1>3, <1>4 DEF Sockets
<1>6. \A m, n \in Names : SocketOf(m) = SocketOf(n) => m = n
  BY <1>1, <1>2, <1>3, <1>4
<1> QED
  BY <1>1, <1>2, <1>3, <1>5, <1>6, NamesAssumption

LEMMA LiveFds ==
  ASSUME NEW e \in Executors
  PROVE  /\ -1 \notin Fds
         /\ \A n \in Names : e.node[n].fd \in Fds \cup {-1} /\ e.node[n].events \in Int
         /\ \A n \in Live(e) : n \in Names /\ e.node[n].fd \in Fds
<1>1. -1 \notin Fds
  BY DEF Fds
<1>2. ASSUME NEW n \in Names
      PROVE  e.node[n].fd \in Fds \cup {-1} /\ e.node[n].events \in Int
  <2>1. e.node \in [Names -> [fd : Fds \cup {-1}, events : Int]]
    BY DEF Executors
  <2>2. e.node[n] \in [fd : Fds \cup {-1}, events : Int]
    BY <2>1
  <2> QED
    BY <2>2
<1> QED
  BY <1>1, <1>2 DEF Live

LEMMA OneNodePerFd ==
  ASSUME NEW e, NEW t, Sound(e, t), NEW m \in Live(e), NEW n \in Live(e), e.node[m].fd = e.node[n].fd
  PROVE  m = n
BY SocketsDiffer DEF Sound, Live

LEMMA SameNodesSound ==
  ASSUME NEW e, NEW t, Sound(e, t), NEW f, SameNodes(e, f), f.interest = e.interest
  PROVE  Sound(f, t) /\ Live(f) = Live(e)
<1>1. Live(f) = Live(e) /\ \A n : InterestOf(f, n) = InterestOf(e, n)
  BY DEF Live, SameNodes, InterestOf
<1> QED
  BY <1>1 DEF Sound, SameNodes

LEMMA OtherTableSound ==
  ASSUME NEW e, NEW t, Sound(e, t), NEW u, \A n \in Live(e) : u[e.node[n].fd] = t[e.node[n].fd]
  PROVE  Sound(e, u)
BY DEF Sound

LEMMA RegisteredSound ==
  ASSUME NEW e, NEW t, Sound(e, t), NEW n \in Names, n \notin Live(e), NEW fd \in Fds,
         NEW events \in Int, NEW u, u[fd] = SocketOf(n),
         \A m \in Live(e) : u[e.node[m].fd] = t[e.node[m].fd],
         NEW f, Registered(e, f, n, fd, events)
  PROVE  Sound(f, u) /\ Live(f) = Live(e) \cup {n} /\ f.due = e.due
<1>0. /\ f \in Executors /\ f.node = [e.node EXCEPT ![n] = [fd |-> fd, events |-> events]]
      /\ f.total = e.total + 1 /\ f.due = e.due
      /\ f.interest = e.interest \cup {[fd |-> fd, events |-> events, ptr |-> Owned(n)]}
  BY DEF Registered
<1>1. /\ e \in Executors /\ e.interest = {InterestOf(e, m) : m \in Live(e)}
      /\ \A m \in Live(e) : t[e.node[m].fd] = SocketOf(m)
      /\ IsFiniteSet(Live(e)) /\ e.total = Cardinality(Live(e)) /\ e.due \in Seq(Live(e))
  BY DEF Sound
<1>2. f.node[n].fd = fd /\ f.node[n].events = events /\ \A m \in Names \ {n} : f.node[m] = e.node[m]
  <2>1. DOMAIN e.node = Names
    BY <1>1 DEF Executors
  <2> QED
    BY <1>0, <2>1
<1>3. Live(f) = Live(e) \cup {n}
  <2>1. fd # -1
    BY DEF Fds
  <2> QED
    BY <1>2, <2>1 DEF Live
<1>4. f.interest = {InterestOf(f, m) : m \in Live(f)}
  <2>1. InterestOf(f, n) = [fd |-> fd, events |-> events, ptr |-> Owned(n)]
    BY <1>2 DEF InterestOf
  <2>2. \A m \in Live(e) : m \in Names \ {n}
    BY DEF Live
  <2>3. \A m \in Live(e) : InterestOf(f, m) = InterestOf(e, m)
    BY <1>2, <2>2 DEF InterestOf
  <2>4. {InterestOf(f, m) : m \in Live(f)} = {InterestOf(f, m) : m \in Live(e)} \cup {InterestOf(f, n)}
    BY <1>3
  <2>5. {InterestOf(f, m) : m \in Live(e)} = {InterestOf(e, m) : m \in Live(e)}
    BY <2>3
  <2> QED
    BY <1>0, <1>1, <2>1, <2>4, <2>5
<1>5. \A m \in Live(f) : u[f.node[m].fd] = SocketOf(m)
  <2>1. \A m \in Live(e) : m \in Names \ {n}
    BY DEF Live
  <2> QED
    BY <1>1, <1>2, <1>3, <2>1
<1>6. IsFiniteSet(Live(f)) /\ Cardinality(Live(f)) = Cardinality(Live(e)) + 1
  BY <1>1, <1>3, FS_AddElement
<1>7. f.due \in Seq(Live(f))
  <2>1. Live(e) \subseteq Live(f)
    BY <1>3
  <2> QED
    BY <1>0, <1>1, <2>1, SeqOfMore
<1> QED
  BY <1>0, <1>1, <1>3, <1>4, <1>5, <1>6, <1>7 DEF Sound

Registering(e, f, t, u, n, fd, trigger) ==
  /\ Sound(e, t) /\ n \in Names /\ n \notin Live(e) /\ fd \in Fds
  /\ \A m \in Live(e) : e.node[m].fd # fd
  /\ u[fd] = SocketOf(n)
  /\ \A m \in Live(e) : u[e.node[m].fd] = t[e.node[m].fd]
  /\ f = RegisterAwaitableCallback(e, n, fd, trigger)

LEMMA RegisteringSound ==
  ASSUME NEW e, NEW f, NEW t, NEW u, NEW n, NEW fd, NEW trigger,
         Registering(e, f, t, u, n, fd, trigger)
  PROVE  Sound(f, u) /\ Live(f) = Live(e) \cup {n} /\ f.due = e.due
<1>1. /\ Sound(e, t) /\ n \in Names /\ n \notin Live(e) /\ fd \in Fds
      /\ \A m \in Live(e) : e.node[m].fd # fd
      /\ u[fd] = SocketOf(n)
      /\ \A m \in Live(e) : u[e.node[m].fd] = t[e.node[m].fd]
      /\ f = RegisterAwaitableCallback(e, n, fd, trigger)
  BY DEF Registering
<1>2. e \in Executors
  BY <1>1 DEF Sound
<1>3. \A r \in e.interest : r.fd # fd
  BY <1>1 DEF Sound, InterestOf
<1>4. PICK events \in Int : Registered(e, f, n, fd, events)
  BY <1>1, <1>2, <1>3, CallbackRegistered
<1> QED
  BY <1>1, <1>4, RegisteredSound

(* Letting go of a callback.                                               *)
Destroyed(e, f, n) ==
  /\ f \in Executors /\ f.platform = e.platform
  /\ f.node = [e.node EXCEPT ![n] = NoNode]
  /\ f.total = e.total - 1 /\ f.due = Keep(e.due, Names \ {n})
  /\ f.interest = e.interest \ {InterestOf(e, n)}

LEMMA DestroyedByForgetting ==
  ASSUME NEW e \in Executors, NEW n \in Names, NEW gone, gone = {InterestOf(e, n)},
         NEW d, d = [e EXCEPT !.node[n] = NoNode, !.total = @ - 1, !.due = Keep(@, Names \ {n})]
  PROVE  Destroyed(e, Forget(d, gone), n)
<1> DEFINE Nodes == [Names -> [fd : Fds \cup {-1}, events : Int]]
           nodes == [e.node EXCEPT ![n] = NoNode]
           due == Keep(e.due, Names \ {n})
           l == e.total - 1
<1>1. e \in [platform : {"epoll", "kqueue"}, node : Nodes,
             total : Int, interest : SUBSET Interests, active : Seq(Keys), due : Seq(Names)]
  BY DEF Executors
<1>2. due \in Seq(Names)
  BY <1>1, KeepTyped
<1>3. nodes \in Nodes
  <2>1. e.node \in Nodes /\ NoNode \in [fd : Fds \cup {-1}, events : Int]
    BY <1>1 DEF NoNode
  <2> QED
    BY <2>1
<1>4. l \in Int
  BY <1>1
<1>5. d = [e EXCEPT !.node = nodes, !.total = l, !.due = due]
  BY <1>1
<1> HIDE DEF nodes, due, l, Nodes
<1>6. PICK x : x = d
  OBVIOUS
<1>7. /\ x.platform = e.platform /\ x.interest = e.interest
      /\ x.node = nodes /\ x.total = l /\ x.due = due
  BY <1>1, <1>5, <1>6
<1>8. x \in [platform : {"epoll", "kqueue"}, node : Nodes,
             total : Int, interest : SUBSET Interests, active : Seq(Keys), due : Seq(Names)]
  BY <1>1, <1>2, <1>3, <1>4, <1>5, <1>6
<1>9. x \in Executors
  BY <1>8 DEF Executors, Nodes
<1>10. SameNodes(x, Forget(x, gone)) /\ Forget(x, gone).interest = x.interest \ gone
  BY <1>9, ForgetGives, Zenon
<1>11. Destroyed(e, Forget(x, gone), n)
  BY <1>7, <1>10 DEF Destroyed, SameNodes, nodes, l, due
<1> QED
  BY <1>6, <1>11

LEMMA ResetDestroys ==
  ASSUME NEW e, NEW t, Sound(e, t), NEW n \in Live(e)
  PROVE  Destroyed(e, Reset(e, n), n)
<1> DEFINE d == [e EXCEPT !.node[n] = NoNode, !.total = @ - 1, !.due = Keep(@, Names \ {n})]
           fd == e.node[n].fd
           events == e.node[n].events
<1>1. e \in Executors /\ e.interest = {InterestOf(e, m) : m \in Live(e)} /\ n \in Names
  BY DEF Sound, Live
<1>2. fd \in Fds
  BY <1>1, LiveFds
<1>3. ~(fd < 0)
  BY <1>2, NumFdsAssumption DEF Fds
<1>4. d.interest = e.interest
  BY <1>1 DEF Executors
<1>5. \A r \in e.interest : r.fd = fd <=> r = InterestOf(e, n)
  <2>1. InterestOf(e, n).fd = fd
    BY DEF InterestOf
  <2>2. ASSUME NEW m \in Live(e), InterestOf(e, m).fd = fd
        PROVE  m = n
    BY <2>2, OneNodePerFd DEF InterestOf
  <2> QED
    BY <1>1, <2>1, <2>2
<1>6. InterestOf(e, n) \in e.interest /\ InterestOf(e, n).events = events
  BY <1>1 DEF InterestOf
<1>7. OfFd(d, fd) = {InterestOf(e, n)}
  BY <1>4, <1>5, <1>6 DEF OfFd
<1>8. OfPair(d, fd, events) = {InterestOf(e, n)}
  BY <1>6, <1>7 DEF OfPair
<1>9. Reset(e, n) = IF e.platform = "epoll" THEN Forget(d, OfFd(d, fd))
                    ELSE Forget(d, OfPair(d, fd, events))
  BY <1>3 DEF Reset, EpollDestroy, KqueueDestroy, CtlDel, EvDelete
<1>10. Destroyed(e, Forget(d, {InterestOf(e, n)}), n)
  BY <1>1, DestroyedByForgetting, Zenon
<1> QED
  BY <1>7, <1>8, <1>9, <1>10

LEMMA ResetSound ==
  ASSUME NEW e, NEW t, Sound(e, t), NEW n \in Names, NEW f, f = Reset(e, n)
  PROVE  /\ Sound(f, t) /\ Live(f) = Live(e) \ {n}
         /\ \A m \in Live(f) : f.node[m] = e.node[m]
         /\ e.due = <<>> => f.due = <<>>
<1>1. /\ e \in Executors /\ e.interest = {InterestOf(e, m) : m \in Live(e)}
      /\ \A m \in Live(e) : t[e.node[m].fd] = SocketOf(m)
      /\ IsFiniteSet(Live(e)) /\ e.total = Cardinality(Live(e)) /\ e.due \in Seq(Live(e))
  BY DEF Sound
<1>2. CASE n \notin Live(e)
  <2>1. e.node[n].fd < 0
    BY <1>2 DEF Live
  <2>2. f = e
    BY <2>1 DEF Reset, EpollDestroy, KqueueDestroy
  <2> QED
    BY <1>2, <2>2
<1>3. CASE n \in Live(e)
  <2>1. Destroyed(e, f, n)
    BY <1>3, ResetDestroys
  <2>2. /\ f \in Executors /\ f.node = [e.node EXCEPT ![n] = NoNode]
        /\ f.total = e.total - 1 /\ f.due = Keep(e.due, Names \ {n})
        /\ f.interest = e.interest \ {InterestOf(e, n)}
    BY <2>1 DEF Destroyed
  <2>3. f.node[n].fd = -1 /\ \A m \in Names \ {n} : f.node[m] = e.node[m]
    <3>1. DOMAIN e.node = Names
      BY <1>1 DEF Executors
    <3> QED
      BY <2>2, <3>1 DEF NoNode
  <2>4. Live(f) = Live(e) \ {n} /\ \A m \in Live(f) : f.node[m] = e.node[m]
    BY <2>3 DEF Live
  <2>5. f.interest = {InterestOf(f, m) : m \in Live(f)}
    <3>1. \A m \in Live(f) : InterestOf(f, m) = InterestOf(e, m)
      BY <2>4 DEF InterestOf
    <3>2. \A m \in Live(e) : InterestOf(e, m) = InterestOf(e, n) => m = n
      BY <1>3, OneNodePerFd DEF InterestOf
    <3> QED
      BY <1>1, <2>2, <2>4, <3>1, <3>2
  <2>6. \A m \in Live(f) : t[f.node[m].fd] = SocketOf(m)
    BY <1>1, <2>4
  <2>7. IsFiniteSet(Live(f)) /\ Cardinality(Live(f)) = Cardinality(Live(e)) - 1
    BY <1>1, <1>3, <2>4, FS_RemoveElement
  <2>8. f.due \in Seq(Live(f))
    <3>1. f.due \in Seq(Live(e) \cap (Names \ {n}))
      BY <1>1, <2>2, KeepKeeps
    <3>2. Live(e) \cap (Names \ {n}) = Live(f)
      BY <2>4 DEF Live
    <3> QED
      BY <3>1, <3>2
  <2>9. e.due = <<>> => f.due = <<>>
    <3>1. <<>> \in Seq({})
      OBVIOUS
    <3>2. Keep(<<>>, Names \ {n}) \in Seq({} \cap (Names \ {n}))
      BY <3>1, KeepKeeps, Zenon
    <3>3. Keep(<<>>, Names \ {n}) \in Seq({})
      BY <3>2
    <3>4. Keep(<<>>, Names \ {n}) = <<>>
      BY <3>3
    <3> QED
      BY <2>2, <3>4
  <2> QED
    BY <1>1, <2>2, <2>4, <2>5, <2>6, <2>7, <2>8, <2>9 DEF Sound
<1> QED
  BY <1>2, <1>3

(* Closing a descriptor that no node has.                                  *)
LEMMA CloseSound ==
  ASSUME NEW e, NEW t, Sound(e, t), NEW fd, \A n \in Live(e) : e.node[n].fd # fd,
         NEW f, f = Close(e, fd)
  PROVE  Sound(f, t) /\ Live(f) = Live(e) /\ f.node = e.node /\ f.due = e.due
<1>1. OfFd(e, fd) = {}
  BY DEF Sound, OfFd, InterestOf
<1>2. f = Forget(e, {})
  BY <1>1 DEF Close
<1>3. e \in Executors
  BY DEF Sound
<1>4. SameNodes(e, f) /\ f.interest = e.interest
  BY <1>2, <1>3, ForgetNothing
<1> QED
  BY <1>4, SameNodesSound DEF SameNodes

LEMMA TakenSound ==
  ASSUME NEW e, NEW t, Sound(e, t), e.due # <<>>
  PROVE  /\ Sound(Taken(e), t) /\ Live(Taken(e)) = Live(e) /\ Taken(e).node = e.node
         /\ Head(e.due) \in Live(e)
<1>1. e \in Executors /\ e.due \in Seq(Live(e))
  BY DEF Sound
<1> DEFINE due == Tail(e.due)
<1>2. due \in Seq(Live(e)) /\ Head(e.due) \in Live(e)
  BY <1>1
<1>3. Live(e) \subseteq Names
  BY DEF Live
<1>4. due \in Seq(Names)
  BY <1>2, <1>3, SeqOfMore
<1>5. Taken(e) = [e EXCEPT !.due = due]
  BY DEF Taken
<1> HIDE DEF due
<1>6. /\ Taken(e) \in Executors /\ Taken(e).node = e.node /\ Taken(e).total = e.total
      /\ Taken(e).interest = e.interest /\ Taken(e).due = due
  BY <1>1, <1>4, <1>5 DEF Executors
<1>7. Live(Taken(e)) = Live(e) /\ \A n : InterestOf(Taken(e), n) = InterestOf(e, n)
  BY <1>6 DEF Live, InterestOf
<1> QED
  BY <1>2, <1>6, <1>7 DEF Sound

---------------------------------------------------------------------------
(* A wait schedules only nodes that are there.                             *)

LEMMA ScheduledLive ==
  ASSUME NEW e, NEW t, Sound(e, t), NEW evs \in Seq(Keys)
  PROVE  \E due \in Seq(Live(e)) : Schedule(e, evs) = [e EXCEPT !.due = due]
<1> DEFINE n == Len(evs)
           A == Seq(Live(e))
           at(k) == {r \in e.interest : Key(r) = evs[k]}
           who(k) == (CHOOSE r \in at(k) : TRUE).ptr[1]
           Step(k, a) == IF at(k) = {} THEN a ELSE ScheduleNow(a, who(k))
           g == CHOOSE f : f = [k \in 0..n |-> IF k = 0 THEN e.due
                                               ELSE IF at(k) = {} THEN f[k - 1]
                                               ELSE ScheduleNow(f[k - 1], who(k))]
<1>1. Schedule(e, evs) = [e EXCEPT !.due = g[n]]
  BY DEF Schedule
<1>2. n \in Nat
  OBVIOUS
<1>3. e.due \in A /\ \A k \in 1..n, a \in A : Step(k, a) \in A
  <2>1. e.due \in A /\ e.interest = {InterestOf(e, m) : m \in Live(e)}
    BY DEF Sound
  <2>2. ASSUME NEW k \in 1..n, NEW a \in A, at(k) # {}
        PROVE  ScheduleNow(a, who(k)) \in A
    <3>1. PICK r \in e.interest : who(k) = r.ptr[1]
      BY <2>2
    <3>2. PICK m \in Live(e) : r = InterestOf(e, m)
      BY <2>1, <3>1
    <3>3. who(k) = m
      BY <3>1, <3>2 DEF InterestOf, Owned
    <3> HIDE DEF who, at
    <3>4. Keep(a, Names \ {m}) \in Seq(Live(e))
      BY KeepTyped
    <3>5. Append(Keep(a, Names \ {m}), m) \in Seq(Live(e))
      BY <3>4
    <3> QED
      BY <3>3, <3>5 DEF ScheduleNow
  <2> QED
    BY <2>1, <2>2
<1> DEFINE step == [x \in (1..n) \X A |-> Step(x[1], x[2])]
<1> HIDE DEF Step, A, n
<1>4. step \in [(1..n) \X A -> A]
  BY <1>3
<1>5. \A k \in 1..n, a \in A : step[<<k, a>>] = Step(k, a)
  OBVIOUS
<1> HIDE DEF step
<1>6. PICK f : f \in Loops(n, A, e.due, step)
  BY <1>2, <1>3, <1>4, LoopExists, Zenon
<1>7. f = [k \in 0..n |-> IF k = 0 THEN e.due ELSE Step(k, f[k - 1])]
  <2>1. f \in [0..n -> A] /\ f[0] = e.due
    BY <1>6 DEF Loops
  <2>2. ASSUME NEW k \in 0..n, k # 0
        PROVE  f[k] = Step(k, f[k - 1])
    <3>1. k \in 1..n /\ k - 1 \in 0..n
      BY <1>2, <2>2
    <3> QED
      BY <1>5, <1>6, <2>1, <3>1 DEF Loops
  <2> QED
    BY <2>1, <2>2
<1>8. g = [k \in 0..n |-> IF k = 0 THEN e.due ELSE Step(k, g[k - 1])]
  <2> HIDE DEF at, who
  <2> QED
    BY <1>7 DEF Step
<1> HIDE DEF g
<1>9. g[0] = e.due /\ \A k \in 1..n : g[k - 1] \in A => g[k] = step[<<k, g[k - 1]>>]
  BY <1>2, <1>5, <1>8
<1>10. g[n] \in A
  BY <1>2, <1>3, <1>4, <1>9, LoopStays
<1> QED
  BY <1>1, <1>10 DEF A

LEMMA ScheduleSound ==
  ASSUME NEW e, NEW t, Sound(e, t), NEW active \in Seq(Keys), NEW evs \in Seq(Keys),
         NEW f, f = Schedule([e EXCEPT !.active = active], evs)
  PROVE  Sound(f, t) /\ Live(f) = Live(e)
<1> DEFINE d == [e EXCEPT !.active = active]
<1>1. e \in Executors
  BY DEF Sound
<1>2. SameNodes(e, d) /\ d.interest = e.interest
  BY <1>1 DEF SameNodes, Executors
<1>3. f = Schedule(d, evs)
  OBVIOUS
<1> HIDE DEF d
<1>4. Sound(d, t) /\ Live(d) = Live(e)
  BY <1>2, SameNodesSound
<1>5. PICK due \in Seq(Live(d)) : Schedule(d, evs) = [d EXCEPT !.due = due]
  BY <1>4, ScheduledLive
<1>6. due \in Seq(Names) /\ d \in Executors
  <2>1. Live(d) \subseteq Names
    BY DEF Live
  <2> QED
    BY <1>4, <2>1, SeqOfMore DEF Sound
<1>7. PICK h : h = [d EXCEPT !.due = due]
  OBVIOUS
<1>8. h \in Executors /\ h.node = d.node /\ h.total = d.total /\ h.interest = d.interest /\ h.due = due
  BY <1>6, <1>7 DEF Executors
<1>9. Live(h) = Live(d) /\ \A n : InterestOf(h, n) = InterestOf(d, n)
  BY <1>8 DEF Live, InterestOf
<1>10. Sound(h, t)
  BY <1>4, <1>8, <1>9 DEF Sound
<1> QED
  BY <1>3, <1>4, <1>5, <1>7, <1>9, <1>10

LEMMA ReportTyped ==
  ASSUME NEW e \in Executors, NEW ready
  PROVE  Reported(e, ready).evs \in Seq(Keys) /\ Reported(e, ready).rest \in Seq(Keys)
<1> DEFINE waiting == Keep(e.active, ready)
           k == IF Len(waiting) < MaxEvents THEN Len(waiting) ELSE MaxEvents
<1>1. Reported(e, ready) = [evs |-> SubSeq(waiting, 1, k), rest |-> SubSeq(waiting, k + 1, Len(waiting))]
  BY DEF Reported
<1>2. waiting \in Seq(Keys)
  BY KeepTyped DEF Executors
<1> HIDE DEF waiting
<1>3. Len(waiting) \in Nat
  BY <1>2, LenProperties
<1>4. k \in Nat /\ k <= Len(waiting)
  BY <1>3, MaxEventsAssumption
<1> HIDE DEF k
<1>5. SubSeq(waiting, 1, k) \in Seq(Keys) /\ SubSeq(waiting, k + 1, Len(waiting)) \in Seq(Keys)
  BY <1>2, <1>3, <1>4
<1> QED
  BY <1>1, <1>5

LEMMA PollSound ==
  ASSUME NEW e, NEW t, Sound(e, t), NEW rep, rep.evs \in Seq(Keys), rep.rest \in Seq(Keys),
         NEW f, f = PollAwaitableResources(e, rep)
  PROVE  Sound(f, t) /\ Live(f) = Live(e)
<1>1. CASE e.total = 0
  BY <1>1 DEF PollAwaitableResources
<1>2. CASE e.total # 0 /\ e.platform = "epoll"
  <2>1. f = Schedule([e EXCEPT !.active = rep.rest \o rep.evs], rep.evs)
    BY <1>2 DEF PollAwaitableResources, EpollPoll, AfterEpollWait
  <2>2. rep.rest \o rep.evs \in Seq(Keys)
    OBVIOUS
  <2>3. PICK active \in Seq(Keys) : active = rep.rest \o rep.evs
    BY <2>2
  <2>4. f = Schedule([e EXCEPT !.active = active], rep.evs)
    BY <2>1, <2>3
  <2> QED
    BY <2>4, ScheduleSound
<1>3. CASE e.total # 0 /\ e.platform # "epoll"
  <2>1. f = Schedule([e EXCEPT !.active = rep.rest], rep.evs)
    BY <1>3 DEF PollAwaitableResources, KqueuePoll, AfterKevent
  <2> QED
    BY <2>1, ScheduleSound
<1> QED
  BY <1>1, <1>2, <1>3

---------------------------------------------------------------------------
(* Contexts go with their descriptors.                                     *)

LEMMA EraseSound ==
  ASSUME NEW e, Sound(e, fds), NEW c \in Conns, Accepted(c), NEW f, f = EraseContext(e, c)
  PROVE  /\ FdOf(c) \in Fds /\ fds[FdOf(c)] = c
         /\ Sound(f, fds) /\ Live(f) = Live(e) \ {c}
         /\ \A m \in Live(f) : f.node[m] = e.node[m] /\ f.node[m].fd # FdOf(c)
         /\ e.due = <<>> => f.due = <<>>
<1>1. FdOf(c) \in Fds /\ fds[FdOf(c)] = c
  BY DEF Accepted, FdOf
<1> DEFINE fd == FdOf(c)
<1> HIDE DEF fd
<1>2. c \in Names /\ SocketOf(c) = c
  BY SocketsDiffer
<1>3. PICK h : h = Reset(e, c)
  OBVIOUS
<1>4. /\ Sound(h, fds) /\ Live(h) = Live(e) \ {c} /\ \A m \in Live(h) : h.node[m] = e.node[m]
      /\ e.due = <<>> => h.due = <<>>
  BY <1>2, <1>3, ResetSound
<1>5. \A m \in Live(h) : h.node[m].fd # fd
  <2> SUFFICES ASSUME NEW m \in Live(h), h.node[m].fd = fd
               PROVE  FALSE
    OBVIOUS
  <2>1. fds[h.node[m].fd] = SocketOf(m) /\ m \in Names
    BY <1>4 DEF Sound, Live
  <2>2. SocketOf(m) = SocketOf(c)
    BY <1>1, <1>2, <2>1 DEF fd
  <2>3. m = c
    BY <1>2, <2>1, <2>2, SocketsDiffer
  <2> QED
    BY <1>4, <2>3
<1>6. f = Close(h, fd)
  BY <1>3 DEF EraseContext, fd
<1>7. Sound(f, fds) /\ Live(f) = Live(h) /\ f.node = h.node /\ f.due = h.due
  BY <1>4, <1>5, <1>6, CloseSound
<1> QED
  BY <1>1, <1>4, <1>5, <1>7 DEF fd

(* After k descriptors, no context with one of them is left.               *)
LEMMA EraseContextsSound ==
  ASSUME Sound(ex, fds), ex.due = <<>>, NEW f, f = EraseContexts(ex)
  PROVE  /\ Sound(f, fds) /\ f.due = <<>> /\ Live(f) \cap Conns = {}
<1> DEFINE n == NumFds
           A == {e \in Executors : /\ Sound(e, fds) /\ e.due = <<>>
                                   /\ Live(e) \subseteq Live(ex)
                                   /\ \A m \in Live(e) : e.node[m] = ex.node[m]}
           Step(k, a) == IF fds[k - 1] \in Conns THEN EraseContext(a, fds[k - 1]) ELSE a
           g == CHOOSE h : h = [k \in 0..n |-> IF k = 0 THEN ex
                                               ELSE IF fds[k - 1] \in Conns
                                               THEN EraseContext(h[k - 1], fds[k - 1])
                                               ELSE h[k - 1]]
<1>1. f = g[n]
  BY DEF EraseContexts
<1>2. n \in Nat /\ \A k \in 1..n : k - 1 \in Fds
  BY NumFdsAssumption DEF Fds
<1>3. ASSUME NEW k \in 1..n, NEW a \in A
      PROVE  Step(k, a) \in A /\ Live(Step(k, a)) = Live(a) \ ({fds[k - 1]} \cap Conns)
  <2>1. CASE fds[k - 1] \notin Conns
    BY <2>1
  <2>2. CASE fds[k - 1] \in Conns
    <3>1. PICK c \in Conns : c = fds[k - 1]
      BY <2>2
    <3>2. Accepted(c)
      BY <1>2, <3>1 DEF Accepted
    <3>3. PICK b : b = EraseContext(a, c)
      OBVIOUS
    <3>4. Sound(a, fds) /\ a.due = <<>>
      OBVIOUS
    <3>5. /\ Sound(b, fds) /\ Live(b) = Live(a) \ {c} /\ b.due = <<>>
          /\ \A m \in Live(b) : b.node[m] = a.node[m]
      BY <3>2, <3>3, <3>4, EraseSound
    <3>6. b \in Executors
      BY <3>5 DEF Sound
    <3>7. b \in A
      BY <3>5, <3>6
    <3> QED
      BY <2>2, <3>1, <3>3, <3>5, <3>7
  <2> QED
    BY <2>1, <2>2
<1>4. ex \in A
  BY DEF Sound
<1> DEFINE step == [x \in (1..n) \X A |-> Step(x[1], x[2])]
<1> HIDE DEF Step, A, n
<1>5. step \in [(1..n) \X A -> A]
  BY <1>3
<1>6. \A k \in 1..n, a \in A : step[<<k, a>>] = Step(k, a)
  OBVIOUS
<1> HIDE DEF step
<1>7. PICK h : h \in Loops(n, A, ex, step)
  BY <1>2, <1>4, <1>5, LoopExists, Zenon
<1>8. h = [k \in 0..n |-> IF k = 0 THEN ex ELSE Step(k, h[k - 1])]
  <2>1. h \in [0..n -> A] /\ h[0] = ex
    BY <1>7 DEF Loops
  <2>2. ASSUME NEW k \in 0..n, k # 0
        PROVE  h[k] = Step(k, h[k - 1])
    <3>1. k \in 1..n /\ k - 1 \in 0..n
      BY <1>2, <2>2
    <3> QED
      BY <1>6, <1>7, <2>1, <3>1 DEF Loops
  <2> QED
    BY <2>1, <2>2
<1>9. g = [k \in 0..n |-> IF k = 0 THEN ex ELSE Step(k, g[k - 1])]
  BY <1>8 DEF Step
<1> HIDE DEF g
<1> DEFINE Gone(k) == \A c \in Live(g[k]) \cap Conns : ex.node[c].fd \in Fds /\ ex.node[c].fd >= k
           S == {k \in 0..n : g[k] \in A /\ Gone(k)}
<1>10. 0 \in S
  <2>1. g[0] = ex
    BY <1>2, <1>9
  <2>2. \A c \in Live(ex) : ex.node[c].fd \in Fds
    BY LiveFds DEF Sound
  <2>3. \A fd \in Fds : fd >= 0
    BY DEF Fds
  <2> QED
    BY <1>2, <1>4, <2>1, <2>2, <2>3
<1>11. ASSUME NEW k \in 0..(n - 1), k \in S
       PROVE  k + 1 \in S
  <2>1. k + 1 \in 1..n /\ k + 1 \in 0..n /\ (k + 1) - 1 = k /\ k \in Fds
    BY <1>2 DEF Fds, n
  <2>2. g[k + 1] = Step(k + 1, g[k]) /\ g[k] \in A /\ Gone(k)
    BY <1>9, <1>11, <2>1
  <2>3. g[k + 1] \in A /\ Live(g[k + 1]) = Live(g[k]) \ ({fds[k]} \cap Conns)
    BY <1>3, <2>1, <2>2
  <2>4. ASSUME NEW c \in Live(g[k + 1]) \cap Conns
        PROVE  ex.node[c].fd \in Fds /\ ex.node[c].fd >= k + 1
    <3>1. c \in Live(g[k]) /\ c \in Conns
      BY <2>3
    <3>2. ex.node[c].fd \in Fds /\ ex.node[c].fd >= k
      BY <2>2, <3>1
    <3>3. c \in Live(ex)
      BY <2>2, <3>1 DEF A
    <3>4. fds[ex.node[c].fd] = c
      BY <3>1, <3>3, SocketsDiffer DEF Sound
    <3>5. ex.node[c].fd # k
      BY <2>3, <3>1, <3>4
    <3> QED
      BY <2>1, <3>2, <3>5 DEF Fds
  <2> QED
    BY <2>1, <2>3, <2>4
<1> HIDE DEF S
<1>12. n \in S
  BY <1>2, <1>10, <1>11, RoundByRound
<1>13. f \in A /\ Gone(n)
  BY <1>1, <1>12 DEF S
<1>14. Live(f) \cap Conns = {}
  BY <1>1, <1>13, NumFdsAssumption DEF Fds, n
<1> QED
  BY <1>13, <1>14 DEF A

(* When everything is destroyed there is nothing left.                     *)
LEMMA StopSound ==
  ASSUME Sound(ex, fds), ex.due = <<>>, OwnOpen(fds), Distinct(fds),
         NEW f, f = CloseMedia(CloseServer(EraseContexts(ex)))
  PROVE  \A t : Sound(f, t) /\ Live(f) = {}
<1>1. PICK e1 : e1 = EraseContexts(ex)
  OBVIOUS
<1>2. Sound(e1, fds) /\ Live(e1) \cap Conns = {}
  BY <1>1, EraseContextsSound
<1>3. /\ {"accept", "pop", "push"} \subseteq Names
      /\ \A n \in Names : n \in {"accept", "pop", "push"} \/ n \in Conns
  BY SocketsDiffer, NamesAssumption
<1>4. Live(e1) \subseteq {"accept", "pop", "push"}
  BY <1>2, <1>3 DEF Live
<1>5. PICK e2 : e2 = Reset(e1, "accept")
  OBVIOUS
<1>6. Sound(e2, fds) /\ Live(e2) \subseteq {"pop", "push"}
  BY <1>2, <1>3, <1>4, <1>5, ResetSound
<1>7. \A n \in Live(e2) : e2.node[n].fd # ServerFd
  <2>1. \A n \in Live(e2) : fds[e2.node[n].fd] = SocketOf(n)
    BY <1>6 DEF Sound
  <2> QED
    BY <1>6, <2>1, SocketsDiffer DEF OwnOpen
<1>8. PICK e3 : e3 = Close(e2, ServerFd)
  OBVIOUS
<1>9. Sound(e3, fds) /\ Live(e3) \subseteq {"pop", "push"}
  BY <1>6, <1>7, <1>8, CloseSound
<1>10. PICK e4 : e4 = Reset(e3, "push")
  OBVIOUS
<1>11. Sound(e4, fds) /\ Live(e4) \subseteq {"pop"}
  BY <1>3, <1>9, <1>10, ResetSound
<1>12. PICK e5 : e5 = Reset(e4, "pop")
  OBVIOUS
<1>13. Sound(e5, fds) /\ Live(e5) = {}
  BY <1>3, <1>11, <1>12, ResetSound
<1>14. PICK e6 : e6 = Close(e5, CanRxFd)
  OBVIOUS
<1>15. Sound(e6, fds) /\ Live(e6) = {}
  BY <1>13, <1>14, CloseSound
<1>16. f = Close(e6, CanTxFd)
  BY <1>1, <1>5, <1>8, <1>10, <1>12, <1>14 DEF CloseServer, CloseMedia
<1>17. Sound(f, fds) /\ Live(f) = {}
  BY <1>15, <1>16, CloseSound
<1> QED
  BY <1>17, OtherTableSound

---------------------------------------------------------------------------
(* The invariant.                                                          *)

LEMMA OwnFds ==
  /\ {CanRxFd, CanTxFd, ServerFd} \subseteq Fds
  /\ CanRxFd = 0 /\ CanTxFd = 1 /\ ServerFd = 2
BY NumFdsAssumption DEF Fds, CanRxFd, CanTxFd, ServerFd

LEMMA NewExecutorSound ==
  ASSUME NEW p \in {"epoll", "kqueue"}, NEW t
  PROVE  Sound(NewExecutor(p), t) /\ Live(NewExecutor(p)) = {}
<1> DEFINE e == NewExecutor(p)
           nodes == [n \in Names |-> NoNode]
<1>1. e = [platform |-> p, node |-> nodes, total |-> 0, interest |-> {}, active |-> <<>>, due |-> <<>>]
  BY DEF NewExecutor
<1>2. nodes \in [Names -> [fd : Fds \cup {-1}, events : Int]] /\ \A n \in Names : nodes[n].fd = -1
  BY DEF NoNode
<1> HIDE DEF e, nodes
<1>3. e \in Executors /\ e.node = nodes /\ e.interest = {} /\ e.total = 0 /\ e.due = <<>>
  BY <1>1, <1>2 DEF Executors
<1>4. Live(e) = {}
  BY <1>2, <1>3 DEF Live
<1>5. IsFiniteSet({}) /\ Cardinality({}) = 0
  BY FS_EmptySet, Zenon
<1>6. Sound(e, t)
  BY <1>3, <1>4, <1>5 DEF Sound
<1> QED
  BY <1>4, <1>6 DEF e

LEMMA InitHolds ==
  ASSUME Init
  PROVE  ReactorInv
<1>1. PICK p \in Platforms : ex = ServerStart(RegisterPopCallback(NewExecutor(p)))
  BY DEF Init
<1>2. fds = [fd \in Fds |-> IF fd = 0 THEN "canrx" ELSE IF fd = 1 THEN "cantx"
                            ELSE IF fd = 2 THEN "listen" ELSE "free"]
  <2>1. ASSUME NEW fd
        PROVE  (CASE fd = 0 -> "canrx" [] fd = 1 -> "cantx" [] fd = 2 -> "listen" [] OTHER -> "free")
                 = IF fd = 0 THEN "canrx" ELSE IF fd = 1 THEN "cantx"
                   ELSE IF fd = 2 THEN "listen" ELSE "free"
    OBVIOUS
  <2>2. fds = [fd \in Fds |-> CASE fd = 0 -> "canrx" [] fd = 1 -> "cantx"
                                [] fd = 2 -> "listen" [] OTHER -> "free"]
    BY DEF Init
  <2> QED
    BY <2>1, <2>2
<1>3. OwnOpen(fds)
  BY <1>2, OwnFds DEF OwnOpen
<1>4. Distinct(fds)
  BY <1>2 DEF Distinct, Sockets
<1>5. {"accept", "pop", "push"} \subseteq Names
  BY SocketsDiffer
<1>6. PICK e0 : e0 = NewExecutor(p)
  OBVIOUS
<1>7. Sound(e0, fds) /\ Live(e0) = {}
  BY <1>6, NewExecutorSound, PlatformsAssumption
<1>8. PICK e1 : e1 = RegisterAwaitableCallback(e0, "pop", CanRxFd, "Readable")
  OBVIOUS
<1>9. Sound(e1, fds) /\ Live(e1) = {"pop"}
  <2>1. fds[CanRxFd] = SocketOf("pop") /\ CanRxFd \in Fds /\ "pop" \in Names
    BY <1>3, <1>5, OwnFds, SocketsDiffer DEF OwnOpen
  <2>2. Registering(e0, e1, fds, fds, "pop", CanRxFd, "Readable")
    BY <1>7, <1>8, <2>1 DEF Registering
  <2>3. Sound(e1, fds) /\ Live(e1) = Live(e0) \cup {"pop"}
    BY <2>2, RegisteringSound
  <2> QED
    BY <1>7, <2>3
<1>10. ex = RegisterAwaitableCallback(e1, "accept", ServerFd, "Readable")
  BY <1>1, <1>6, <1>8 DEF ServerStart, RegisterPopCallback
<1>11. Sound(ex, fds) /\ Live(ex) = {"pop", "accept"}
  <2>1. fds[ServerFd] = SocketOf("accept") /\ ServerFd \in Fds /\ "accept" \in Names
    BY <1>3, <1>5, OwnFds, SocketsDiffer DEF OwnOpen
  <2>2. \A m \in Live(e1) : e1.node[m].fd # ServerFd
    <3>1. \A m \in Live(e1) : fds[e1.node[m].fd] = "canrx"
      BY <1>9, SocketsDiffer DEF Sound
    <3> QED
      BY <1>3, <3>1 DEF OwnOpen
  <2>3. "accept" \notin Live(e1)
    BY <1>9
  <2>4. Sound(ex, fds) /\ Live(ex) = Live(e1) \cup {"accept"}
    <3>1. Registering(e1, ex, fds, fds, "accept", ServerFd, "Readable")
      BY <1>9, <1>10, <2>1, <2>2, <2>3 DEF Registering
    <3> QED
      BY <3>1, RegisteringSound
  <2> QED
    BY <1>9, <2>4
<1>12. QueuedOnce(backlog, fds) /\ txq = 0 /\ running
  BY DEF Init, QueuedOnce
<1> QED
  BY <1>3, <1>4, <1>11, <1>12 DEF ReactorInv

(* A step that leaves the nodes as they are.                               *)
LEMMA SameLive ==
  ASSUME ReactorInv, Sound(ex', fds), Live(ex') = Live(ex), UNCHANGED <<fds, txq, running>>,
         QueuedOnce(backlog', fds)
  PROVE  ReactorInv'
<1>1. Sound(ex, fds)' /\ Distinct(fds)' /\ QueuedOnce(backlog, fds)' /\ OwnOpen(fds)' = OwnOpen(fds)
  BY DEF Sound, Distinct, QueuedOnce, OwnOpen, ReactorInv, Live, InterestOf
<1>2. Live(ex)' = Live(ex)
  BY DEF Live
<1> QED
  BY <1>1, <1>2 DEF ReactorInv

LEMMA NotifySound ==
  ASSUME ReactorInv, NEW s, Notify(s)
  PROVE  Sound(ex', fds) /\ Live(ex') = Live(ex)
<1>1. Sound(ex, fds) /\ ex \in Executors
  BY DEF ReactorInv, Sound
<1>2. CASE ex' = ex
  BY <1>1, <1>2
<1>3. CASE ex' = Arrived(ex, FdOf(s))
  <2>1. SameNodes(ex, ex') /\ ex'.interest = ex.interest
    BY <1>1, <1>3, ArrivedGives
  <2> QED
    BY <1>1, <2>1, SameNodesSound
<1> QED
  BY <1>2, <1>3 DEF Notify

LEMMA QueuedOneMore ==
  ASSUME NEW b, NEW t, QueuedOnce(b, t), NEW c \in Conns, c \notin ToSet(b),
         \A fd \in Fds : t[fd] # c
  PROVE  QueuedOnce(Append(b, c), t)
<1> DEFINE d == Append(b, c)
<1>1. b \in Seq(Conns) /\ Len(b) \in Nat /\ DOMAIN b = 1..Len(b)
  BY DEF QueuedOnce
<1>2. /\ d \in Seq(Conns) /\ DOMAIN d = 1..(Len(b) + 1) /\ d[Len(b) + 1] = c
      /\ \A i \in 1..Len(b) : d[i] = b[i]
  BY <1>1
<1> HIDE DEF d
<1>3. \A i \in DOMAIN d : i = Len(b) + 1 \/ i \in DOMAIN b
  BY <1>1, <1>2
<1>4. \A i \in DOMAIN b : b[i] # c /\ d[i] = b[i]
  BY <1>1, <1>2 DEF ToSet
<1>5. QueuedOnce(d, t)
  BY <1>2, <1>3, <1>4 DEF QueuedOnce
<1> QED
  BY <1>5 DEF d

(* The backlog without its first elements.                                 *)
LEMMA QueuedRest ==
  ASSUME NEW b, NEW t, QueuedOnce(b, t), NEW k \in 0..Len(b), k < Len(b),
         NEW d, d = SubSeq(b, k + 2, Len(b))
  PROVE  QueuedOnce(d, t) /\ b[k + 1] \in Conns /\ \A i \in DOMAIN d : d[i] # b[k + 1]
<1>1. b \in Seq(Conns) /\ Len(b) \in Nat /\ DOMAIN b = 1..Len(b) /\ k \in Nat
  BY DEF QueuedOnce
<1> DEFINE n == Len(b) - k - 1
<1>2. n \in Nat
  BY <1>1
<1>3. /\ d \in Seq(Conns) /\ DOMAIN d = 1..n
      /\ \A i \in 1..n : i + k + 1 \in DOMAIN b /\ i + k + 1 # k + 1 /\ d[i] = b[i + k + 1]
  <2>1. k + 2 \in Int /\ Len(b) \in Int /\ \A i \in (k + 2)..Len(b) : b[i] \in Conns
    BY <1>1
  <2>2. /\ SubSeq(b, k + 2, Len(b)) \in Seq(Conns)
        /\ Len(SubSeq(b, k + 2, Len(b))) = IF k + 2 <= Len(b) THEN Len(b) - (k + 2) + 1 ELSE 0
        /\ \A i \in 1..(Len(b) - (k + 2) + 1) :
             SubSeq(b, k + 2, Len(b))[i] = b[(k + 2) + i - 1]
    BY <2>1, SubSeqProperties
  <2>3. Len(b) - (k + 2) + 1 = n /\ (IF k + 2 <= Len(b) THEN Len(b) - (k + 2) + 1 ELSE 0) = n
    <3>1. PICK l \in Nat : l = Len(b)
      BY <1>1
    <3>2. k \in Nat /\ k < l
      BY <1>1, <3>1
    <3>3. l - (k + 2) + 1 = l - k - 1 /\ (~ k + 2 <= l => l - k - 1 = 0)
      BY <3>2
    <3> QED
      BY <3>1, <3>3
  <2>4. d \in Seq(Conns) /\ Len(d) = n /\ \A i \in 1..n : d[i] = b[(k + 2) + i - 1]
    BY <2>2, <2>3
  <2>5. \A i \in 1..n : /\ (k + 2) + i - 1 = i + k + 1
                         /\ i + k + 1 \in 1..Len(b) /\ i + k + 1 # k + 1
    BY <1>1
  <2>6. DOMAIN d = 1..n
    BY <2>4
  <2> HIDE DEF n
  <2> QED
    BY <1>1, <2>4, <2>5, <2>6
<1>4. k + 1 \in DOMAIN b /\ b[k + 1] \in Conns
  BY <1>1
<1>5. \A i \in DOMAIN d : d[i] # b[k + 1]
  BY <1>3, <1>4 DEF QueuedOnce
<1>6. ASSUME NEW i \in DOMAIN d, NEW j \in DOMAIN d, d[i] = d[j]
      PROVE  i = j
  <2>1. b[i + k + 1] = b[j + k + 1]
    BY <1>3, <1>6
  <2>2. i + k + 1 = j + k + 1
    <3>1. i + k + 1 \in DOMAIN b /\ j + k + 1 \in DOMAIN b
      BY <1>3
    <3>2. \A x, y \in DOMAIN b : b[x] = b[y] => x = y
      BY DEF QueuedOnce
    <3> QED
      BY <2>1, <3>1, <3>2
  <2>3. i \in Int /\ j \in Int
    BY <1>2, <1>3
  <2> QED
    BY <1>1, <2>2, <2>3
<1>7. \A i \in DOMAIN d : \A fd \in Fds : t[fd] # d[i]
  BY <1>3 DEF QueuedOnce
<1> QED
  BY <1>3, <1>4, <1>5, <1>6, <1>7 DEF QueuedOnce

LEMMA PeerStepsKeep ==
  ASSUME ReactorInv, NEW c \in Conns, PeerConnects(c) \/ PeerSends(c) \/ PeerCloses(c) \/ FrameArrives
  PROVE  ReactorInv'
<1>1. QueuedOnce(backlog, fds)
  BY DEF ReactorInv
<1>2. CASE PeerConnects(c)
  <2>1. backlog' = Append(backlog, c) /\ c \notin ToSet(backlog) /\ \A fd \in Fds : fds[fd] # c
    BY <1>2 DEF PeerConnects, Fresh, Connecting, Accepted
  <2>2. QueuedOnce(backlog', fds)
    BY <1>1, <2>1, QueuedOneMore
  <2> QED
    BY <1>2, <2>2, NotifySound, SameLive DEF PeerConnects
<1>3. CASE PeerSends(c)
  BY <1>1, <1>3, NotifySound, SameLive DEF PeerSends
<1>4. CASE PeerCloses(c)
  BY <1>1, <1>4, NotifySound, SameLive DEF PeerCloses
<1>5. CASE FrameArrives
  BY <1>1, <1>5, NotifySound, SameLive DEF FrameArrives
<1> QED
  BY <1>2, <1>3, <1>4, <1>5

LEMMA PollKeeps ==
  ASSUME ReactorInv, Poll
  PROVE  ReactorInv'
<1>1. PICK rep \in {Reported(ex, Ready)} : ex' = PollAwaitableResources(ex, rep)
  BY DEF Poll
<1>2. Sound(ex, fds) /\ ex \in Executors
  BY DEF ReactorInv, Sound
<1>3. rep.evs \in Seq(Keys) /\ rep.rest \in Seq(Keys)
  BY <1>1, <1>2, ReportTyped
<1>4. Sound(ex', fds) /\ Live(ex') = Live(ex)
  BY <1>1, <1>2, <1>3, PollSound
<1> QED
  BY <1>4, SameLive DEF Poll, ReactorInv

LEMMA RunningNode ==
  ASSUME ReactorInv, NEW n, Running(n)
  PROVE  /\ Sound(Taken(ex), fds) /\ Live(Taken(ex)) = Live(ex) /\ Taken(ex).node = ex.node
         /\ n \in Live(ex) /\ Sound(ex, fds)
BY TakenSound DEF Running, ReactorInv

LEMMA HandlePopKeeps ==
  ASSUME ReactorInv, HandlePop
  PROVE  ReactorInv'
<1>1. Sound(ex', fds) /\ Live(ex') = Live(ex)
  BY RunningNode DEF HandlePop
<1> QED
  BY <1>1, SameLive DEF HandlePop, ReactorInv

LEMMA AcceptClientKeeps ==
  ASSUME ReactorInv, HandleAccept, AcceptClient
  PROVE  ReactorInv'
<1>1. PICK k \in Aborts :
        /\ k < Len(backlog) /\ backlog' = SubSeq(backlog, k + 2, Len(backlog))
        /\ fds' = [fds EXCEPT ![LowestFree(fds)] = backlog[k + 1]]
        /\ ex' = RegisterAwaitableCallback(Taken(ex), backlog[k + 1], LowestFree(fds), "Readable")
  BY DEF AcceptClient
<1>2. PICK e : e = Taken(ex)
  OBVIOUS
<1>3. Sound(e, fds) /\ Live(e) = Live(ex) /\ running /\ UNCHANGED <<txq, running>>
  BY <1>2, RunningNode DEF HandleAccept, Running
<1>4. PICK fd \in Fds : fd = LowestFree(fds) /\ fds[fd] = "free"
  <2>1. FreeFds(fds) # {} /\ FreeFds(fds) \subseteq Nat /\ FreeFds(fds) \subseteq Fds
    BY NumFdsAssumption DEF AcceptClient, FreeFds, Fds
  <2>2. LowestFree(fds) \in FreeFds(fds)
    BY <2>1, LeastNatural DEF LowestFree
  <2> QED
    BY <2>2 DEF FreeFds
<1>5. k \in 0..Len(backlog)
  BY DEF Aborts
<1>6. PICK c : c = backlog[k + 1]
  OBVIOUS
<1>7. QueuedOnce(backlog', fds) /\ c \in Conns /\ \A i \in DOMAIN backlog' : backlog'[i] # c
  BY <1>1, <1>5, <1>6, QueuedRest DEF ReactorInv
<1>8. \A f \in Fds : fds[f] # c
  <2>1. k + 1 \in DOMAIN backlog
    BY <1>1, <1>5 DEF ReactorInv, QueuedOnce
  <2> QED
    BY <1>6, <2>1 DEF ReactorInv, QueuedOnce
<1>9. c \in Names /\ SocketOf(c) = c /\ c # "push" /\ c \in Sockets
  BY <1>7, SocketsDiffer DEF Sockets
<1>10. fds' = [fds EXCEPT ![fd] = c] /\ ex' = RegisterAwaitableCallback(e, c, fd, "Readable")
  BY <1>1, <1>2, <1>4, <1>6
<1>11. Distinct(fds)
  BY DEF ReactorInv
<1>12. fds'[fd] = c /\ (\A f \in Fds : f # fd => fds'[f] = fds[f]) /\ DOMAIN fds' = Fds
  BY <1>10, <1>11 DEF Distinct
<1>13. \A m \in Live(e) : e.node[m].fd \in Fds /\ e.node[m].fd # fd /\ m # c
  <2>1. \A m \in Live(e) : m \in Names /\ e.node[m].fd \in Fds /\ fds[e.node[m].fd] = SocketOf(m)
    BY <1>3, LiveFds DEF Sound
  <2> QED
    BY <1>4, <1>8, <1>9, <2>1, SocketsDiffer
<1>14. \A m \in Live(e) : fds'[e.node[m].fd] = fds[e.node[m].fd]
  BY <1>12, <1>13
<1>15. Sound(ex', fds') /\ Live(ex') = Live(e) \cup {c}
  <2>1. Registering(e, ex', fds, fds', c, fd, "Readable")
    BY <1>3, <1>9, <1>10, <1>12, <1>13, <1>14 DEF Registering
  <2> QED
    BY <2>1, RegisteringSound
<1>16. Distinct(fds')
  <2>1. fds' \in [Fds -> Sockets \cup {"free"}]
    BY <1>9, <1>10, <1>11 DEF Distinct
  <2>2. ASSUME NEW f \in Fds, NEW g \in Fds, fds'[f] = fds'[g], f # g
        PROVE  fds'[f] = "free"
    BY <1>8, <1>11, <1>12, <2>2 DEF Distinct
  <2> QED
    BY <2>1, <2>2 DEF Distinct
<1>17. OwnOpen(fds')
  BY <1>3, <1>4, <1>12, OwnFds DEF ReactorInv, OwnOpen
<1>18. QueuedOnce(backlog', fds')
  BY <1>7, <1>12 DEF QueuedOnce
<1>19. txq = 0 => "push" \notin Live(ex')
  BY <1>3, <1>9, <1>15 DEF ReactorInv
<1>20. Sound(ex, fds)' /\ Distinct(fds)' /\ OwnOpen(fds)' /\ QueuedOnce(backlog, fds)' /\ Live(ex)' = Live(ex')
  BY <1>15, <1>16, <1>17, <1>18 DEF Sound, Distinct, OwnOpen, QueuedOnce, Live, InterestOf
<1> QED
  BY <1>3, <1>19, <1>20 DEF ReactorInv

LEMMA HandleAcceptKeeps ==
  ASSUME ReactorInv, HandleAccept
  PROVE  ReactorInv'
<1>1. /\ Sound(Taken(ex), fds) /\ Live(Taken(ex)) = Live(ex) /\ QueuedOnce(backlog, fds)
      /\ UNCHANGED <<txq, running>>
  BY RunningNode DEF HandleAccept, ReactorInv
<1>2. CASE AcceptNothing
  <2>1. backlog' = backlog \/ backlog' = <<>>
    BY <1>2 DEF AcceptNothing
  <2>2. QueuedOnce(backlog', fds)
    <3>1. CASE backlog' = <<>>
      BY <3>1 DEF QueuedOnce
    <3> QED
      BY <1>1, <2>1, <3>1
  <2> QED
    BY <1>1, <1>2, <2>2, SameLive DEF AcceptNothing
<1>3. CASE AcceptRefused
  <2>1. PICK k \in Aborts : k < Len(backlog) /\ backlog' = SubSeq(backlog, k + 2, Len(backlog))
    BY <1>3 DEF AcceptRefused
  <2>2. k \in 0..Len(backlog)
    BY DEF Aborts
  <2>3. QueuedOnce(backlog', fds)
    BY <1>1, <2>1, <2>2, QueuedRest
  <2> QED
    BY <1>1, <1>3, <2>3, SameLive DEF AcceptRefused
<1>4. CASE AcceptClient
  BY <1>4, AcceptClientKeeps
<1> QED
  BY <1>2, <1>3, <1>4 DEF HandleAccept

LEMMA CloseContextKeeps ==
  ASSUME ReactorInv, NEW c \in Conns, Running(c), CloseContext(c),
         UNCHANGED <<backlog, txq, running>>
  PROVE  ReactorInv'
<1>1. PICK e : e = Taken(ex)
  OBVIOUS
<1>2. Sound(e, fds) /\ Live(e) = Live(ex) /\ c \in Live(ex) /\ Sound(ex, fds) /\ running
  BY <1>1, RunningNode DEF Running
<1>3. Accepted(c)
  <2>1. ex \in Executors /\ fds[ex.node[c].fd] = SocketOf(c)
    BY <1>2 DEF Sound
  <2>2. ex.node[c].fd \in Fds /\ SocketOf(c) = c
    BY <1>2, <2>1, LiveFds, SocketsDiffer
  <2> QED
    BY <2>1, <2>2 DEF Accepted
<1>4. PICK fd : fd = FdOf(c)
  OBVIOUS
<1>5. ex' = EraseContext(e, c) /\ fds' = [fds EXCEPT ![fd] = "free"]
  BY <1>1, <1>4 DEF CloseContext
<1>6. /\ fd \in Fds /\ fds[fd] = c
      /\ Sound(ex', fds) /\ Live(ex') = Live(e) \ {c} /\ \A m \in Live(ex') : ex'.node[m].fd # fd
  BY <1>2, <1>3, <1>4, <1>5, EraseSound
<1>7. Distinct(fds)
  BY DEF ReactorInv
<1>8. fds'[fd] = "free" /\ (\A f \in Fds : f # fd => fds'[f] = fds[f]) /\ DOMAIN fds' = Fds
  BY <1>5, <1>6, <1>7 DEF Distinct
<1>9. Sound(ex', fds')
  <2>1. \A m \in Live(ex') : ex'.node[m].fd \in Fds
    BY <1>6, LiveFds DEF Sound
  <2>2. \A m \in Live(ex') : fds'[ex'.node[m].fd] = fds[ex'.node[m].fd]
    BY <1>6, <1>8, <2>1
  <2> QED
    BY <1>6, <2>2, OtherTableSound
<1>10. Distinct(fds')
  <2>1. fds' \in [Fds -> Sockets \cup {"free"}]
    BY <1>5, <1>7 DEF Distinct
  <2>2. ASSUME NEW f \in Fds, NEW g \in Fds, fds'[f] = fds'[g], f # g
        PROVE  fds'[f] = "free"
    BY <1>7, <1>8, <2>2 DEF Distinct
  <2> QED
    BY <2>1, <2>2 DEF Distinct
<1>11. OwnOpen(fds')
  <2>1. c \notin {"listen", "canrx", "cantx", "free"}
    BY ConnsAssumption
  <2> QED
    BY <1>2, <1>6, <1>8, <2>1, OwnFds DEF ReactorInv, OwnOpen
<1>12. QueuedOnce(backlog', fds')
  <2>1. \A d \in Conns : d # "free"
    BY ConnsAssumption
  <2>2. \A i \in DOMAIN backlog : backlog[i] \in Conns
    BY DEF ReactorInv, QueuedOnce
  <2> QED
    BY <1>8, <2>1, <2>2 DEF ReactorInv, QueuedOnce
<1>13. txq = 0 => "push" \notin Live(ex')
  BY <1>2, <1>6 DEF ReactorInv
<1>14. Sound(ex, fds)' /\ Distinct(fds)' /\ OwnOpen(fds)' /\ QueuedOnce(backlog, fds)' /\ Live(ex)' = Live(ex')
  BY <1>9, <1>10, <1>11, <1>12 DEF Sound, Distinct, OwnOpen, QueuedOnce, Live, InterestOf
<1> QED
  BY <1>2, <1>13, <1>14 DEF ReactorInv

LEMMA HandleClientRequestKeeps ==
  ASSUME ReactorInv, NEW c \in Conns, HandleClientRequest(c)
  PROVE  ReactorInv'
<1>1. Running(c) /\ UNCHANGED <<backlog, txq, running>>
  BY DEF HandleClientRequest
<1>2. CASE ReadOne(c)
  <2>1. Sound(ex', fds) /\ Live(ex') = Live(ex)
    BY <1>1, <1>2, RunningNode DEF ReadOne
  <2> QED
    BY <1>1, <1>2, <2>1, SameLive DEF ReadOne, ReactorInv
<1>3. CASE CloseContext(c)
  BY <1>1, <1>3, CloseContextKeeps
<1> QED
  BY <1>2, <1>3 DEF HandleClientRequest

(* The push callback comes and goes.                                       *)
LEMMA PushStepKeeps ==
  ASSUME ReactorInv, running, UNCHANGED <<fds, backlog, running>>, Sound(ex', fds),
         txq' \in Nat, txq' = 0 => "push" \notin Live(ex')
  PROVE  ReactorInv'
<1>1. Sound(ex, fds)' /\ Distinct(fds)' /\ OwnOpen(fds)' /\ QueuedOnce(backlog, fds)' /\ Live(ex)' = Live(ex')
  BY DEF ReactorInv, Sound, Distinct, OwnOpen, QueuedOnce, Live, InterestOf
<1> QED
  BY <1>1 DEF ReactorInv

LEMMA HandlePushKeeps ==
  ASSUME ReactorInv, HandlePush
  PROVE  ReactorInv'
<1>1. PICK e : e = Taken(ex)
  OBVIOUS
<1>2. /\ Sound(e, fds) /\ Live(e) = Live(ex) /\ "push" \in Live(ex) /\ running
      /\ UNCHANGED <<fds, backlog, running>> /\ txq' = txq - 1
      /\ ex' = IF txq = 1 THEN Reset(e, "push") ELSE e
  BY <1>1, RunningNode DEF HandlePush, Running
<1>3. txq \in Nat /\ txq # 0 /\ "push" \in Names
  BY <1>2, SocketsDiffer DEF ReactorInv
<1>4. Sound(ex', fds) /\ (txq = 1 => "push" \notin Live(ex'))
  BY <1>2, <1>3, ResetSound
<1>5. txq' \in Nat /\ (txq' = 0 => "push" \notin Live(ex'))
  BY <1>2, <1>3, <1>4
<1> QED
  BY <1>2, <1>4, <1>5, PushStepKeeps

LEMMA TransportSendsKeeps ==
  ASSUME ReactorInv, TransportSends
  PROVE  ReactorInv'
<1>1. /\ running /\ UNCHANGED <<fds, backlog, running>> /\ txq' = txq + 1
      /\ ex' = IF txq = 0 THEN RegisterPushCallback(ex) ELSE ex
  BY DEF TransportSends
<1>2. Sound(ex, fds) /\ txq \in Nat /\ txq' \in Nat /\ txq' # 0 /\ OwnOpen(fds)
  BY <1>1 DEF ReactorInv
<1>3. CASE txq # 0
  BY <1>1, <1>2, <1>3, PushStepKeeps
<1>4. CASE txq = 0
  <2>1. ex' = RegisterAwaitableCallback(ex, "push", CanTxFd, "Writable") /\ "push" \notin Live(ex)
    BY <1>1, <1>4 DEF RegisterPushCallback, ReactorInv
  <2>2. fds[CanTxFd] = SocketOf("push") /\ CanTxFd \in Fds /\ "push" \in Names
    BY <1>2, OwnFds, SocketsDiffer DEF OwnOpen
  <2>3. \A m \in Live(ex) : ex.node[m].fd # CanTxFd
    <3>1. \A m \in Live(ex) : m \in Names /\ fds[ex.node[m].fd] = SocketOf(m)
      BY <1>2 DEF Sound, Live
    <3> QED
      BY <2>1, <2>2, <3>1, SocketsDiffer
  <2>4. Sound(ex', fds)
    <3>1. Registering(ex, ex', fds, fds, "push", CanTxFd, "Writable")
      BY <1>2, <2>1, <2>2, <2>3 DEF Registering
    <3> QED
      BY <3>1, RegisteringSound
  <2> QED
    BY <1>1, <1>2, <2>4, PushStepKeeps
<1> QED
  BY <1>3, <1>4

LEMMA StopKeeps ==
  ASSUME ReactorInv, Stop
  PROVE  ReactorInv'
<1>1. /\ running /\ ex.due = <<>> /\ ex' = CloseMedia(CloseServer(EraseContexts(ex)))
      /\ fds' = [fd \in Fds |-> "free"] /\ backlog' = <<>> /\ txq' = 0 /\ running' = FALSE
  BY DEF Stop
<1>2. Sound(ex, fds) /\ OwnOpen(fds) /\ Distinct(fds)
  BY <1>1 DEF ReactorInv
<1>3. Sound(ex', fds') /\ Live(ex') = {}
  BY <1>1, <1>2, StopSound
<1>4. Distinct(fds')
  BY <1>1 DEF Distinct
<1>5. QueuedOnce(backlog', fds')
  BY <1>1 DEF QueuedOnce
<1>6. Sound(ex, fds)' /\ Distinct(fds)' /\ QueuedOnce(backlog, fds)' /\ Live(ex)' = {}
  BY <1>3, <1>4, <1>5 DEF Sound, Distinct, QueuedOnce, Live, InterestOf
<1> QED
  BY <1>1, <1>6 DEF ReactorInv

LEMMA Inductive ==
  ASSUME ReactorInv, [Next]_vars
  PROVE  ReactorInv'
<1>1. CASE \E c \in Conns : PeerConnects(c) \/ PeerSends(c) \/ PeerCloses(c)
  BY <1>1, PeerStepsKeep
<1>2. CASE FrameArrives
  BY <1>2, NotifySound, SameLive DEF FrameArrives, ReactorInv
<1>3. CASE TransportSends
  BY <1>3, TransportSendsKeeps
<1>4. CASE RunCallback
  BY <1>4, HandleAcceptKeeps, HandlePopKeeps, HandlePushKeeps, HandleClientRequestKeeps DEF RunCallback
<1>5. CASE Poll
  BY <1>5, PollKeeps
<1>6. CASE Stop
  BY <1>6, StopKeeps
<1>7. CASE UNCHANGED vars
  <2>1. Sound(ex', fds) /\ Live(ex') = Live(ex) /\ QueuedOnce(backlog', fds)
    BY <1>7 DEF vars, ReactorInv
  <2> QED
    BY <1>7, <2>1, SameLive DEF vars
<1> QED
  BY <1>1, <1>2, <1>3, <1>4, <1>5, <1>6, <1>7 DEF Next

---------------------------------------------------------------------------
(* The theorems.                                                           *)

LEMMA InterestFollows ==
  ASSUME ReactorInv
  PROVE  InterestIsLive
<1>1. /\ ex \in Executors /\ ex.interest = {InterestOf(ex, n) : n \in Live(ex)}
      /\ \A n \in Live(ex) : fds[ex.node[n].fd] = SocketOf(n)
      /\ ex.due \in Seq(Live(ex))
  BY DEF ReactorInv, Sound
<1>2. ASSUME NEW r \in ex.interest
      PROVE  \E n \in Names : /\ r.ptr = Owned(n)
                              /\ ex.node[n] = [fd |-> r.fd, events |-> r.events]
                              /\ fds[r.fd] = SocketOf(n)
  <2>1. PICK n \in Live(ex) : r = InterestOf(ex, n)
    BY <1>1
  <2>2. n \in Names /\ r.ptr = Owned(n) /\ r.fd = ex.node[n].fd /\ r.events = ex.node[n].events
    BY <2>1 DEF Live, InterestOf
  <2>3. ex.node[n] = [fd |-> ex.node[n].fd, events |-> ex.node[n].events]
    <3>1. ex.node[n] \in [fd : Fds \cup {-1}, events : Int]
      BY <1>1, <2>2 DEF Executors
    <3> QED
      BY <3>1
  <2> QED
    BY <1>1, <2>1, <2>2, <2>3
<1>3. ASSUME NEW n \in Names
      PROVE  ex.node[n].fd >= 0 <=> n \in Live(ex)
  <2>1. ex.node[n].fd \in Fds \cup {-1}
    BY <1>1, LiveFds
  <2> QED
    BY <2>1, NumFdsAssumption DEF Live, Fds
<1>4. \A n \in Names : ex.node[n].fd >= 0 => \E r \in ex.interest : r.ptr = Owned(n)
  <2>1. \A n \in Live(ex) : InterestOf(ex, n) \in ex.interest /\ InterestOf(ex, n).ptr = Owned(n)
    BY <1>1 DEF InterestOf
  <2> QED
    BY <1>3, <2>1
<1>5. \A n \in ToSet(ex.due) : ex.node[n].fd >= 0
  <2>1. ToSet(ex.due) \subseteq Live(ex)
    BY <1>1 DEF ToSet
  <2>2. Live(ex) \subseteq Names
    BY DEF Live
  <2> QED
    BY <1>3, <2>1, <2>2
<1> QED
  BY <1>2, <1>4, <1>5 DEF InterestIsLive

LEMMA CountFollows ==
  ASSUME ReactorInv
  PROVE  AwaitablesCounted
<1>1. /\ ex \in Executors /\ ex.interest = {InterestOf(ex, n) : n \in Live(ex)}
      /\ ex.total = Cardinality(Live(ex)) /\ ex.due \in Seq(Live(ex))
  BY DEF ReactorInv, Sound
<1>2. {n \in Names : ex.node[n].fd >= 0} = Live(ex)
  <2>1. \A n \in Names : ex.node[n].fd \in Fds \cup {-1}
    BY <1>1, LiveFds
  <2>2. \A n \in Names : ex.node[n].fd >= 0 <=> ex.node[n].fd # -1
    BY <2>1, NumFdsAssumption DEF Fds
  <2> QED
    BY <2>2 DEF Live
<1>3. ASSUME ~running
      PROVE  ex.total = 0 /\ ex.interest = {} /\ ex.due = <<>>
  <2>1. Live(ex) = {}
    BY <1>3 DEF ReactorInv
  <2>2. Cardinality({}) = 0
    BY FS_EmptySet, Zenon
  <2>3. ex.due \in Seq({})
    BY <1>1, <2>1
  <2>4. ex.due = <<>>
    BY <2>3
  <2> QED
    BY <1>1, <2>1, <2>2, <2>4
<1> QED
  BY <1>1, <1>2, <1>3 DEF AwaitablesCounted

(* On both platforms, with any number of descriptors and connections, the  *)
(* pointers the kernel holds lead to live nodes of the descriptor's        *)
(* present socket, every node is known to the kernel, and what is due is   *)
(* still there.                                                            *)
THEOREM InterestsAlwaysLive == FairSpec => []InterestIsLive
<1>1. Init => ReactorInv
  BY InitHolds
<1>2. ReactorInv /\ [Next]_vars => ReactorInv'
  BY Inductive
<1>3. ReactorInv => InterestIsLive
  BY InterestFollows
<1> QED
  BY <1>1, <1>2, <1>3, PTL DEF FairSpec

(* total_awaitables_ is the number of nodes at all times, and after the    *)
(* loop has ended nothing is left registered or scheduled.                 *)
THEOREM AwaitablesAlwaysCounted == FairSpec => []AwaitablesCounted
<1>1. Init => ReactorInv
  BY InitHolds
<1>2. ReactorInv /\ [Next]_vars => ReactorInv'
  BY Inductive
<1>3. ReactorInv => AwaitablesCounted
  BY CountFollows
<1> QED
  BY <1>1, <1>2, <1>3, PTL DEF FairSpec

=============================================================================
