------------------------ MODULE SocketFramingProofs ------------------------
(***************************************************************************)
(* Proofs about SocketFraming for any messages, fragments, header size and *)
(* buffer: the variables keep their types, what is handed up before the    *)
(* first cut is intact and in order, and a connection is given up only for *)
(* a reason.                                                               *)
(***************************************************************************)
EXTENDS SocketFraming, SequenceTheorems, TLAPS

(* The k-th cell of a message as it is written: header first, then payload. *)
CellAt(m, k) ==
  IF k <= HeaderSize THEN [msg |-> m, part |-> "header", pos |-> k]
                     ELSE [msg |-> m, part |-> "payload", pos |-> k - HeaderSize]

(* Which cell of its message a cell is. *)
Place(c) == IF c.part = "header" THEN c.pos ELSE HeaderSize + c.pos

LengthOf(m) == HeaderSize + TotalSize(m)

(* Whether something of message m was put on the wire, and how much of an *)
(* uncut one, when the writer is at fragment f of message k.              *)
Begun(m, k, f) == m < k \/ (m = k /\ f > 0)
Reached == IF frag = 0 THEN 0 ELSE HeaderSize + SizeOf(cur, frag - 1)
Written(m, k, reached) == IF m < k THEN LengthOf(m) ELSE reached

(* Whether message m comes before every one that was cut. *)
Uncut(m, c) == \A x \in c : m < x

(* The writer is at a fragment the message has, and cuts only what it began. *)
WriterShape ==
  /\ cur \in Ids => frag <= Len(Msgs[cur])
  /\ cur \notin Ids => frag = 0
  /\ \A x \in cut : Begun(x, cur, frag)

(* What is on the wire are cells of messages that were begun, in the order *)
(* of the messages; the message being written is the last.                 *)
WireShape ==
  /\ \A i \in 1 .. Len(wire) :
       /\ wire[i] = CellAt(wire[i].msg, Place(wire[i]))
       /\ Place(wire[i]) \in 1 .. LengthOf(wire[i].msg)
       /\ Begun(wire[i].msg, cur, frag)
  /\ \A i, j \in 1 .. Len(wire) : i <= j => wire[i].msg <= wire[j].msg
  /\ frag > 0 /\ wire # <<>> => wire[Len(wire)].msg = cur

(* On wire w, cell i being the one at place p of message m, the cells of m *)
(* up to place z follow without a gap, and then the first cell of a later  *)
(* message or, when m is the message k being written, nothing.             *)
Run(w, i, m, p, z, k) ==
  LET last == i + z - p
  IN  /\ p <= z
      /\ last <= Len(w)
      /\ m = k => last = Len(w)
      /\ \A j \in i .. last : w[j] = CellAt(m, p + (j - i))
      /\ last < Len(w) => Place(w[last + 1]) = 1 /\ m < w[last + 1].msg

(* Before the first cut nothing of what was written is missing. *)
Unbroken ==
  \A i \in 1 .. Len(wire) :
    Uncut(wire[i].msg, cut) =>
      Run(wire, i, wire[i].msg, Place(wire[i]), Written(wire[i].msg, cur, Reached), cur)

(* A reader in phase Header is between two messages. *)
AtHeader ==
  ~closed /\ phase = "Header" =>
    /\ wire # <<>> /\ Uncut(wire[1].msg, cut) => Place(wire[1]) = 1
    /\ Uncut(cur, cut) /\ frag > 0 => wire # <<>>

(* A reader in phase Payload is behind the header of the message whose size*)
(* it has.                                                                 *)
Behind(m) ==
  /\ size = TotalSize(m)
  /\ Begun(m, cur, frag)
  /\ \A i \in 1 .. Len(wire) : m <= wire[i].msg
  /\ Uncut(m, cut) => /\ wire = <<>> => m = cur /\ frag = 1
                      /\ wire # <<>> => wire[1].msg = m /\ Place(wire[1]) = HeaderSize + 1
AtPayload == ~closed /\ phase = "Payload" => \E m \in Ids : Behind(m)

(* What was handed up is behind what is on the wire. *)
DeliveredShape ==
  \A n \in 1 .. Len(delivered) :
    /\ delivered[n] # <<>>
    /\ \A k \in 1 .. Len(delivered[n]) :
         /\ delivered[n][k].msg <= cur
         /\ \A i \in 1 .. Len(wire) : delivered[n][k].msg <= wire[i].msg
    /\ Uncut(delivered[n][1].msg, cut) =>
         /\ delivered[n][1].msg < cur
         /\ \A i \in 1 .. Len(wire) : delivered[n][1].msg < wire[i].msg

(* IntactBeforeFirstCut, by the first cell of each payload. *)
DeliveredIntact ==
  \A n \in 1 .. Len(delivered) : Uncut(delivered[n][1].msg, cut) =>
    /\ Intact(delivered[n])
    /\ n > 1 => delivered[n - 1][1].msg < delivered[n][1].msg

(* The inductive invariant. *)
StreamInv ==
  /\ TypeOK
  /\ WriterShape
  /\ WireShape
  /\ Unbroken
  /\ AtHeader
  /\ AtPayload
  /\ DeliveredShape
  /\ DeliveredIntact
  /\ ClosedOnlyForAReason

-----------------------------------------------------------------------------
(* The sizes of a message's fragments add up to its size. *)
LEMMA SizeFacts ==
  ASSUME NEW m \in Ids
  PROVE  /\ Len(Msgs[m]) \in Nat \ {0}
         /\ \A n \in 0 .. Len(Msgs[m]) : SizeOf(m, n) \in Nat
         /\ SizeOf(m, 0) = 0
         /\ \A n \in 1 .. Len(Msgs[m]) : SizeOf(m, n - 1) < SizeOf(m, n)
         /\ \A n \in 1 .. Len(Msgs[m]) : 1 <= SizeOf(m, n)
         /\ TotalSize(m) \in Nat \ {0}
         /\ \A n \in 0 .. Len(Msgs[m]) - 1 : SizeOf(m, n) < TotalSize(m)
  <1>1. Msgs[m] \in Seq(Nat \ {0}) /\ Msgs[m] # <<>>
    BY FramingAssumption DEF Ids
  <1>2. Len(Msgs[m]) \in Nat \ {0}
    BY <1>1
  <1>3. \A n \in 1 .. Len(Msgs[m]) : Msgs[m][n] \in Nat \ {0}
    BY <1>1
  <1>4. \A j \in 1 .. Len(Msgs[m]) : \A i \in 1 .. j - 1 : Msgs[m][i] < Msgs[m][j]
    BY FramingAssumption DEF Ids
  <1>5. \A n \in 1 .. Len(Msgs[m]) : SizeOf(m, n) = Msgs[m][n]
    BY <1>2 DEF SizeOf
  <1>6. SizeOf(m, 0) = 0
    BY DEF SizeOf
  <1>7. \A n \in 0 .. Len(Msgs[m]) : SizeOf(m, n) \in Nat
    BY <1>2, <1>3, <1>5, <1>6
  <1>8. \A n \in 1 .. Len(Msgs[m]) : 1 <= SizeOf(m, n)
    BY <1>2, <1>3, <1>5
  <1>9. \A j \in 1 .. Len(Msgs[m]) : \A i \in 0 .. j - 1 : SizeOf(m, i) < SizeOf(m, j)
    <2> SUFFICES ASSUME NEW j \in 1 .. Len(Msgs[m]), NEW i \in 0 .. j - 1
                 PROVE  SizeOf(m, i) < SizeOf(m, j)
      OBVIOUS
    <2>1. CASE i = 0
      BY <2>1, <1>2, <1>6, <1>7, <1>8
    <2>2. CASE i # 0
      BY <2>2, <1>2, <1>4, <1>5
    <2> QED
      BY <2>1, <2>2
  <1>10. TotalSize(m) \in Nat \ {0}
    BY <1>2, <1>3, <1>5 DEF TotalSize
  <1>11. \A n \in 0 .. Len(Msgs[m]) - 1 : SizeOf(m, n) < TotalSize(m)
    BY <1>2, <1>9 DEF TotalSize
  <1>12. \A n \in 1 .. Len(Msgs[m]) : SizeOf(m, n - 1) < SizeOf(m, n)
    BY <1>2, <1>9
  <1> QED
    BY <1>2, <1>6, <1>7, <1>8, <1>10, <1>11, <1>12

(* A cell is known by its message and its place in it. *)
LEMMA CellFacts ==
  ASSUME NEW m \in Ids, NEW k \in Nat \ {0}
  PROVE  /\ CellAt(m, k) \in Cell
         /\ CellAt(m, k).msg = m
         /\ Place(CellAt(m, k)) = k
  <1>1. HeaderSize \in Nat \ {0}
    BY FramingAssumption
  <1>2. CASE k <= HeaderSize
    BY <1>1, <1>2 DEF CellAt, Place, Cell
  <1>3. CASE ~(k <= HeaderSize)
    BY <1>1, <1>3 DEF CellAt, Place, Cell
  <1> QED
    BY <1>2, <1>3

(* Behind the header come the cells of the payload. *)
LEMMA PayloadCell ==
  ASSUME NEW m, NEW k \in Nat \ {0}
  PROVE  CellAt(m, HeaderSize + k) = [msg |-> m, part |-> "payload", pos |-> k]
  <1>1. HeaderSize \in Nat
    BY FramingAssumption
  <1>2. PICK j \in Nat : j = HeaderSize + k
    BY <1>1
  <1>3. ~(j <= HeaderSize) /\ j - HeaderSize = k
    BY <1>1, <1>2
  <1>4. CellAt(m, j) = [msg |-> m, part |-> "payload", pos |-> j - HeaderSize]
    BY <1>1, <1>3 DEF CellAt
  <1> QED
    BY <1>2, <1>3, <1>4

(* The cells of a header. *)
LEMMA HeaderFacts ==
  ASSUME NEW m \in Ids
  PROVE  /\ Header(m) \in Seq(Cell) /\ Len(Header(m)) = HeaderSize
         /\ \A i \in 1 .. HeaderSize : Header(m)[i] = CellAt(m, i)
  <1> DEFINE e(i) == [msg |-> m, part |-> "header", pos |-> 0 + i]
  <1>1. HeaderSize \in Nat
    BY FramingAssumption
  <1>2. \A i \in 1 .. HeaderSize : e(i) = CellAt(m, i)
    BY <1>1 DEF CellAt
  <1>3. \A i \in 1 .. HeaderSize : CellAt(m, i) \in Cell
    BY <1>1, CellFacts
  <1>4. \A i \in 1 .. HeaderSize : e(i) \in Cell /\ e(i) = CellAt(m, i)
    BY <1>2, <1>3
  <1>5. Header(m) = [i \in 1 .. HeaderSize |-> e(i)]
    BY DEF Header, Cells
  <1> HIDE DEF e
  <1> QED
    BY <1>1, <1>4, <1>5

(* The cells of a payload, as one is handed up. *)
LEMMA PayloadFacts ==
  ASSUME NEW m \in Ids, NEW p \in Seq(Cell), Len(p) = TotalSize(m),
         \A i \in 1 .. Len(p) : p[i] = CellAt(m, HeaderSize + i)
  PROVE  p = Payload(m)
  <1> DEFINE e(i) == [msg |-> m, part |-> "payload", pos |-> 0 + i]
  <1>1. TotalSize(m) \in Nat
    BY SizeFacts
  <1>2. \A i \in 1 .. Len(p) : p[i] = e(i)
    <2> SUFFICES ASSUME NEW i \in 1 .. Len(p)
                 PROVE  p[i] = e(i)
      OBVIOUS
    <2>1. i \in Nat \ {0} /\ 0 + i = i
      BY <1>1
    <2>2. CellAt(m, HeaderSize + i) = [msg |-> m, part |-> "payload", pos |-> i]
      BY <2>1, PayloadCell
    <2> QED
      BY <2>1, <2>2
  <1>3. Payload(m) = [i \in 1 .. TotalSize(m) |-> e(i)]
    BY DEF Payload, Cells
  <1> HIDE DEF e
  <1>4. p = [i \in 1 .. Len(p) |-> p[i]]
    OBVIOUS
  <1> QED
    BY <1>2, <1>3, <1>4

(* What ::send appends to the wire. *)
LEMMA AcceptedFacts ==
  ASSUME TypeOK, NEW cells \in Seq(Cell)
  PROVE  /\ Free \in Nat
         /\ Least(Len(cells), Free) \in 0 .. Len(cells)
         /\ wire \o Accepted(cells) \in Seq(Cell)
         /\ Len(wire \o Accepted(cells)) = Len(wire) + Least(Len(cells), Free)
         /\ Len(wire \o Accepted(cells)) <= Capacity
         /\ \A i \in 1 .. Len(wire) : (wire \o Accepted(cells))[i] = wire[i]
         /\ \A i \in 1 .. Least(Len(cells), Free) :
              (wire \o Accepted(cells))[Len(wire) + i] = cells[i]
  <1>1. Capacity \in Nat /\ Len(wire) \in Nat /\ Len(wire) <= Capacity /\ wire \in Seq(Cell)
    BY FramingAssumption DEF TypeOK
  <1>2. Free \in Nat /\ Len(wire) + Free = Capacity
    BY <1>1 DEF Free
  <1> DEFINE a == Least(Len(cells), Free)
  <1>3. a \in 0 .. Len(cells) /\ a <= Free
    BY <1>2 DEF Least
  <1> HIDE DEF a
  <1> DEFINE s == SubSeq(cells, 1, a)
  <1>4. Accepted(cells) = s
    BY DEF Accepted, a
  <1>5. s \in Seq(Cell) /\ Len(s) = a /\ \A i \in 1 .. a : s[i] = cells[i]
    BY <1>3
  <1> HIDE DEF s
  <1>6. /\ wire \o s \in Seq(Cell)
        /\ Len(wire \o s) = Len(wire) + a
        /\ \A i \in 1 .. Len(wire) : (wire \o s)[i] = wire[i]
        /\ \A i \in 1 .. a : (wire \o s)[Len(wire) + i] = s[i]
    BY <1>1, <1>3, <1>5
  <1>7. Len(wire) + a <= Capacity
    BY <1>1, <1>2, <1>3
  <1> QED
    BY <1>2, <1>3, <1>4, <1>5, <1>6, <1>7 DEF a

(* What ::recv takes off the wire, and what it leaves there. *)
LEMMA ReadFacts ==
  ASSUME TypeOK, NEW n \in Nat
  PROVE  /\ Least(n, Len(wire)) \in 0 .. Len(wire)
         /\ Least(n, Len(wire)) <= n
         /\ Len(wire) <= n => Least(n, Len(wire)) = Len(wire)
         /\ n <= Len(wire) => Least(n, Len(wire)) = n
         /\ Available(n) \in Seq(Cell)
         /\ Len(Available(n)) = Least(n, Len(wire))
         /\ \A i \in 1 .. Least(n, Len(wire)) : Available(n)[i] = wire[i]
         /\ Rest(n) \in Seq(Cell)
         /\ Len(Rest(n)) = Len(wire) - Least(n, Len(wire))
         /\ \A i \in 1 .. Len(wire) - Least(n, Len(wire)) :
              Rest(n)[i] = wire[i + Least(n, Len(wire))]
  <1>1. Len(wire) \in Nat /\ wire \in Seq(Cell)
    BY DEF TypeOK
  <1> DEFINE d == Least(n, Len(wire))
  <1>2. /\ d \in 0 .. Len(wire)
        /\ d <= n
        /\ Len(wire) <= n => d = Len(wire)
        /\ n <= Len(wire) => d = n
    BY <1>1 DEF Least
  <1>3. Available(n) = SubSeq(wire, 1, d) /\ Rest(n) = SubSeq(wire, d + 1, Len(wire))
    BY DEF Available, Rest
  <1> HIDE DEF d
  <1>4. /\ SubSeq(wire, 1, d) \in Seq(Cell)
        /\ Len(SubSeq(wire, 1, d)) = d
        /\ \A i \in 1 .. d : SubSeq(wire, 1, d)[i] = wire[i]
    BY <1>1, <1>2
  <1>5. /\ SubSeq(wire, d + 1, Len(wire)) \in Seq(Cell)
        /\ Len(SubSeq(wire, d + 1, Len(wire))) = Len(wire) - d
        /\ \A i \in 1 .. Len(wire) - d : SubSeq(wire, d + 1, Len(wire))[i] = wire[i + d]
    BY <1>1, <1>2
  <1> QED
    BY <1>2, <1>3, <1>4, <1>5 DEF d

(* Numbers the steps below compute with. *)
LEMMA Ranges ==
  ASSUME TypeOK, WriterShape
  PROVE  /\ HeaderSize \in Nat \ {0}
         /\ cur \in Nat \ {0}
         /\ frag \in Nat
         /\ Len(wire) \in Nat
         /\ \A m \in Ids : m \in Nat \ {0} /\ LengthOf(m) \in Nat
         /\ frag > 0 => cur \in Ids
         /\ Reached \in Nat
         /\ cur \in Ids => Reached < LengthOf(cur)
         /\ frag > 0 => HeaderSize <= Reached
         /\ frag = 1 => Reached = HeaderSize
         /\ frag > 1 => HeaderSize < Reached
  <1>1. HeaderSize \in Nat \ {0} /\ cur \in Nat \ {0} /\ frag \in Nat /\ Len(wire) \in Nat
    BY FramingAssumption DEF TypeOK
  <1>2. \A m \in Ids : m \in Nat \ {0} /\ LengthOf(m) \in Nat /\ HeaderSize < LengthOf(m)
    BY <1>1, SizeFacts DEF LengthOf, Ids
  <1>3. frag > 0 => cur \in Ids
    BY <1>1 DEF WriterShape
  <1>4. CASE frag = 0
    BY <1>1, <1>2, <1>3, <1>4 DEF Reached
  <1>5. CASE frag > 0
    <2>1. frag \in 1 .. Len(Msgs[cur]) /\ frag - 1 \in 0 .. Len(Msgs[cur]) - 1 /\ Len(Msgs[cur]) \in Nat
      BY <1>1, <1>3, <1>5, SizeFacts DEF WriterShape
    <2>2. SizeOf(cur, frag - 1) \in Nat /\ SizeOf(cur, frag - 1) < TotalSize(cur)
      BY <1>3, <1>5, <2>1, SizeFacts
    <2>3. Reached = HeaderSize + SizeOf(cur, frag - 1)
      BY <1>1, <1>5 DEF Reached
    <2>4. frag = 1 => SizeOf(cur, frag - 1) = 0
      BY <1>3, <1>5, SizeFacts
    <2>5. frag > 1 => frag - 1 \in 1 .. Len(Msgs[cur])
      BY <2>1
    <2>6. frag > 1 => 1 <= SizeOf(cur, frag - 1)
      BY <1>3, <1>5, <2>5, SizeFacts
    <2>7. TotalSize(cur) \in Nat
      BY <1>3, <1>5, SizeFacts
    <2>8. LengthOf(cur) = HeaderSize + TotalSize(cur)
      BY DEF LengthOf
    <2> QED
      BY <1>1, <1>2, <1>3, <1>5, <2>2, <2>3, <2>4, <2>6, <2>7, <2>8
  <1> QED
    BY <1>1, <1>4, <1>5

-----------------------------------------------------------------------------
(* What one ::send of SocketBase::send does, header or fragment: a of the  *)
(* n cells that come next of the message go on the wire, one at least.     *)
Writes(a, n) ==
  /\ cur \in Ids
  /\ 1 <= a /\ a <= n
  /\ Reached + n <= LengthOf(cur)
  /\ wire' \in Seq(Cell) /\ Len(wire') = Len(wire) + a
  /\ \A i \in 1 .. Len(wire) : wire'[i] = wire[i]
  /\ \A i \in 1 .. a : wire'[Len(wire) + i] = CellAt(cur, Reached + i)
  /\ cut' = IF a < n THEN cut \cup {cur} ELSE cut
  /\ \/ cur' = cur /\ frag' = frag + 1 /\ frag' <= Len(Msgs[cur]) /\ Reached' = Reached + n
     \/ cur' = cur + 1 /\ frag' = 0 /\ Reached + n = LengthOf(cur)
  /\ UNCHANGED <<phase, size, delivered, closed>>

(* A ::send that finds no room: the message is left, cut if it was begun. *)
Skips ==
  /\ cur \in Ids
  /\ cur' = cur + 1 /\ frag' = 0
  /\ cut' = IF frag > 0 THEN cut \cup {cur} ELSE cut
  /\ UNCHANGED <<wire, phase, size, delivered, closed>>

(* SocketBase::send, the header: one of the two. *)
LEMMA SendHeaderCases ==
  ASSUME TypeOK, WriterShape, SendHeader
  PROVE  /\ TypeOK'
         /\ Skips \/ \E a, n \in Nat : Writes(a, n)
  <1>1. cur \in Ids /\ frag = 0 /\ frag \in Nat /\ UNCHANGED <<phase, size, delivered, closed>>
    BY DEF SendHeader, TypeOK
  <1>2. HeaderSize \in Nat \ {0} /\ cur \in Nat /\ Len(wire) \in Nat
    BY Ranges
  <1>3. Len(Msgs) \in Nat
    BY FramingAssumption
  <1>4. CASE Free = 0 /\ cur' = cur + 1 /\ UNCHANGED <<frag, wire, cut>>
    <2>1. Skips
      BY <1>1, <1>4 DEF Skips
    <2>2. cur' \in 1 .. Len(Msgs) + 1
      BY <1>1, <1>3, <1>4 DEF Ids
    <2> QED
      BY <1>1, <1>4, <2>1, <2>2 DEF TypeOK
  <1>5. CASE /\ Free > 0
             /\ wire' = wire \o Accepted(Header(cur))
             /\ cut' = IF Free < HeaderSize THEN cut \cup {cur} ELSE cut
             /\ frag' = 1
             /\ UNCHANGED cur
    <2> DEFINE cells == Header(cur)
               a == Least(Len(cells), Free)
    <2>1. /\ cells \in Seq(Cell) /\ Len(cells) = HeaderSize
          /\ \A i \in 1 .. HeaderSize : cells[i] = CellAt(cur, i)
      BY <1>1, HeaderFacts
    <2> HIDE DEF cells
    <2>2. /\ Free \in Nat
          /\ a \in 0 .. HeaderSize
          /\ wire' \in Seq(Cell)
          /\ Len(wire') = Len(wire) + a
          /\ Len(wire') <= Capacity
          /\ \A i \in 1 .. Len(wire) : wire'[i] = wire[i]
          /\ \A i \in 1 .. a : wire'[Len(wire) + i] = cells[i]
      BY <1>5, <2>1, AcceptedFacts DEF cells
    <2>3. a \in Nat /\ 1 <= a /\ a <= HeaderSize /\ (a < HeaderSize <=> Free < HeaderSize)
      BY <1>2, <1>5, <2>1, <2>2 DEF Least
    <2> HIDE DEF a
    <2>4. Reached = 0
      BY <1>1 DEF Reached
    <2>5. \A i \in 1 .. a : wire'[Len(wire) + i] = CellAt(cur, Reached + i)
      BY <1>2, <2>1, <2>2, <2>3, <2>4
    <2>6. Reached' = HeaderSize
      <3>1. Reached' = HeaderSize + SizeOf(cur, 1 - 1)
        BY <1>5 DEF Reached, SizeOf
      <3>2. SizeOf(cur, 0) = 0
        BY DEF SizeOf
      <3> QED
        BY <1>2, <3>1, <3>2
    <2>7. TotalSize(cur) \in Nat \ {0} /\ Len(Msgs[cur]) \in Nat \ {0}
      BY <1>1, SizeFacts
    <2>8. Reached + HeaderSize <= LengthOf(cur) /\ Reached' = Reached + HeaderSize
      BY <1>2, <2>4, <2>6, <2>7 DEF LengthOf
    <2>9. cut' = IF a < HeaderSize THEN cut \cup {cur} ELSE cut
      BY <1>5, <2>3
    <2>10. frag' = frag + 1 /\ frag' <= Len(Msgs[cur]) /\ cur' = cur
      BY <1>1, <1>5, <2>7
    <2>11. Writes(a, HeaderSize)
      BY <1>1, <2>2, <2>3, <2>5, <2>8, <2>9, <2>10 DEF Writes
    <2>12. cut' \subseteq Ids /\ frag' \in Nat
      BY <1>1, <1>5 DEF TypeOK
    <2> QED
      BY <1>1, <1>2, <1>5, <2>2, <2>3, <2>11, <2>12 DEF TypeOK
  <1> QED
    BY <1>4, <1>5 DEF SendHeader

(* SocketBase::send, one fragment: one of the two. *)
LEMMA SendFragmentCases ==
  ASSUME TypeOK, WriterShape, SendFragment
  PROVE  /\ TypeOK'
         /\ Skips \/ \E a, n \in Nat : Writes(a, n)
  <1>1. /\ cur \in Ids /\ frag \in 1 .. Len(Msgs[cur])
        /\ UNCHANGED <<phase, size, delivered, closed>>
    BY DEF SendFragment
  <1>2. HeaderSize \in Nat \ {0} /\ cur \in Nat /\ Len(wire) \in Nat /\ Len(Msgs[cur]) \in Nat
    BY <1>1, Ranges, SizeFacts
  <1>3. Len(Msgs) \in Nat
    BY FramingAssumption
  <1> DEFINE done == SizeOf(cur, frag - 1)
             n == SizeOf(cur, frag) - done
             cells == Cells(cur, "payload", done, n)
             a == Least(Len(cells), Free)
  <1>4. /\ done \in Nat /\ n \in Nat \ {0} /\ done + n = SizeOf(cur, frag)
    <2>1. frag - 1 \in 0 .. Len(Msgs[cur]) /\ frag \in 0 .. Len(Msgs[cur])
      BY <1>1, <1>2
    <2>2. SizeOf(cur, frag - 1) \in Nat /\ SizeOf(cur, frag) \in Nat
      BY <1>1, <2>1, SizeFacts
    <2>3. SizeOf(cur, frag - 1) < SizeOf(cur, frag)
      BY <1>1, SizeFacts
    <2> QED
      BY <2>2, <2>3
  <1>5. /\ wire' = wire \o Accepted(cells)
        /\ cut' = IF Free < Len(cells) THEN cut \cup {cur} ELSE cut
        /\ IF Free = 0 \/ frag = Len(Msgs[cur])
             THEN cur' = cur + 1 /\ frag' = 0
             ELSE frag' = frag + 1 /\ cur' = cur
    BY DEF SendFragment
  <1>6. Reached = HeaderSize + done
    BY <1>1, <1>2 DEF Reached
  <1> HIDE DEF done, n
  <1>7. /\ cells \in Seq(Cell) /\ Len(cells) = n
        /\ \A i \in 1 .. n : cells[i] = CellAt(cur, Reached + i)
    <2> DEFINE e(i) == [msg |-> cur, part |-> "payload", pos |-> done + i]
    <2>1. \A i \in 1 .. n : e(i) = CellAt(cur, Reached + i)
      <3> SUFFICES ASSUME NEW i \in 1 .. n
                   PROVE  e(i) = CellAt(cur, Reached + i)
        OBVIOUS
      <3>1. done + i \in Nat \ {0} /\ Reached + i = HeaderSize + (done + i)
        BY <1>2, <1>4, <1>6
      <3>2. CellAt(cur, HeaderSize + (done + i)) = e(i)
        BY <3>1, PayloadCell
      <3> QED
        BY <3>1, <3>2
    <2>2. \A i \in 1 .. n : CellAt(cur, Reached + i) \in Cell
      BY <1>1, <1>2, <1>4, <1>6, CellFacts
    <2>3. \A i \in 1 .. n : e(i) \in Cell /\ e(i) = CellAt(cur, Reached + i)
      BY <2>1, <2>2
    <2>4. cells = [i \in 1 .. n |-> e(i)]
      BY DEF Cells
    <2> HIDE DEF e, cells
    <2> QED
      BY <1>4, <2>3, <2>4
  <1> HIDE DEF cells
  <1>8. /\ Free \in Nat
        /\ a \in 0 .. n
        /\ wire' \in Seq(Cell)
        /\ Len(wire') = Len(wire) + a
        /\ Len(wire') <= Capacity
        /\ \A i \in 1 .. Len(wire) : wire'[i] = wire[i]
        /\ \A i \in 1 .. a : wire'[Len(wire) + i] = cells[i]
    BY <1>5, <1>7, AcceptedFacts
  <1>9. (Free > 0 => 1 <= a) /\ (Free = 0 => a = 0) /\ (a < n <=> Free < n) /\ a \in Nat
    BY <1>4, <1>7, <1>8 DEF Least
  <1> HIDE DEF a
  <1>10. TypeOK'
    <2>1. cur' \in 1 .. Len(Msgs) + 1 /\ frag' \in Nat
      BY <1>1, <1>2, <1>3, <1>5 DEF Ids
    <2>2. cut' \subseteq Ids
      BY <1>1, <1>5 DEF TypeOK
    <2> QED
      BY <1>1, <1>8, <2>1, <2>2 DEF TypeOK
  <1>11. CASE Free = 0
    <2>1. Len(wire') = Len(wire) /\ \A i \in 1 .. Len(wire) : wire'[i] = wire[i]
      BY <1>2, <1>8, <1>9, <1>11
    <2>2. wire' = wire
      BY <1>8, <2>1 DEF TypeOK
    <2>3. cut' = IF frag > 0 THEN cut \cup {cur} ELSE cut
      BY <1>1, <1>2, <1>4, <1>5, <1>7, <1>11
    <2>4. cur' = cur + 1 /\ frag' = 0
      BY <1>5, <1>11
    <2> QED
      BY <1>1, <1>10, <2>2, <2>3, <2>4 DEF Skips
  <1>12. CASE Free # 0
    <2>1. Free > 0
      BY <1>8, <1>12
    <2>2. Reached + n = HeaderSize + SizeOf(cur, frag)
      BY <1>2, <1>4, <1>6
    <2>3. /\ frag = Len(Msgs[cur]) => SizeOf(cur, frag) = TotalSize(cur)
          /\ frag # Len(Msgs[cur]) => SizeOf(cur, frag) < TotalSize(cur)
      <3>1. frag # Len(Msgs[cur]) => frag \in 0 .. Len(Msgs[cur]) - 1
        BY <1>1, <1>2
      <3> QED
        BY <1>1, <3>1, SizeFacts DEF TotalSize
    <2>4. SizeOf(cur, frag) \in Nat /\ TotalSize(cur) \in Nat
      BY <1>1, <1>4, SizeFacts
    <2>5. Reached + n <= LengthOf(cur)
      BY <1>2, <2>2, <2>3, <2>4 DEF LengthOf
    <2>6. \/ cur' = cur /\ frag' = frag + 1 /\ frag' <= Len(Msgs[cur]) /\ Reached' = Reached + n
          \/ cur' = cur + 1 /\ frag' = 0 /\ Reached + n = LengthOf(cur)
      <3>1. CASE frag = Len(Msgs[cur])
        BY <1>5, <2>2, <2>3, <3>1 DEF LengthOf
      <3>2. CASE frag # Len(Msgs[cur])
        <4>1. cur' = cur /\ frag' = frag + 1
          BY <1>5, <1>12, <3>2
        <4>2. frag' # 0 /\ frag' - 1 = frag /\ frag' <= Len(Msgs[cur])
          BY <1>1, <1>2, <3>2, <4>1
        <4>3. Reached' = HeaderSize + SizeOf(cur, frag)
          BY <4>1, <4>2 DEF Reached, SizeOf
        <4> QED
          BY <2>2, <4>1, <4>2, <4>3
      <3> QED
        BY <3>1, <3>2
    <2>7. cut' = IF a < n THEN cut \cup {cur} ELSE cut
      BY <1>5, <1>7, <1>9
    <2>8. \A i \in 1 .. a : wire'[Len(wire) + i] = CellAt(cur, Reached + i)
      BY <1>4, <1>7, <1>8, <1>9
    <2>9. 1 <= a /\ a <= n
      BY <1>4, <1>8, <1>9, <2>1
    <2>10. Writes(a, n)
      BY <1>1, <1>8, <2>5, <2>6, <2>7, <2>8, <2>9 DEF Writes
    <2> QED
      BY <1>4, <1>9, <1>10, <2>10
  <1> QED
    BY <1>11, <1>12

-----------------------------------------------------------------------------
(* How a ::send that writes something moves the writer. *)
LEMMA WritesFacts ==
  ASSUME TypeOK, WriterShape, NEW a \in Nat, NEW n \in Nat, Writes(a, n)
  PROVE  /\ cur' \in Nat /\ frag' \in Nat /\ cur <= cur'
         /\ \A m \in Nat : Begun(m, cur, frag) => Begun(m, cur', frag')
         /\ Begun(cur, cur', frag')
         /\ \A m \in Nat : Uncut(m, cut') => Uncut(m, cut)
         /\ \A m \in Nat : m < cur => m < cur' /\ Written(m, cur', Reached') = LengthOf(m)
         /\ Uncut(cur, cut') => a = n /\ Written(cur, cur', Reached') = Reached + n
         /\ WriterShape'
  <1>1. cur \in Nat /\ frag \in Nat /\ cur \in Ids
    BY Ranges DEF Writes
  <1>2. \/ cur' = cur /\ frag' = frag + 1 /\ frag' <= Len(Msgs[cur]) /\ Reached' = Reached + n
        \/ cur' = cur + 1 /\ frag' = 0 /\ Reached + n = LengthOf(cur)
    BY DEF Writes
  <1>3. cur' \in Nat /\ frag' \in Nat /\ cur <= cur'
    BY <1>1, <1>2
  <1>4. cut' = cut \/ cut' = cut \cup {cur}
    BY DEF Writes
  <1>5. \A m \in Nat : Begun(m, cur, frag) => Begun(m, cur', frag')
    BY <1>1, <1>2 DEF Begun
  <1>6. Begun(cur, cur', frag')
    BY <1>1, <1>2 DEF Begun
  <1>7. \A m \in Nat : Uncut(m, cut') => Uncut(m, cut)
    BY <1>4 DEF Uncut
  <1>8. \A m \in Nat : m < cur => m < cur' /\ Written(m, cur', Reached') = LengthOf(m)
    BY <1>1, <1>3 DEF Written
  <1>9. Uncut(cur, cut') => a = n /\ Written(cur, cur', Reached') = Reached + n
    <2> SUFFICES ASSUME Uncut(cur, cut')
                 PROVE  a = n /\ Written(cur, cur', Reached') = Reached + n
      OBVIOUS
    <2>1. cur \notin cut'
      BY <1>1 DEF Uncut
    <2>2. ~(a < n) /\ a <= n
      BY <2>1 DEF Writes
    <2>3. Written(cur, cur', Reached') = Reached + n
      BY <1>1, <1>2 DEF Written
    <2> QED
      BY <2>2, <2>3
  <1>10. WriterShape'
    <2>1. cur' \in Ids => frag' <= Len(Msgs[cur'])
      BY <1>2, SizeFacts
    <2>2. cur' \notin Ids => frag' = 0
      BY <1>1, <1>2
    <2>3. \A x \in cut' : Begun(x, cur', frag')
      <3>1. \A x \in cut : x \in Nat /\ Begun(x, cur, frag)
        BY DEF WriterShape, TypeOK, Ids
      <3> QED
        BY <1>4, <1>5, <1>6, <3>1
    <2> QED
      BY <2>1, <2>2, <2>3 DEF WriterShape
  <1> QED
    BY <1>3, <1>5, <1>6, <1>7, <1>8, <1>9, <1>10

(* The messages of the cells on the wire are numbers up to the current one. *)
LEMMA WireFacts ==
  ASSUME TypeOK, WriterShape, WireShape
  PROVE  \A i \in 1 .. Len(wire) :
           /\ wire[i].msg \in Ids /\ wire[i].msg \in Nat
           /\ wire[i].msg <= cur
           /\ Place(wire[i]) \in Nat
  <1>1. \A i \in 1 .. Len(wire) : wire[i] \in Cell
    BY DEF TypeOK
  <1>2. \A i \in 1 .. Len(wire) : wire[i].msg \in Ids
    BY <1>1 DEF Cell
  <1>3. \A i \in 1 .. Len(wire) : wire[i].msg \in Nat
    BY <1>2 DEF Ids
  <1>4. cur \in Nat
    BY Ranges
  <1>5. \A i \in 1 .. Len(wire) : wire[i].msg <= cur
    BY <1>3, <1>4 DEF WireShape, Begun
  <1>6. \A i \in 1 .. Len(wire) : Place(wire[i]) \in Nat
    BY <1>2, Ranges DEF WireShape
  <1> QED
    BY <1>2, <1>3, <1>5, <1>6

(* What a ::send puts behind the wire keeps the shape of the wire. *)
LEMMA WritesWireShape ==
  ASSUME TypeOK, WriterShape, WireShape, NEW a \in Nat, NEW n \in Nat, Writes(a, n)
  PROVE  WireShape'
  <1>1. /\ cur \in Ids /\ cur \in Nat /\ frag \in Nat /\ Reached \in Nat /\ Len(wire) \in Nat
        /\ LengthOf(cur) \in Nat
    BY Ranges DEF Writes
  <1>2. /\ wire' \in Seq(Cell) /\ Len(wire') = Len(wire) + a /\ 1 <= a /\ a <= n
        /\ \A i \in 1 .. Len(wire) : wire'[i] = wire[i]
        /\ \A i \in 1 .. a : wire'[Len(wire) + i] = CellAt(cur, Reached + i)
        /\ Reached + n <= LengthOf(cur)
    BY DEF Writes
  <1>3. \A i \in 1 .. a :
          /\ wire'[Len(wire) + i] = CellAt(cur, Reached + i)
          /\ wire'[Len(wire) + i].msg = cur
          /\ Place(wire'[Len(wire) + i]) = Reached + i
    BY <1>1, <1>2, CellFacts
  <1>4. \A i \in 1 .. Len(wire') : i \in 1 .. Len(wire) \/ \E j \in 1 .. a : i = Len(wire) + j
    <2> SUFFICES ASSUME NEW i \in 1 .. Len(wire'), i \notin 1 .. Len(wire)
                 PROVE  \E j \in 1 .. a : i = Len(wire) + j
      OBVIOUS
    <2>1. i - Len(wire) \in 1 .. a /\ i = Len(wire) + (i - Len(wire))
      BY <1>1, <1>2
    <2> QED
      BY <2>1
  <1>5. ASSUME NEW i \in 1 .. Len(wire')
        PROVE  /\ wire'[i] = CellAt(wire'[i].msg, Place(wire'[i]))
               /\ Place(wire'[i]) \in 1 .. LengthOf(wire'[i].msg)
               /\ Begun(wire'[i].msg, cur', frag')
    <2>1. CASE i \in 1 .. Len(wire)
      <3>1. wire'[i] = wire[i]
        BY <1>2, <2>1
      <3>2. Begun(wire[i].msg, cur', frag')
        BY <2>1, WireFacts, WritesFacts DEF WireShape
      <3> QED
        BY <2>1, <3>1, <3>2 DEF WireShape
    <2>2. CASE \E j \in 1 .. a : i = Len(wire) + j
      <3>1. PICK j \in 1 .. a : i = Len(wire) + j
        BY <2>2
      <3>2. /\ wire'[i] = CellAt(cur, Reached + j)
            /\ wire'[i].msg = cur
            /\ Place(wire'[i]) = Reached + j
        BY <1>3, <3>1
      <3>3. Reached + j \in 1 .. LengthOf(cur)
        BY <1>1, <1>2
      <3>4. Begun(cur, cur', frag')
        BY WritesFacts
      <3> QED
        BY <3>2, <3>3, <3>4
    <2> QED
      BY <1>4, <2>1, <2>2
  <1>6. ASSUME NEW i \in 1 .. Len(wire'), NEW j \in 1 .. Len(wire'), i <= j
        PROVE  wire'[i].msg <= wire'[j].msg
    <2>1. CASE i \in 1 .. Len(wire) /\ j \in 1 .. Len(wire)
      BY <1>2, <1>6, <2>1 DEF WireShape
    <2>2. CASE i \in 1 .. Len(wire) /\ j \notin 1 .. Len(wire)
      <3>1. wire'[i].msg <= cur
        BY <1>2, <2>2, WireFacts
      <3>2. wire'[j].msg = cur
        BY <1>3, <1>4, <2>2
      <3> QED
        BY <3>1, <3>2
    <2>3. CASE i \notin 1 .. Len(wire)
      <3>1. j \notin 1 .. Len(wire)
        BY <1>1, <1>2, <1>6, <2>3
      <3>2. wire'[i].msg = cur /\ wire'[j].msg = cur
        BY <1>3, <1>4, <2>3, <3>1
      <3> QED
        BY <1>1, <3>2
    <2> QED
      BY <2>1, <2>2, <2>3
  <1>7. frag' > 0 => wire'[Len(wire')].msg = cur'
    <2> SUFFICES ASSUME frag' > 0
                 PROVE  wire'[Len(wire')].msg = cur'
      OBVIOUS
    <2>1. cur' = cur
      BY DEF Writes
    <2>2. wire'[Len(wire) + a].msg = cur
      BY <1>2, <1>3
    <2> QED
      BY <1>2, <2>1, <2>2
  <1> QED
    BY <1>5, <1>6, <1>7 DEF WireShape

(* It leaves no gap behind what is written of an uncut message. *)
LEMMA WritesUnbroken ==
  ASSUME TypeOK, WriterShape, WireShape, Unbroken, NEW a \in Nat, NEW n \in Nat, Writes(a, n)
  PROVE  Unbroken'
  <1>1. /\ cur \in Ids /\ cur \in Nat /\ frag \in Nat /\ Reached \in Nat /\ Len(wire) \in Nat
        /\ LengthOf(cur) \in Nat
    BY Ranges DEF Writes
  <1>2. /\ wire' \in Seq(Cell) /\ Len(wire') = Len(wire) + a /\ 1 <= a /\ a <= n
        /\ \A i \in 1 .. Len(wire) : wire'[i] = wire[i]
        /\ \A i \in 1 .. a : wire'[Len(wire) + i] = CellAt(cur, Reached + i)
    BY DEF Writes
  <1>3. \A j \in Len(wire) + 1 .. Len(wire) + a : wire'[j] = CellAt(cur, Reached + (j - Len(wire)))
    <2> SUFFICES ASSUME NEW j \in Len(wire) + 1 .. Len(wire) + a
                 PROVE  wire'[j] = CellAt(cur, Reached + (j - Len(wire)))
      OBVIOUS
    <2>1. j - Len(wire) \in 1 .. a /\ Len(wire) + (j - Len(wire)) = j
      BY <1>1
    <2> QED
      BY <1>2, <2>1
  <1> SUFFICES ASSUME NEW i \in 1 .. Len(wire'), Uncut(wire'[i].msg, cut')
               PROVE  Run(wire', i, wire'[i].msg, Place(wire'[i]),
                          Written(wire'[i].msg, cur', Reached'), cur')
    BY DEF Unbroken
  <1>4. CASE i \in 1 .. Len(wire) /\ wire[i].msg # cur
    <2> DEFINE m == wire[i].msg
               p == Place(wire[i])
               z == LengthOf(m)
               last == i + z - p
    <2>1. m \in Nat /\ m \in Ids /\ p \in Nat /\ z \in Nat /\ m < cur
      BY <1>1, <1>4, WireFacts, Ranges
    <2>2. wire'[i] = wire[i] /\ Uncut(m, cut) /\ m < cur'
      BY <1>2, <1>4, <2>1, WritesFacts
    <2>3. Written(m, cur', Reached') = z /\ Written(m, cur, Reached) = z
      BY <2>1, WritesFacts DEF Written
    <2>4. Run(wire, i, m, p, z, cur)
      BY <1>4, <2>2, <2>3 DEF Unbroken
    <2> HIDE DEF m, p, z
    <2>5. /\ p <= z /\ last <= Len(wire)
          /\ \A j \in i .. last : wire[j] = CellAt(m, p + (j - i))
          /\ last < Len(wire) => Place(wire[last + 1]) = 1 /\ m < wire[last + 1].msg
      BY <2>4 DEF Run
    <2>6. last \in Nat /\ i <= last /\ last <= Len(wire') /\ i \in Nat
      BY <1>1, <1>2, <2>1, <2>5
    <2> HIDE DEF last
    <2>7. \A j \in i .. last : wire'[j] = CellAt(m, p + (j - i))
      <3>1. \A j \in i .. last : j \in 1 .. Len(wire)
        BY <1>1, <1>4, <2>5, <2>6
      <3> QED
        BY <1>2, <2>5, <3>1
    <2>8. last < Len(wire') => Place(wire'[last + 1]) = 1 /\ m < wire'[last + 1].msg
      <3>1. CASE last < Len(wire)
        <4>1. last + 1 \in 1 .. Len(wire)
          BY <1>1, <2>6, <3>1
        <4> QED
          BY <1>2, <2>5, <3>1, <4>1
      <3>2. CASE last = Len(wire)
        <4>1. wire[last] = CellAt(m, p + (last - i)) /\ p + (last - i) \in Nat \ {0}
          <5>1. p \in Nat \ {0}
            BY <1>1, <1>4, <2>1, Ranges DEF WireShape, p
          <5> QED
            BY <2>5, <2>6, <5>1
        <4>2. wire[Len(wire)].msg = m
          BY <2>1, <3>2, <4>1, CellFacts
        <4>3. wire # <<>>
          BY <1>4
        <4>4. ~(frag > 0)
          BY <1>1, <2>1, <4>2, <4>3 DEF WireShape
        <4>5. Reached = 0
          BY <1>1, <4>4 DEF Reached
        <4>6. wire'[last + 1] = CellAt(cur, 1)
          <5>1. 1 \in 1 .. a /\ 0 + 1 = 1
            BY <1>2
          <5> QED
            BY <1>2, <3>2, <4>5, <5>1
        <4>7. Place(wire'[last + 1]) = 1 /\ wire'[last + 1].msg = cur
          BY <1>1, <4>6, CellFacts
        <4> QED
          BY <2>1, <4>7
      <3> QED
        BY <1>1, <2>5, <2>6, <3>1, <3>2
    <2>9. m # cur'
      BY <2>1, <2>2, WritesFacts
    <2>10. Run(wire', i, m, p, z, cur')
      BY <2>5, <2>6, <2>7, <2>8, <2>9 DEF Run, last
    <2> QED
      BY <2>2, <2>3, <2>10 DEF m, p
  <1>5. CASE i \in 1 .. Len(wire) /\ wire[i].msg = cur
    <2> DEFINE p == Place(wire[i])
    <2>1. wire'[i] = wire[i] /\ wire'[i].msg = cur /\ p \in Nat /\ Uncut(cur, cut) /\ Uncut(cur, cut')
      BY <1>1, <1>2, <1>5, WireFacts, WritesFacts
    <2>2. a = n /\ Written(cur, cur', Reached') = Reached + n
      BY <2>1, WritesFacts
    <2>3. Written(cur, cur, Reached) = Reached
      BY <1>1 DEF Written
    <2>4. Run(wire, i, cur, p, Reached, cur)
      BY <1>5, <2>1, <2>3 DEF Unbroken
    <2> HIDE DEF p
    <2>5. /\ p <= Reached /\ i + Reached - p = Len(wire)
          /\ \A j \in i .. Len(wire) : wire[j] = CellAt(cur, p + (j - i))
      BY <2>4 DEF Run
    <2>6. p <= Reached + n /\ i + (Reached + n) - p = Len(wire') /\ i \in Nat
      <3>1. Len(wire') = Len(wire) + n /\ i \in Nat
        BY <1>1, <1>2, <1>5, <2>2
      <3>2. p <= Reached /\ i + Reached - p = Len(wire) /\ p \in Nat
        BY <2>1, <2>5
      <3> QED
        BY <1>1, <3>1, <3>2
    <2>7. \A j \in i .. Len(wire') : wire'[j] = CellAt(cur, p + (j - i))
      <3> SUFFICES ASSUME NEW j \in i .. Len(wire')
                   PROVE  wire'[j] = CellAt(cur, p + (j - i))
        OBVIOUS
      <3>1. CASE j <= Len(wire)
        <4>1. j \in i .. Len(wire) /\ j \in 1 .. Len(wire)
          BY <1>1, <1>5, <3>1
        <4> QED
          BY <1>2, <2>5, <4>1
      <3>2. CASE ~(j <= Len(wire))
        <4>1. j \in Len(wire) + 1 .. Len(wire) + a
          BY <1>1, <1>2, <2>6, <3>2
        <4>2. Reached + (j - Len(wire)) = p + (j - i)
          <5>1. i + Reached - p = Len(wire) /\ p \in Nat /\ i \in Nat /\ j \in Nat
            BY <1>1, <2>1, <2>5, <2>6, <4>1
          <5> QED
            BY <1>1, <5>1
        <4> QED
          BY <1>3, <4>1, <4>2
      <3> QED
        BY <3>1, <3>2
    <2>8. Run(wire', i, cur, p, Reached + n, cur')
      BY <1>1, <1>2, <2>6, <2>7 DEF Run
    <2> QED
      BY <2>1, <2>2, <2>8 DEF p
  <1>6. CASE i \notin 1 .. Len(wire)
    <2> DEFINE q == i - Len(wire)
               p == Reached + q
    <2>1. q \in 1 .. a /\ i = Len(wire) + q /\ i \in Nat /\ p \in Nat \ {0}
      BY <1>1, <1>2, <1>6
    <2>2. wire'[i] = CellAt(cur, p)
      BY <1>2, <2>1
    <2>3. wire'[i].msg = cur /\ Place(wire'[i]) = p
      BY <1>1, <2>1, <2>2, CellFacts
    <2>4. a = n /\ Written(cur, cur', Reached') = Reached + n
      BY <2>3, WritesFacts
    <2>5. p <= Reached + n /\ i + (Reached + n) - p = Len(wire')
      BY <1>1, <1>2, <2>1, <2>4
    <2>6. \A j \in i .. Len(wire') : wire'[j] = CellAt(cur, p + (j - i))
      <3> SUFFICES ASSUME NEW j \in i .. Len(wire')
                   PROVE  wire'[j] = CellAt(cur, p + (j - i))
        OBVIOUS
      <3>1. j \in Len(wire) + 1 .. Len(wire) + a
        BY <1>1, <1>2, <2>1
      <3>2. Reached + (j - Len(wire)) = p + (j - i)
        BY <1>1, <2>1
      <3> QED
        BY <1>3, <3>1, <3>2
    <2> HIDE DEF p, q
    <2>7. Run(wire', i, cur, p, Reached + n, cur')
      BY <1>1, <1>2, <2>5, <2>6 DEF Run
    <2> QED
      BY <2>3, <2>4, <2>7
  <1> QED
    BY <1>4, <1>5, <1>6

(* A reader stays where it is in the stream when more is written. *)
LEMMA WritesReader ==
  ASSUME TypeOK, WriterShape, WireShape, AtHeader, AtPayload,
         NEW a \in Nat, NEW n \in Nat, Writes(a, n)
  PROVE  AtHeader' /\ AtPayload'
  <1>1. cur \in Ids /\ cur \in Nat /\ frag \in Nat /\ Reached \in Nat /\ Len(wire) \in Nat
    BY Ranges DEF Writes
  <1>2. /\ wire' \in Seq(Cell) /\ Len(wire') = Len(wire) + a /\ 1 <= a
        /\ \A i \in 1 .. Len(wire) : wire'[i] = wire[i]
        /\ \A i \in 1 .. a : wire'[Len(wire) + i] = CellAt(cur, Reached + i)
        /\ UNCHANGED <<phase, size, closed>>
    BY DEF Writes
  <1>3. Len(wire') > 0 /\ wire' # <<>>
    BY <1>1, <1>2
  <1>4. wire # <<>> => 1 \in 1 .. Len(wire) /\ wire'[1] = wire[1]
    <2>1. wire # <<>> => Len(wire) > 0
      BY DEF TypeOK
    <2> QED
      BY <1>1, <1>2, <2>1
  <1>5. wire = <<>> => wire'[1].msg = cur /\ Place(wire'[1]) = Reached + 1
    <2> SUFFICES ASSUME wire = <<>>
                 PROVE  wire'[1].msg = cur /\ Place(wire'[1]) = Reached + 1
      OBVIOUS
    <2>1. Len(wire) = 0 /\ 1 \in 1 .. a /\ 0 + 1 = 1
      BY <1>2
    <2>2. wire'[1] = CellAt(cur, Reached + 1)
      BY <1>2, <2>1
    <2> QED
      BY <1>1, <2>2, CellFacts
  <1>6. AtHeader'
    <2> SUFFICES ASSUME ~closed', phase' = "Header", Uncut(wire'[1].msg, cut')
                 PROVE  Place(wire'[1]) = 1
      BY <1>3 DEF AtHeader
    <2>1. /\ wire # <<>> /\ Uncut(wire[1].msg, cut) => Place(wire[1]) = 1
          /\ Uncut(cur, cut) /\ frag > 0 => wire # <<>>
      BY <1>2 DEF AtHeader
    <2>2. CASE wire = <<>>
      <3>1. Uncut(cur, cut)
        BY <1>1, <1>5, <2>2, WritesFacts
      <3>2. Reached = 0
        BY <1>1, <2>1, <2>2, <3>1 DEF Reached
      <3> QED
        BY <1>5, <2>2, <3>2
    <2>3. CASE wire # <<>>
      BY <1>4, <2>1, <2>3, WireFacts, WritesFacts
    <2> QED
      BY <2>2, <2>3
  <1>7. AtPayload'
    <2> SUFFICES ASSUME ~closed', phase' = "Payload"
                 PROVE  \E m \in Ids : Behind(m)'
      BY DEF AtPayload
    <2>1. PICK m \in Ids : Behind(m)
      BY <1>2 DEF AtPayload
    <2>2. m \in Nat /\ m <= cur
      BY <1>1, <2>1 DEF Ids, Behind, Begun
    <2>3. size' = TotalSize(m) /\ Begun(m, cur', frag')
      BY <1>2, <2>1, <2>2, WritesFacts DEF Behind
    <2>4. ASSUME NEW i \in 1 .. Len(wire')
          PROVE  m <= wire'[i].msg
      <3>1. CASE i \in 1 .. Len(wire)
        BY <1>2, <2>1, <3>1 DEF Behind
      <3>2. CASE i \notin 1 .. Len(wire)
        <4>1. i - Len(wire) \in 1 .. a /\ Len(wire) + (i - Len(wire)) = i
          BY <1>1, <1>2, <3>2
        <4>2. PICK j \in 1 .. a : i = Len(wire) + j
          BY <4>1
        <4>3. wire'[i] = CellAt(cur, Reached + j) /\ Reached + j \in Nat \ {0}
          BY <1>1, <1>2, <4>2
        <4>4. wire'[i].msg = cur
          BY <1>1, <4>3, CellFacts
        <4> QED
          BY <2>2, <4>4
      <3> QED
        BY <3>1, <3>2
    <2>5. Uncut(m, cut') => wire'[1].msg = m /\ Place(wire'[1]) = HeaderSize + 1
      <3> SUFFICES ASSUME Uncut(m, cut')
                   PROVE  wire'[1].msg = m /\ Place(wire'[1]) = HeaderSize + 1
        OBVIOUS
      <3>1. Uncut(m, cut)
        BY <2>2, WritesFacts
      <3>2. CASE wire = <<>>
        <4>1. m = cur /\ frag = 1
          BY <2>1, <3>1, <3>2 DEF Behind
        <4>2. Reached = HeaderSize
          BY <4>1, Ranges
        <4> QED
          BY <1>5, <3>2, <4>1, <4>2
      <3>3. CASE wire # <<>>
        BY <1>4, <2>1, <3>1, <3>3 DEF Behind
      <3> QED
        BY <3>2, <3>3
    <2>6. Behind(m)'
      BY <1>3, <2>3, <2>4, <2>5 DEF Behind
    <2> QED
      BY <2>6
  <1> QED
    BY <1>6, <1>7

(* The messages of the cells that were handed up are numbers. *)
LEMMA DeliveredFacts ==
  ASSUME TypeOK, DeliveredShape
  PROVE  \A n \in 1 .. Len(delivered) :
           /\ delivered[n] \in Seq(Cell)
           /\ 1 \in 1 .. Len(delivered[n])
           /\ \A k \in 1 .. Len(delivered[n]) : delivered[n][k].msg \in Nat
  <1> SUFFICES ASSUME NEW n \in 1 .. Len(delivered)
               PROVE  /\ delivered[n] \in Seq(Cell)
                      /\ 1 \in 1 .. Len(delivered[n])
                      /\ \A k \in 1 .. Len(delivered[n]) : delivered[n][k].msg \in Nat
    OBVIOUS
  <1>1. delivered[n] \in Seq(Cell)
    BY DEF TypeOK
  <1>2. delivered[n] # <<>>
    BY DEF DeliveredShape
  <1>3. 1 \in 1 .. Len(delivered[n])
    BY <1>1, <1>2
  <1>4. \A k \in 1 .. Len(delivered[n]) : delivered[n][k] \in Cell
    BY <1>1
  <1>5. \A k \in 1 .. Len(delivered[n]) : delivered[n][k].msg \in Nat
    BY <1>4 DEF Cell, Ids
  <1> QED
    BY <1>1, <1>3, <1>5

(* What was handed up stays as it is when the writer moves on. *)
LEMMA WriterKeepsDelivered ==
  ASSUME TypeOK, WriterShape, DeliveredShape, DeliveredIntact, UNCHANGED delivered,
         cur' \in Nat, cur <= cur',
         \A m \in Nat : Uncut(m, cut') => Uncut(m, cut),
         \A i \in 1 .. Len(wire') : wire'[i].msg = cur \/ \E j \in 1 .. Len(wire) : wire'[i] = wire[j]
  PROVE  DeliveredShape' /\ DeliveredIntact'
  <1>1. cur \in Nat
    BY Ranges
  <1>2. ASSUME NEW n \in 1 .. Len(delivered), NEW k \in 1 .. Len(delivered[n])
        PROVE  /\ delivered[n][k].msg <= cur'
               /\ \A i \in 1 .. Len(wire') : delivered[n][k].msg <= wire'[i].msg
    <2>1. /\ delivered[n][k].msg <= cur
          /\ \A i \in 1 .. Len(wire) : delivered[n][k].msg <= wire[i].msg
      BY DEF DeliveredShape
    <2>2. delivered[n][k].msg \in Nat
      BY DeliveredFacts
    <2>3. delivered[n][k].msg <= cur'
      BY <1>1, <2>1, <2>2
    <2>4. \A i \in 1 .. Len(wire') : delivered[n][k].msg <= wire'[i].msg
      BY <2>1
    <2> QED
      BY <2>3, <2>4
  <1>3. ASSUME NEW n \in 1 .. Len(delivered), Uncut(delivered[n][1].msg, cut')
        PROVE  /\ delivered[n][1].msg < cur'
               /\ \A i \in 1 .. Len(wire') : delivered[n][1].msg < wire'[i].msg
               /\ Uncut(delivered[n][1].msg, cut)
    <2>1. delivered[n][1].msg \in Nat
      BY DeliveredFacts
    <2>2. Uncut(delivered[n][1].msg, cut)
      BY <1>3, <2>1
    <2>3. /\ delivered[n][1].msg < cur
          /\ \A i \in 1 .. Len(wire) : delivered[n][1].msg < wire[i].msg
      BY <2>2 DEF DeliveredShape
    <2>4. delivered[n][1].msg < cur'
      BY <1>1, <2>1, <2>3
    <2>5. \A i \in 1 .. Len(wire') : delivered[n][1].msg < wire'[i].msg
      BY <2>3
    <2> QED
      BY <2>2, <2>4, <2>5
  <1>4. DeliveredShape'
    <2>1. \A n \in 1 .. Len(delivered) : delivered[n] # <<>>
      BY DEF DeliveredShape
    <2> QED
      BY <1>2, <1>3, <2>1 DEF DeliveredShape
  <1>5. DeliveredIntact'
    BY <1>3 DEF DeliveredIntact, Intact
  <1> QED
    BY <1>4, <1>5

(* A ::send that writes something keeps the invariant. *)
LEMMA WritesKeeps ==
  ASSUME StreamInv, TypeOK', ~closed, NEW a \in Nat, NEW n \in Nat, Writes(a, n)
  PROVE  StreamInv'
  <1>1. /\ TypeOK /\ WriterShape /\ WireShape /\ Unbroken /\ AtHeader /\ AtPayload
        /\ DeliveredShape /\ DeliveredIntact
    BY DEF StreamInv
  <1>2. WriterShape' /\ WireShape' /\ Unbroken' /\ AtHeader' /\ AtPayload'
    BY <1>1, WritesFacts, WritesWireShape, WritesUnbroken, WritesReader
  <1>3. ASSUME NEW i \in 1 .. Len(wire')
        PROVE  wire'[i].msg = cur \/ \E j \in 1 .. Len(wire) : wire'[i] = wire[j]
    <2>1. /\ cur \in Ids /\ Len(wire) \in Nat /\ Reached \in Nat
          /\ Len(wire') = Len(wire) + a
          /\ \A j \in 1 .. Len(wire) : wire'[j] = wire[j]
          /\ \A j \in 1 .. a : wire'[Len(wire) + j] = CellAt(cur, Reached + j)
      BY <1>1, Ranges DEF Writes
    <2>2. CASE i \in 1 .. Len(wire)
      BY <2>1, <2>2
    <2>3. CASE i \notin 1 .. Len(wire)
      <3>1. i - Len(wire) \in 1 .. a /\ Len(wire) + (i - Len(wire)) = i
        BY <2>1, <2>3
      <3>2. PICK j \in 1 .. a : i = Len(wire) + j
        BY <3>1
      <3>3. wire'[i] = CellAt(cur, Reached + j) /\ Reached + j \in Nat \ {0}
        BY <2>1, <3>2
      <3> QED
        BY <2>1, <3>3, CellFacts
    <2> QED
      BY <2>2, <2>3
  <1>4. /\ cur' \in Nat /\ cur <= cur'
        /\ \A m \in Nat : Uncut(m, cut') => Uncut(m, cut)
    BY <1>1, WritesFacts
  <1>5. UNCHANGED <<delivered, closed>>
    BY DEF Writes
  <1>6. DeliveredShape' /\ DeliveredIntact'
    BY <1>1, <1>3, <1>4, <1>5, WriterKeepsDelivered
  <1>7. ClosedOnlyForAReason'
    BY <1>5 DEF ClosedOnlyForAReason
  <1> QED
    BY <1>2, <1>6, <1>7 DEF StreamInv

(* So does one that finds no room. *)
LEMMA SkipsKeeps ==
  ASSUME StreamInv, TypeOK', ~closed, Skips
  PROVE  StreamInv'
  <1>1. /\ TypeOK /\ WriterShape /\ WireShape /\ Unbroken /\ AtHeader /\ AtPayload
        /\ DeliveredShape /\ DeliveredIntact
    BY DEF StreamInv
  <1>2. /\ cur \in Ids /\ cur' = cur + 1 /\ frag' = 0
        /\ cut' = IF frag > 0 THEN cut \cup {cur} ELSE cut
        /\ UNCHANGED <<wire, phase, size, delivered, closed>>
    BY DEF Skips
  <1>3. cur \in Nat /\ frag \in Nat /\ cur' \in Nat /\ cur <= cur' /\ Len(wire) \in Nat
    BY <1>1, <1>2, Ranges
  <1>4. \A m \in Nat : Begun(m, cur, frag) => m < cur' /\ Begun(m, cur', frag')
    BY <1>2, <1>3 DEF Begun
  <1>5. \A m \in Nat : Uncut(m, cut') => Uncut(m, cut)
    BY <1>2 DEF Uncut
  <1>6. \A m \in Nat : Begun(m, cur, frag) /\ Uncut(m, cut') => m < cur
    BY <1>2, <1>3 DEF Begun, Uncut
  <1>7. WriterShape'
    <2>1. cur' \in Ids => frag' <= Len(Msgs[cur'])
      BY <1>2, SizeFacts
    <2>2. \A x \in cut : x \in Nat /\ Begun(x, cur, frag)
      BY <1>1 DEF WriterShape, TypeOK, Ids
    <2>3. Begun(cur, cur', frag')
      BY <1>2, <1>3 DEF Begun
    <2>4. \A x \in cut' : Begun(x, cur', frag')
      BY <1>2, <1>4, <2>2, <2>3
    <2> QED
      BY <1>2, <2>1, <2>4 DEF WriterShape
  <1>8. WireShape'
    <2>1. \A i \in 1 .. Len(wire) : Begun(wire[i].msg, cur', frag')
      BY <1>1, <1>4, WireFacts DEF WireShape
    <2>2. ~(frag' > 0)
      BY <1>2
    <2> QED
      BY <1>1, <1>2, <2>1, <2>2 DEF WireShape
  <1>9. Unbroken'
    <2> SUFFICES ASSUME NEW i \in 1 .. Len(wire), Uncut(wire[i].msg, cut')
                 PROVE  Run(wire, i, wire[i].msg, Place(wire[i]),
                            Written(wire[i].msg, cur', Reached'), cur')
      BY <1>2 DEF Unbroken
    <2>1. wire[i].msg \in Nat /\ wire[i].msg < cur /\ Uncut(wire[i].msg, cut)
      BY <1>1, <1>5, <1>6, WireFacts DEF WireShape
    <2>2. wire[i].msg < cur' /\ wire[i].msg # cur' /\ wire[i].msg # cur
      BY <1>2, <1>3, <2>1
    <2>3. Written(wire[i].msg, cur', Reached') = Written(wire[i].msg, cur, Reached)
      BY <2>1, <2>2 DEF Written
    <2>4. Run(wire, i, wire[i].msg, Place(wire[i]), Written(wire[i].msg, cur, Reached), cur)
      BY <1>1, <2>1 DEF Unbroken
    <2>5. Run(wire, i, wire[i].msg, Place(wire[i]), Written(wire[i].msg, cur, Reached), cur')
      BY <2>2, <2>4 DEF Run
    <2> QED
      BY <2>3, <2>5
  <1>10. AtHeader'
    <2> SUFFICES ASSUME ~closed, phase = "Header", wire # <<>>, Uncut(wire[1].msg, cut')
                 PROVE  Place(wire[1]) = 1
      BY <1>2 DEF AtHeader
    <2>1. 1 \in 1 .. Len(wire)
      BY <1>1 DEF TypeOK
    <2>2. wire[1].msg \in Nat
      BY <1>1, <2>1, WireFacts
    <2>3. Uncut(wire[1].msg, cut)
      BY <1>5, <2>2
    <2> QED
      BY <1>1, <2>3 DEF AtHeader
  <1>11. AtPayload'
    <2> SUFFICES ASSUME ~closed', phase' = "Payload"
                 PROVE  \E m \in Ids : Behind(m)'
      BY DEF AtPayload
    <2>1. PICK m \in Ids : Behind(m)
      BY <1>1, <1>2 DEF AtPayload
    <2>2. m \in Nat /\ Begun(m, cur, frag)
      BY <2>1 DEF Ids, Behind
    <2>3. Begun(m, cur', frag')
      BY <1>4, <2>2
    <2>4. Uncut(m, cut') => Uncut(m, cut) /\ m < cur
      BY <1>5, <1>6, <2>2
    <2>5. Uncut(m, cut') => /\ wire # <<>>
                            /\ wire[1].msg = m /\ Place(wire[1]) = HeaderSize + 1
      BY <1>3, <2>1, <2>2, <2>4 DEF Behind
    <2>6. Behind(m)'
      BY <1>2, <2>1, <2>3, <2>5 DEF Behind
    <2> QED
      BY <2>6
  <1>12. DeliveredShape' /\ DeliveredIntact'
    <2>1. \A i \in 1 .. Len(wire') : \E j \in 1 .. Len(wire) : wire'[i] = wire[j]
      BY <1>2
    <2> QED
      BY <1>1, <1>2, <1>3, <1>5, <2>1, WriterKeepsDelivered
  <1>13. ClosedOnlyForAReason'
    BY <1>2 DEF ClosedOnlyForAReason
  <1> QED
    BY <1>7, <1>8, <1>9, <1>10, <1>11, <1>12, <1>13 DEF StreamInv

-----------------------------------------------------------------------------
(* Reading takes d cells off the front of the wire and leaves the shape of *)
(* the rest.                                                               *)
LEMMA ReadsWire ==
  ASSUME TypeOK, WriterShape, WireShape, Unbroken, NEW d \in 0 .. Len(wire),
         wire' \in Seq(Cell), Len(wire') = Len(wire) - d,
         \A i \in 1 .. Len(wire) - d : wire'[i] = wire[i + d],
         UNCHANGED <<cur, frag, cut>>
  PROVE  WriterShape' /\ WireShape' /\ Unbroken'
  <1>1. Len(wire) \in Nat /\ Len(wire') \in Nat /\ d \in Nat
    BY Ranges
  <1>2. \A i \in 1 .. Len(wire') : i + d \in 1 .. Len(wire) /\ wire'[i] = wire[i + d]
    BY <1>1
  <1>3. WriterShape'
    BY DEF WriterShape
  <1>4. WireShape'
    <2>1. \A i \in 1 .. Len(wire') :
            /\ wire'[i] = CellAt(wire'[i].msg, Place(wire'[i]))
            /\ Place(wire'[i]) \in 1 .. LengthOf(wire'[i].msg)
            /\ Begun(wire'[i].msg, cur, frag)
      BY <1>2 DEF WireShape
    <2>2. \A i, j \in 1 .. Len(wire') : i <= j => wire'[i].msg <= wire'[j].msg
      <3> SUFFICES ASSUME NEW i \in 1 .. Len(wire'), NEW j \in 1 .. Len(wire'), i <= j
                   PROVE  wire'[i].msg <= wire'[j].msg
        OBVIOUS
      <3>1. i + d <= j + d
        BY <1>1
      <3> QED
        BY <1>2, <3>1 DEF WireShape
    <2>3. frag > 0 /\ wire' # <<>> => wire'[Len(wire')].msg = cur
      <3> SUFFICES ASSUME frag > 0, wire' # <<>>
                   PROVE  wire'[Len(wire')].msg = cur
        OBVIOUS
      <3>1. Len(wire') \in 1 .. Len(wire') /\ Len(wire') + d = Len(wire)
        BY <1>1
      <3>2. wire # <<>>
        BY <1>1, <3>1
      <3> QED
        BY <1>2, <3>1, <3>2 DEF WireShape
    <2> QED
      BY <2>1, <2>2, <2>3 DEF WireShape
  <1>5. Unbroken'
    <2>1. Reached' = Reached
      BY DEF Reached
    <2> SUFFICES ASSUME NEW i \in 1 .. Len(wire'), Uncut(wire'[i].msg, cut)
                 PROVE  Run(wire', i, wire'[i].msg, Place(wire'[i]),
                            Written(wire'[i].msg, cur, Reached), cur)
      BY <2>1 DEF Unbroken
    <2> DEFINE m == wire[i + d].msg
               p == Place(wire[i + d])
               z == Written(m, cur, Reached)
               last == i + z - p
    <2>2. wire'[i] = wire[i + d] /\ i + d \in 1 .. Len(wire)
      BY <1>2
    <2>3. Run(wire, i + d, m, p, z, cur)
      BY <2>2 DEF Unbroken
    <2>4. p \in Nat /\ z \in Nat /\ i \in Nat
      BY <1>1, <2>2, WireFacts, Ranges DEF Written
    <2> HIDE DEF m, p, z
    <2>5. (i + d) + z - p = last + d
      BY <1>1, <2>4
    <2>6. /\ p <= z
          /\ last + d <= Len(wire)
          /\ m = cur => last + d = Len(wire)
          /\ \A j \in i + d .. last + d : wire[j] = CellAt(m, p + (j - (i + d)))
          /\ last + d < Len(wire) => /\ Place(wire[last + d + 1]) = 1
                                     /\ m < wire[last + d + 1].msg
      BY <2>3, <2>5 DEF Run
    <2>7. last \in Nat /\ i <= last
      BY <2>4, <2>6
    <2> HIDE DEF last
    <2>8. last <= Len(wire') /\ (m = cur => last = Len(wire'))
      <3>1. last + d <= Len(wire) /\ (m = cur => last + d = Len(wire))
        BY <2>6
      <3> QED
        BY <1>1, <2>7, <3>1
    <2>9. ASSUME NEW j \in i .. last
          PROVE  wire'[j] = CellAt(m, p + (j - i))
      <3>1. j \in 1 .. Len(wire') /\ j + d \in i + d .. last + d /\ (j + d) - (i + d) = j - i
        BY <1>1, <2>4, <2>7, <2>8
      <3>2. wire'[j] = wire[j + d]
        BY <1>2, <3>1
      <3>3. wire[j + d] = CellAt(m, p + ((j + d) - (i + d)))
        BY <2>6, <3>1
      <3> QED
        BY <3>1, <3>2, <3>3
    <2>10. last < Len(wire') => Place(wire'[last + 1]) = 1 /\ m < wire'[last + 1].msg
      <3> SUFFICES ASSUME last < Len(wire')
                   PROVE  Place(wire'[last + 1]) = 1 /\ m < wire'[last + 1].msg
        OBVIOUS
      <3>1. last + 1 \in 1 .. Len(wire') /\ (last + 1) + d = last + d + 1 /\ last + d < Len(wire)
        BY <1>1, <2>7
      <3>2. wire'[last + 1] = wire[last + d + 1]
        <4>1. wire'[last + 1] = wire[(last + 1) + d]
          BY <1>2, <3>1
        <4> QED
          BY <3>1, <4>1
      <3> QED
        BY <2>6, <3>1, <3>2
    <2>11. Run(wire', i, m, p, z, cur)
      BY <2>6, <2>8, <2>9, <2>10 DEF Run, last
    <2> QED
      BY <2>2, <2>11 DEF m, p, z
  <1> QED
    BY <1>3, <1>4, <1>5

(* What was handed up before stays behind the rest. *)
LEMMA ReadsDelivered ==
  ASSUME DeliveredShape, UNCHANGED <<cur, cut>>, NEW n \in 1 .. Len(delivered),
         \A i \in 1 .. Len(wire') : \E j \in 1 .. Len(wire) : wire'[i] = wire[j]
  PROVE  /\ delivered[n] # <<>>
         /\ \A k \in 1 .. Len(delivered[n]) :
              /\ delivered[n][k].msg <= cur'
              /\ \A i \in 1 .. Len(wire') : delivered[n][k].msg <= wire'[i].msg
         /\ Uncut(delivered[n][1].msg, cut') =>
              /\ delivered[n][1].msg < cur'
              /\ \A i \in 1 .. Len(wire') : delivered[n][1].msg < wire'[i].msg
  <1>1. /\ delivered[n] # <<>>
        /\ \A k \in 1 .. Len(delivered[n]) :
             /\ delivered[n][k].msg <= cur
             /\ \A i \in 1 .. Len(wire) : delivered[n][k].msg <= wire[i].msg
        /\ Uncut(delivered[n][1].msg, cut) =>
             /\ delivered[n][1].msg < cur
             /\ \A i \in 1 .. Len(wire) : delivered[n][1].msg < wire[i].msg
    BY DEF DeliveredShape
  <1> QED
    BY <1>1

(* receiveMessage, phase Header, keeps the invariant. *)
LEMMA ReceiveHeaderKeeps ==
  ASSUME StreamInv, ReceiveHeader
  PROVE  StreamInv'
  <1>1. /\ TypeOK /\ WriterShape /\ WireShape /\ Unbroken /\ AtHeader /\ AtPayload
        /\ DeliveredShape /\ DeliveredIntact
    BY DEF StreamInv
  <1>2. /\ ~closed /\ phase = "Header" /\ wire # <<>>
        /\ wire' = Rest(HeaderSize)
        /\ UNCHANGED <<cur, frag, delivered, cut>>
    BY DEF ReceiveHeader
  <1>3. /\ HeaderSize \in Nat \ {0} /\ Len(wire) \in Nat /\ cur \in Nat /\ frag \in Nat
        /\ Reached \in Nat /\ 1 \in 1 .. Len(wire)
    <2>1. Len(wire) # 0
      BY <1>1, <1>2 DEF TypeOK
    <2> QED
      BY <1>1, <2>1, Ranges
  <1> DEFINE d == Least(HeaderSize, Len(wire))
  <1>4. /\ d \in 0 .. Len(wire) /\ d <= HeaderSize
        /\ HeaderSize <= Len(wire) => d = HeaderSize
        /\ Available(HeaderSize) \in Seq(Cell) /\ Len(Available(HeaderSize)) = d
        /\ \A i \in 1 .. d : Available(HeaderSize)[i] = wire[i]
        /\ wire' \in Seq(Cell) /\ Len(wire') = Len(wire) - d
        /\ \A i \in 1 .. Len(wire) - d : wire'[i] = wire[i + d]
    BY <1>1, <1>2, <1>3, ReadFacts
  <1> HIDE DEF d
  <1>5. WriterShape' /\ WireShape' /\ Unbroken'
    BY <1>1, <1>2, <1>4, ReadsWire
  <1>6. \A i \in 1 .. Len(wire') : \E j \in 1 .. Len(wire) : wire'[i] = wire[j]
    BY <1>3, <1>4
  <1>7. DeliveredShape'
    BY <1>1, <1>2, <1>6, ReadsDelivered DEF DeliveredShape
  <1>8. DeliveredIntact'
    BY <1>1, <1>2 DEF DeliveredIntact, Intact
  <1>9. Len(wire') <= Capacity /\ cur' \in 1 .. Len(Msgs) + 1
    <2>1. Len(wire) <= Capacity /\ Capacity \in Nat /\ cur \in 1 .. Len(Msgs) + 1
      BY <1>1, FramingAssumption DEF TypeOK
    <2> QED
      BY <1>2, <1>3, <1>4, <2>1
  (* A message whose first cell is the first on the wire is all there up to *)
  (* what is written of it, and that is the header at least.                *)
  <1>10. ASSUME NEW m \in Ids, wire[1].msg = m, Place(wire[1]) = 1, Uncut(m, cut)
         PROVE  \E z \in Nat :
                  /\ z = Written(m, cur, Reached) /\ HeaderSize <= z /\ z <= Len(wire)
                  /\ m = cur => z = Len(wire)
                  /\ \A j \in 1 .. z : wire[j] = CellAt(m, j)
    <2> DEFINE z == Written(m, cur, Reached)
    <2>1. m \in Nat /\ LengthOf(m) \in Nat /\ HeaderSize <= LengthOf(m)
      BY <1>1, <1>3, <1>10, Ranges, SizeFacts DEF LengthOf
    <2>2. Begun(m, cur, frag)
      BY <1>1, <1>3, <1>10 DEF WireShape
    <2>3. z \in Nat /\ HeaderSize <= z
      BY <1>1, <1>3, <2>1, <2>2, Ranges DEF Written, Begun
    <2>4. Run(wire, 1, m, 1, z, cur)
      BY <1>1, <1>3, <1>10 DEF Unbroken
    <2> HIDE DEF z
    <2>5. 1 + z - 1 = z
      BY <2>3
    <2>6. /\ z <= Len(wire) /\ (m = cur => z = Len(wire))
          /\ \A j \in 1 .. z : wire[j] = CellAt(m, 1 + (j - 1))
      BY <2>4, <2>5 DEF Run
    <2>7. \A j \in 1 .. z : 1 + (j - 1) = j
      BY <2>3
    <2>8. \A j \in 1 .. z : wire[j] = CellAt(m, j)
      BY <2>6, <2>7
    <2> QED
      BY <2>3, <2>6, <2>8 DEF z
  <1>11. ASSUME NEW m \in Ids, ValidHeader(Available(HeaderSize), m),
                size' = TotalSize(m), phase' = "Payload", closed' = closed
         PROVE  StreamInv'
    <2>1. Available(HeaderSize) = Header(m)
      BY <1>11 DEF ValidHeader
    <2>2. d = HeaderSize
      BY <1>4, <2>1, HeaderFacts
    <2>3. wire[1] = CellAt(m, 1)
      <3>1. 1 \in 1 .. HeaderSize
        BY <1>3
      <3> QED
        BY <1>4, <2>1, <2>2, <3>1, HeaderFacts
    <2>4. wire[1].msg = m /\ Place(wire[1]) = 1
      BY <2>3, CellFacts
    <2>5. Begun(m, cur, frag) /\ m \in Nat
      BY <1>1, <1>3, <2>4, WireFacts DEF WireShape
    <2>6. \A i \in 1 .. Len(wire') : m <= wire'[i].msg
      <3> SUFFICES ASSUME NEW i \in 1 .. Len(wire')
                   PROVE  m <= wire'[i].msg
        OBVIOUS
      <3>1. i + d \in 1 .. Len(wire) /\ 1 <= i + d /\ wire'[i] = wire[i + d]
        BY <1>3, <1>4
      <3>2. wire[1].msg <= wire[i + d].msg
        BY <1>1, <1>3, <3>1 DEF WireShape
      <3> QED
        BY <2>4, <3>1, <3>2
    <2>7. Uncut(m, cut) => /\ wire' = <<>> => m = cur /\ frag = 1
                           /\ wire' # <<>> => wire'[1].msg = m /\ Place(wire'[1]) = HeaderSize + 1
      <3> SUFFICES ASSUME Uncut(m, cut)
                   PROVE  /\ wire' = <<>> => m = cur /\ frag = 1
                          /\ wire' # <<>> => wire'[1].msg = m /\ Place(wire'[1]) = HeaderSize + 1
        OBVIOUS
      <3>1. PICK z \in Nat :
              /\ z = Written(m, cur, Reached) /\ HeaderSize <= z /\ z <= Len(wire)
              /\ m = cur => z = Len(wire)
              /\ \A j \in 1 .. z : wire[j] = CellAt(m, j)
        BY <1>10, <2>4
      <3>2. CASE m = cur /\ frag = 1
        <4>1. z = HeaderSize /\ Len(wire) = HeaderSize
          BY <1>1, <1>3, <3>1, <3>2, Ranges DEF Written
        <4>2. Len(wire') = 0
          BY <1>4, <2>2, <4>1
        <4>3. wire' = <<>>
          BY <1>4, <4>2
        <4> QED
          BY <3>2, <4>3
      <3>3. CASE ~(m = cur /\ frag = 1)
        <4>1. HeaderSize < z
          <5>1. CASE m < cur
            <6>1. TotalSize(m) \in Nat \ {0} /\ z = HeaderSize + TotalSize(m)
              BY <3>1, <5>1, SizeFacts DEF Written, LengthOf
            <6> QED
              BY <1>3, <6>1
          <5>2. CASE m = cur /\ frag > 0
            <6>1. frag > 1 /\ z = Reached
              BY <1>3, <3>1, <3>3, <5>2 DEF Written
            <6> QED
              BY <1>1, <6>1, Ranges
          <5> QED
            BY <2>5, <5>1, <5>2 DEF Begun
        <4>2. HeaderSize + 1 \in 1 .. z /\ 1 \in 1 .. Len(wire) - d /\ 1 + d = HeaderSize + 1
          BY <1>3, <2>2, <3>1, <4>1
        <4>3. wire'[1] = CellAt(m, HeaderSize + 1)
          BY <1>4, <3>1, <4>2
        <4>4. wire'[1].msg = m /\ Place(wire'[1]) = HeaderSize + 1
          BY <1>3, <4>3, CellFacts
        <4>5. wire' # <<>>
          BY <1>4, <4>2
        <4> QED
          BY <4>4, <4>5
      <3> QED
        BY <3>2, <3>3
    <2>8. Behind(m)'
      BY <1>2, <1>11, <2>5, <2>6, <2>7 DEF Behind
    <2>9. AtHeader' /\ AtPayload' /\ ClosedOnlyForAReason'
      BY <1>2, <1>11, <2>8 DEF AtHeader, AtPayload, ClosedOnlyForAReason
    <2>10. TypeOK'
      <3>1. size' \in Nat
        BY <1>11, SizeFacts
      <3> QED
        BY <1>1, <1>2, <1>4, <1>9, <1>11, <3>1 DEF TypeOK
    <2> QED
      BY <1>5, <1>7, <1>8, <2>9, <2>10 DEF StreamInv
  <1>12. ASSUME \A m \in Ids : ~ValidHeader(Available(HeaderSize), m),
                closed' = TRUE, UNCHANGED <<size, phase>>
         PROVE  StreamInv'
    <2>1. AtHeader' /\ AtPayload'
      BY <1>12 DEF AtHeader, AtPayload
    <2>2. TypeOK'
      BY <1>1, <1>2, <1>4, <1>9, <1>12 DEF TypeOK
    <2>3. ASSUME cut = {}
          PROVE  \E m \in Ids : TotalSize(m) > MsgMaxSize /\ (m < cur \/ (m = cur /\ frag > 0))
      <3>1. \A m : Uncut(m, cut)
        BY <2>3 DEF Uncut
      <3>2. PICK m \in Ids : m = wire[1].msg
        BY <1>1, <1>3, WireFacts
      <3>3. Place(wire[1]) = 1
        BY <1>1, <1>2, <3>1 DEF AtHeader
      <3>4. PICK z \in Nat :
              /\ z = Written(m, cur, Reached) /\ HeaderSize <= z /\ z <= Len(wire)
              /\ \A j \in 1 .. z : wire[j] = CellAt(m, j)
        BY <1>10, <3>1, <3>2, <3>3
      <3>5. HeaderSize <= Len(wire)
        BY <1>3, <3>4
      <3>6. d = HeaderSize
        BY <1>4, <3>5
      <3>7. \A j \in 1 .. HeaderSize : Available(HeaderSize)[j] = CellAt(m, j)
        <4>1. \A j \in 1 .. HeaderSize : j \in 1 .. z
          BY <1>3, <3>4
        <4> QED
          BY <1>4, <3>4, <3>6, <4>1
      <3>8. Available(HeaderSize) = Header(m)
        <4>1. /\ Header(m) \in Seq(Cell) /\ Len(Header(m)) = HeaderSize
              /\ \A i \in 1 .. HeaderSize : Header(m)[i] = CellAt(m, i)
          BY HeaderFacts
        <4> QED
          BY <1>4, <3>6, <3>7, <4>1
      <3>9. ~(TotalSize(m) <= MsgMaxSize)
        BY <1>12, <3>8 DEF ValidHeader
      <3>10. TotalSize(m) \in Nat /\ MsgMaxSize \in Nat
        BY SizeFacts, FramingAssumption
      <3>11. Begun(m, cur, frag)
        BY <1>1, <1>3, <3>2 DEF WireShape
      <3> QED
        BY <3>9, <3>10, <3>11 DEF Begun
    <2>4. ClosedOnlyForAReason'
      BY <1>2, <2>3 DEF ClosedOnlyForAReason
    <2> QED
      BY <1>5, <1>7, <1>8, <2>1, <2>2, <2>4 DEF StreamInv
  <1> QED
    BY <1>11, <1>12 DEF ReceiveHeader

(* receiveMessage, phase Payload, keeps the invariant. *)
LEMMA ReceivePayloadKeeps ==
  ASSUME StreamInv, ReceivePayload
  PROVE  StreamInv'
  <1>1. /\ TypeOK /\ WriterShape /\ WireShape /\ Unbroken /\ AtHeader /\ AtPayload
        /\ DeliveredShape /\ DeliveredIntact
    BY DEF StreamInv
  <1>2. /\ ~closed /\ phase = "Payload" /\ wire # <<>>
        /\ wire' = Rest(size)
        /\ UNCHANGED <<cur, frag, size, cut>>
    BY DEF ReceivePayload
  <1>3. /\ HeaderSize \in Nat \ {0} /\ Len(wire) \in Nat /\ cur \in Nat /\ frag \in Nat
        /\ Reached \in Nat /\ 1 \in 1 .. Len(wire)
    <2>1. Len(wire) # 0
      BY <1>1, <1>2 DEF TypeOK
    <2> QED
      BY <1>1, <2>1, Ranges
  <1>4. PICK m \in Ids : Behind(m)
    BY <1>1, <1>2 DEF AtPayload
  <1>5. /\ size = TotalSize(m) /\ size \in Nat \ {0} /\ m \in Nat
        /\ LengthOf(m) = HeaderSize + size /\ Begun(m, cur, frag)
        /\ \A i \in 1 .. Len(wire) : m <= wire[i].msg
    BY <1>4, SizeFacts DEF Behind, LengthOf, Ids
  <1>6. Uncut(m, cut) => wire[1].msg = m /\ Place(wire[1]) = HeaderSize + 1
    BY <1>2, <1>4 DEF Behind
  <1> DEFINE d == Least(size, Len(wire))
             p == Available(size)
  <1>7. /\ d \in 0 .. Len(wire) /\ d <= size
        /\ Len(wire) <= size => d = Len(wire)
        /\ p \in Seq(Cell) /\ Len(p) = d
        /\ \A i \in 1 .. d : p[i] = wire[i]
        /\ wire' \in Seq(Cell) /\ Len(wire') = Len(wire) - d
        /\ \A i \in 1 .. Len(wire) - d : wire'[i] = wire[i + d]
    BY <1>1, <1>2, <1>5, ReadFacts
  <1>8. size <= Len(wire) => d = size
    BY <1>1, <1>5, ReadFacts
  <1> HIDE DEF d, p
  <1>9. WriterShape' /\ WireShape' /\ Unbroken'
    BY <1>1, <1>2, <1>7, ReadsWire
  <1>10. \A i \in 1 .. Len(wire') : i + d \in 1 .. Len(wire) /\ wire'[i] = wire[i + d]
    BY <1>3, <1>7
  <1>11. Len(wire') <= Capacity /\ cur' \in 1 .. Len(Msgs) + 1
    <2>1. Len(wire) <= Capacity /\ Capacity \in Nat /\ cur \in 1 .. Len(Msgs) + 1
      BY <1>1, FramingAssumption DEF TypeOK
    <2> QED
      BY <1>2, <1>3, <1>7, <2>1
  <1>12. ASSUME NEW n \in 1 .. Len(delivered)
         PROVE  /\ delivered[n] # <<>>
                /\ \A k \in 1 .. Len(delivered[n]) :
                     /\ delivered[n][k].msg <= cur'
                     /\ \A i \in 1 .. Len(wire') : delivered[n][k].msg <= wire'[i].msg
                /\ Uncut(delivered[n][1].msg, cut') =>
                     /\ delivered[n][1].msg < cur'
                     /\ \A i \in 1 .. Len(wire') : delivered[n][1].msg < wire'[i].msg
    <2>1. \A i \in 1 .. Len(wire') : \E j \in 1 .. Len(wire) : wire'[i] = wire[j]
      BY <1>10
    <2> QED
      BY <1>1, <1>2, <2>1, ReadsDelivered
  (* Of an uncut message whose header was read, the wire holds what is      *)
  (* written of the payload, all of it once the writer has gone on.         *)
  <1>13. ASSUME Uncut(m, cut), m < cur
         PROVE  /\ size <= Len(wire)
                /\ \A j \in 1 .. size : wire[j] = CellAt(m, HeaderSize + j)
                /\ size < Len(wire) => Place(wire[size + 1]) = 1 /\ m < wire[size + 1].msg
    <2>1. Run(wire, 1, m, HeaderSize + 1, HeaderSize + size, cur)
      <3>1. Written(m, cur, Reached) = HeaderSize + size
        BY <1>5, <1>13 DEF Written
      <3> QED
        BY <1>1, <1>3, <1>6, <1>13, <3>1 DEF Unbroken
    <2>2. 1 + (HeaderSize + size) - (HeaderSize + 1) = size
      BY <1>3, <1>5
    <2>3. /\ size <= Len(wire)
          /\ \A j \in 1 .. size : wire[j] = CellAt(m, HeaderSize + 1 + (j - 1))
          /\ size < Len(wire) => Place(wire[size + 1]) = 1 /\ m < wire[size + 1].msg
      BY <2>1, <2>2 DEF Run
    <2>4. \A j \in 1 .. size : HeaderSize + 1 + (j - 1) = HeaderSize + j
      BY <1>3, <1>5
    <2> QED
      BY <2>3, <2>4
  <1>14. ASSUME Uncut(m, cut), m = cur
         PROVE  frag > 0 /\ Len(wire) < size
    <2>1. Run(wire, 1, m, HeaderSize + 1, Reached, cur)
      <3>1. Written(m, cur, Reached) = Reached
        BY <1>3, <1>14 DEF Written
      <3> QED
        BY <1>1, <1>3, <1>6, <1>14, <3>1 DEF Unbroken
    <2>2. 1 + Reached - (HeaderSize + 1) = Len(wire)
      BY <1>14, <2>1 DEF Run
    <2>3. Reached < HeaderSize + size
      BY <1>1, <1>4, <1>5, <1>14, Ranges
    <2>4. Len(wire) < size
      BY <1>3, <1>5, <2>2, <2>3
    <2> QED
      BY <1>3, <1>5, <1>14, <2>4 DEF Begun
  <1>15. m < cur \/ m = cur
    BY <1>5 DEF Begun
  <1>16. ASSUME PayloadTaken(p, size), delivered' = Append(delivered, p),
                phase' = "Header", closed' = closed
         PROVE  StreamInv'
    <2>1. d = size /\ size <= Len(wire)
      BY <1>3, <1>5, <1>7, <1>16 DEF PayloadTaken
    <2>2. p # <<>> /\ 1 \in 1 .. size /\ p[1] = wire[1]
      BY <1>5, <1>7, <2>1
    <2>3. \A k \in 1 .. size : k \in 1 .. Len(wire) /\ p[k] = wire[k]
      BY <1>3, <1>5, <1>7, <2>1
    <2>4. \A k \in 1 .. Len(wire) : wire[k].msg \in Nat /\ wire[k].msg <= cur
      BY <1>1, WireFacts
    <2>5. \A x, y \in Nat : x <= y /\ Uncut(y, cut) => Uncut(x, cut)
      <3>1. \A x \in cut : x \in Nat
        BY <1>1 DEF TypeOK, Ids
      <3> QED
        BY <3>1 DEF Uncut
    <2>6. ASSUME Uncut(wire[1].msg, cut)
          PROVE  /\ wire[1].msg = m /\ m < cur
                 /\ \A j \in 1 .. size : wire[j] = CellAt(m, HeaderSize + j)
                 /\ size < Len(wire) => Place(wire[size + 1]) = 1 /\ m < wire[size + 1].msg
      <3>1. Uncut(m, cut)
        BY <1>3, <1>5, <2>4, <2>5, <2>6
      <3>2. m < cur
        BY <1>3, <1>5, <1>14, <1>15, <2>1, <3>1
      <3> QED
        BY <1>6, <1>13, <3>1, <3>2
    <2>7. ASSUME Uncut(wire[1].msg, cut), NEW i \in 1 .. Len(wire')
          PROVE  m < wire'[i].msg
      <3>1. /\ size + 1 \in 1 .. Len(wire) /\ size < Len(wire) /\ i + size \in 1 .. Len(wire)
            /\ size + 1 <= i + size /\ wire'[i] = wire[i + size]
        <4>1. Len(wire') = Len(wire) - size /\ i \in Nat /\ 1 <= i /\ i <= Len(wire')
          BY <1>3, <1>7, <2>1
        <4>2. i + size \in 1 .. Len(wire) /\ wire'[i] = wire[i + size]
          BY <1>10, <2>1
        <4>3. Len(wire) \in Nat /\ size \in Nat \ {0}
          BY <1>3, <1>5
        <4>4. size + 1 \in 1 .. Len(wire) /\ size < Len(wire) /\ size + 1 <= i + size
          BY <4>1, <4>3
        <4> QED
          BY <4>2, <4>4
      <3>2. m < wire[size + 1].msg /\ wire[size + 1].msg <= wire[i + size].msg
        BY <1>1, <2>6, <2>7, <3>1 DEF WireShape
      <3>3. wire[size + 1].msg \in Nat /\ wire[i + size].msg \in Nat
        BY <2>4, <3>1
      <3> QED
        BY <1>5, <3>1, <3>2, <3>3
    <2>8. /\ delivered' \in Seq(Seq(Cell))
          /\ Len(delivered') = Len(delivered) + 1
          /\ \A n \in 1 .. Len(delivered) : delivered'[n] = delivered[n]
          /\ delivered'[Len(delivered) + 1] = p
      <3>1. delivered \in Seq(Seq(Cell))
        BY <1>1 DEF TypeOK
      <3> QED
        BY <1>7, <1>16, <3>1, AppendProperties
    <2>9. \A n \in 1 .. Len(delivered') : n \in 1 .. Len(delivered) \/ n = Len(delivered) + 1
      <3>1. Len(delivered) \in Nat
        BY <1>1 DEF TypeOK
      <3> QED
        BY <2>8, <3>1
    <2>10. DeliveredShape'
      <3> SUFFICES ASSUME NEW n \in 1 .. Len(delivered')
                   PROVE  /\ delivered'[n] # <<>>
                          /\ \A k \in 1 .. Len(delivered'[n]) :
                               /\ delivered'[n][k].msg <= cur'
                               /\ \A i \in 1 .. Len(wire') : delivered'[n][k].msg <= wire'[i].msg
                          /\ Uncut(delivered'[n][1].msg, cut') =>
                               /\ delivered'[n][1].msg < cur'
                               /\ \A i \in 1 .. Len(wire') : delivered'[n][1].msg < wire'[i].msg
        BY DEF DeliveredShape
      <3>1. CASE n \in 1 .. Len(delivered)
        BY <1>12, <2>8, <3>1
      <3>2. CASE n = Len(delivered) + 1
        <4>1. delivered'[n] = p
          BY <2>8, <3>2
        <4>2. ASSUME NEW k \in 1 .. Len(p)
              PROVE  /\ p[k].msg <= cur'
                     /\ \A i \in 1 .. Len(wire') : p[k].msg <= wire'[i].msg
          <5>1. k \in 1 .. size /\ k \in 1 .. Len(wire) /\ p[k] = wire[k]
            BY <1>7, <2>1, <2>3
          <5>2. p[k].msg <= cur'
            BY <1>2, <2>4, <5>1
          <5>3. ASSUME NEW i \in 1 .. Len(wire')
                PROVE  p[k].msg <= wire'[i].msg
            <6>1. i + size \in 1 .. Len(wire) /\ k <= i + size /\ wire'[i] = wire[i + size]
              <7>1. i + size \in 1 .. Len(wire) /\ wire'[i] = wire[i + size]
                BY <1>10, <2>1
              <7>2. size \in Nat /\ k <= size /\ k \in Nat /\ i \in Nat
                BY <1>5, <5>1
              <7> QED
                BY <7>1, <7>2
            <6>2. wire[k].msg <= wire[i + size].msg
              BY <1>1, <5>1, <6>1 DEF WireShape
            <6> QED
              BY <5>1, <6>1, <6>2
          <5> QED
            BY <5>2, <5>3
        <4>3. Uncut(p[1].msg, cut') =>
                /\ p[1].msg < cur'
                /\ \A i \in 1 .. Len(wire') : p[1].msg < wire'[i].msg
          BY <1>2, <2>2, <2>6, <2>7
        <4> QED
          BY <2>2, <4>1, <4>2, <4>3
      <3> QED
        BY <2>9, <3>1, <3>2
    <2>11. DeliveredIntact'
      <3> SUFFICES ASSUME NEW n \in 1 .. Len(delivered'), Uncut(delivered'[n][1].msg, cut)
                   PROVE  /\ Intact(delivered'[n])
                          /\ n > 1 => delivered'[n - 1][1].msg < delivered'[n][1].msg
        BY <1>2 DEF DeliveredIntact, Intact
      <3>1. CASE n \in 1 .. Len(delivered)
        <4>1. delivered'[n] = delivered[n] /\ (n > 1 => n - 1 \in 1 .. Len(delivered))
          BY <2>8, <3>1
        <4>2. n > 1 => delivered'[n - 1] = delivered[n - 1]
          BY <2>8, <4>1
        <4>3. /\ Intact(delivered[n])
              /\ n > 1 => delivered[n - 1][1].msg < delivered[n][1].msg
          BY <1>1, <3>1, <4>1 DEF DeliveredIntact
        <4> QED
          BY <4>1, <4>2, <4>3
      <3>2. CASE n = Len(delivered) + 1
        <4>1. delivered'[n] = p /\ p[1] = wire[1] /\ Uncut(wire[1].msg, cut)
          BY <2>2, <2>8, <3>2
        <4>2. Intact(p)
          <5>1. /\ Len(p) = TotalSize(m)
                /\ \A j \in 1 .. Len(p) : p[j] = CellAt(m, HeaderSize + j)
            BY <1>5, <1>7, <2>1, <2>3, <2>6, <4>1
          <5>2. p = Payload(m)
            BY <1>7, <5>1, PayloadFacts
          <5> QED
            BY <5>2 DEF Intact
        <4>3. ASSUME n > 1
              PROVE  delivered'[n - 1][1].msg < wire[1].msg
          <5>1. n - 1 \in 1 .. Len(delivered)
            <6>1. Len(delivered) \in Nat
              BY <1>1 DEF TypeOK
            <6> QED
              BY <3>2, <4>3, <6>1
          <5>2. PICK u \in Seq(Cell) : u = delivered[n - 1] /\ 1 \in 1 .. Len(u) /\ u[1].msg \in Nat
            BY <1>1, <5>1, DeliveredFacts
          <5>3. u[1].msg <= wire[1].msg
            BY <1>1, <1>3, <5>1, <5>2 DEF DeliveredShape
          <5>4. Uncut(u[1].msg, cut)
            BY <1>3, <2>4, <2>5, <4>1, <5>2, <5>3
          <5>5. u[1].msg < wire[1].msg
            BY <1>1, <1>3, <5>1, <5>2, <5>4 DEF DeliveredShape
          <5> QED
            BY <2>8, <5>1, <5>2, <5>5
        <4> QED
          BY <4>1, <4>2, <4>3
      <3> QED
        BY <2>9, <3>1, <3>2
    <2>12. AtHeader'
      <3>1. ASSUME wire' # <<>>, Uncut(wire'[1].msg, cut)
            PROVE  Place(wire'[1]) = 1
        <4>1. 1 \in 1 .. Len(wire')
          BY <1>7, <3>1
        <4>2. size + 1 \in 1 .. Len(wire) /\ size < Len(wire) /\ wire'[1] = wire[size + 1] /\ 1 <= size + 1
          BY <1>3, <1>5, <1>7, <2>1, <4>1
        <4>3. wire[1].msg <= wire[size + 1].msg
          BY <1>1, <1>3, <4>2 DEF WireShape
        <4>4. Uncut(wire[1].msg, cut)
          BY <1>3, <2>4, <2>5, <3>1, <4>2, <4>3
        <4> QED
          BY <2>6, <4>2, <4>4
      <3>2. ASSUME Uncut(cur, cut), frag > 0
            PROVE  wire' # <<>>
        <4>1. wire[Len(wire)].msg = cur
          BY <1>1, <1>2, <3>2 DEF WireShape
        <4>2. Uncut(wire[1].msg, cut)
          BY <1>3, <2>4, <2>5, <3>2
        <4>3. wire[size].msg = m
          <5>1. size \in 1 .. size /\ HeaderSize + size \in Nat \ {0}
            BY <1>3, <1>5
          <5>2. wire[size] = CellAt(m, HeaderSize + size)
            BY <2>6, <4>2, <5>1
          <5> QED
            BY <1>4, <5>1, <5>2, CellFacts
        <4>4. Len(wire) # size
          BY <1>3, <1>5, <2>6, <4>1, <4>2, <4>3
        <4>5. Len(wire') # 0
          BY <1>3, <1>5, <1>7, <2>1, <4>4
        <4> QED
          BY <4>5
      <3> QED
        BY <1>2, <3>1, <3>2 DEF AtHeader
    <2>13. AtPayload' /\ ClosedOnlyForAReason'
      BY <1>2, <1>16 DEF AtPayload, ClosedOnlyForAReason
    <2>14. TypeOK'
      BY <1>1, <1>2, <1>7, <1>11, <1>16, <2>8 DEF TypeOK
    <2> QED
      BY <1>9, <2>10, <2>11, <2>12, <2>13, <2>14 DEF StreamInv
  <1>17. ASSUME ~PayloadTaken(p, size), closed' = TRUE, UNCHANGED <<phase, delivered>>
         PROVE  StreamInv'
    <2>1. Len(wire) < size /\ d = Len(wire)
      BY <1>3, <1>5, <1>7, <1>8, <1>17 DEF PayloadTaken
    <2>2. wire' = <<>>
      BY <1>3, <1>7, <2>1
    <2>3. ASSUME cut = {}
          PROVE  frag > 0
      <3>1. Uncut(m, cut)
        BY <2>3 DEF Uncut
      <3>2. ~(m < cur)
        BY <1>3, <1>5, <1>13, <2>1, <3>1
      <3> QED
        BY <1>14, <1>15, <3>1, <3>2
    <2>4. ClosedOnlyForAReason'
      BY <1>2, <2>2, <2>3 DEF ClosedOnlyForAReason
    <2>5. AtHeader' /\ AtPayload'
      BY <1>17 DEF AtHeader, AtPayload
    <2>6. DeliveredShape'
      BY <1>12, <1>17 DEF DeliveredShape
    <2>7. DeliveredIntact'
      BY <1>1, <1>2, <1>17 DEF DeliveredIntact, Intact
    <2>8. TypeOK'
      BY <1>1, <1>2, <1>7, <1>11, <1>17 DEF TypeOK
    <2> QED
      BY <1>9, <2>4, <2>5, <2>6, <2>7, <2>8 DEF StreamInv
  <1> QED
    BY <1>16, <1>17 DEF ReceivePayload, p

-----------------------------------------------------------------------------
(* A fresh connection satisfies the invariant. *)
LEMMA StreamInit == Init => StreamInv
  <1> SUFFICES ASSUME Init
               PROVE  StreamInv
    OBVIOUS
  <1>1. Capacity \in Nat /\ Len(Msgs) \in Nat
    BY FramingAssumption
  <1>2. TypeOK
    <2>1. 1 \in 1 .. Len(Msgs) + 1 /\ 0 \in Nat
      BY <1>1
    <2>2. <<>> \in Seq(Cell) /\ <<>> \in Seq(Seq(Cell)) /\ Len(<<>>) <= Capacity
      BY <1>1
    <2> QED
      BY <2>1, <2>2 DEF Init, TypeOK
  <1>3. WriterShape
    BY SizeFacts DEF Init, WriterShape
  <1>4. WireShape /\ Unbroken /\ DeliveredShape /\ DeliveredIntact
    BY DEF Init, WireShape, Unbroken, DeliveredShape, DeliveredIntact
  <1>5. AtHeader /\ AtPayload /\ ClosedOnlyForAReason
    BY DEF Init, AtHeader, AtPayload, ClosedOnlyForAReason
  <1> QED
    BY <1>2, <1>3, <1>4, <1>5 DEF StreamInv

(* Every system call of writer and reader keeps it. *)
LEMMA StreamStep == StreamInv /\ [Next]_vars => StreamInv'
  <1> SUFFICES ASSUME StreamInv, [Next]_vars
               PROVE  StreamInv'
    OBVIOUS
  <1>1. CASE SendHeader
    <2>1. TypeOK /\ WriterShape /\ ~closed
      BY <1>1 DEF StreamInv, SendHeader
    <2>2. TypeOK' /\ (Skips \/ \E a, n \in Nat : Writes(a, n))
      BY <1>1, <2>1, SendHeaderCases
    <2> QED
      BY <2>1, <2>2, SkipsKeeps, WritesKeeps
  <1>2. CASE SendFragment
    <2>1. TypeOK /\ WriterShape /\ ~closed
      BY <1>2 DEF StreamInv, SendFragment
    <2>2. TypeOK' /\ (Skips \/ \E a, n \in Nat : Writes(a, n))
      BY <1>2, <2>1, SendFragmentCases
    <2> QED
      BY <2>1, <2>2, SkipsKeeps, WritesKeeps
  <1>3. CASE ReceiveHeader
    BY <1>3, ReceiveHeaderKeeps
  <1>4. CASE ReceivePayload
    BY <1>4, ReceivePayloadKeeps
  <1>5. CASE UNCHANGED vars
    BY <1>5 DEF vars, StreamInv, TypeOK, WriterShape, WireShape, Unbroken, Reached, AtHeader,
                AtPayload, Behind, DeliveredShape, DeliveredIntact, Intact, ClosedOnlyForAReason
  <1> QED
    BY <1>1, <1>2, <1>3, <1>4, <1>5 DEF Next

(* The invariant holds in every behaviour, for any messages and buffer. *)
THEOREM StreamInvariant == Spec => []StreamInv
  BY StreamInit, StreamStep, PTL DEF Spec

(* SocketBase keeps its variables in their types and the buffer within its *)
(* capacity.                                                               *)
THEOREM FramingTypeCorrect == Spec => []TypeOK
  <1>1. StreamInv => TypeOK
    BY DEF StreamInv
  <1> QED
    BY <1>1, StreamInvariant, PTL

(* Until a message is cut by a full buffer, SocketBase::receiveMessage     *)
(* hands up only payloads that were sent, whole, in order and not twice -  *)
(* for messages of any number and size, whatever the header's size, and    *)
(* for every interleaving of the system calls.                             *)
THEOREM PayloadsAreIntact == Spec => []IntactBeforeFirstCut
  <1>1. StreamInv => IntactBeforeFirstCut
    <2> SUFFICES ASSUME StreamInv, NEW i \in 1 .. Len(delivered), BeforeTheCut(delivered[i])
                 PROVE  /\ Intact(delivered[i])
                        /\ i > 1 => delivered[i - 1][1].msg < delivered[i][1].msg
      BY DEF IntactBeforeFirstCut
    <2>1. 1 \in 1 .. Len(delivered[i])
      BY DeliveredFacts DEF StreamInv
    <2>2. Uncut(delivered[i][1].msg, cut)
      BY <2>1 DEF BeforeTheCut, Uncut
    <2> QED
      BY <2>2 DEF StreamInv, DeliveredIntact
  <1> QED
    BY <1>1, StreamInvariant, PTL

(* A connection is given up only after a cut, for a message larger than    *)
(* MsgMaxSize, or when a payload was read between two of its fragments.    *)
THEOREM ConnectionsCloseForAReason == Spec => []ClosedOnlyForAReason
  <1>1. StreamInv => ClosedOnlyForAReason
    BY DEF StreamInv
  <1> QED
    BY <1>1, StreamInvariant, PTL

=============================================================================
