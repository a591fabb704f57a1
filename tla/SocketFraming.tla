--------------------------- MODULE SocketFraming ---------------------------
(***************************************************************************)
(* How SocketBase (src/common/ipc/pipe/socket_base.cpp) puts messages on a *)
(* stream socket and takes them off again, one direction of one connection.*)
(* The stream carries cells, a cell standing for a run of bytes that the   *)
(* kernel never splits. A cell remembers which message it is a part of.    *)
(*                                                                         *)
(* The writer makes one ::send for the header and one for each payload     *)
(* fragment (route prefix, message body); the reader makes one ::recv for  *)
(* the header and one for the whole payload. They are two processes, so    *)
(* their calls interleave freely.                                          *)
(***************************************************************************)
EXTENDS Naturals, Sequences

CONSTANTS
  Msgs,        \* the messages to send: for each, where its fragments end, in
               \* cells from the start of the payload
  HeaderSize,  \* cells of a MsgHeader
  MsgMaxSize,  \* the largest size a reader accepts
  Capacity     \* cells the socket buffer holds

ASSUME FramingAssumption ==
  /\ Msgs \in Seq(Seq(Nat \ {0}))
  /\ \A m \in 1 .. Len(Msgs) :
       /\ Msgs[m] # <<>>
       /\ \A j \in 1 .. Len(Msgs[m]) : \A i \in 1 .. j - 1 : Msgs[m][i] < Msgs[m][j]
  /\ HeaderSize \in Nat \ {0}
  /\ MsgMaxSize \in Nat
  /\ Capacity \in Nat \ {0}

Ids == 1 .. Len(Msgs)

(* The total size of the first n fragments of a message. *)
SizeOf(m, n) == IF n = 0 THEN 0 ELSE Msgs[m][n]
TotalSize(m) == SizeOf(m, Len(Msgs[m]))

Cells(m, part, first, n) == [i \in 1 .. n |-> [msg |-> m, part |-> part, pos |-> first + i]]
Header(m) == Cells(m, "header", 0, HeaderSize)
Payload(m) == Cells(m, "payload", 0, TotalSize(m))
Cell == [msg : Ids, part : {"header", "payload"}, pos : Nat]

VARIABLES
  cur,        \* the message being sent, or the next one
  frag,       \* fragments of it to be written come after this many; 0: header
  wire,       \* cells in the socket buffer
  phase,      \* read_phase
  size,       \* read_msg_size
  delivered,  \* history: payloads handed to the action, in order
  closed,     \* the reader gave up on the connection
  cut         \* history: messages that are on the wire only in part

vars == <<cur, frag, wire, phase, size, delivered, closed, cut>>

Init ==
  /\ cur = 1
  /\ frag = 0
  /\ wire = <<>>
  /\ phase = "Header"
  /\ size = 0
  /\ delivered = <<>>
  /\ closed = FALSE
  /\ cut = {}

(* Every variable has its type, and the buffer is within its capacity. *)
TypeOK ==
  /\ cur \in 1 .. Len(Msgs) + 1
  /\ frag \in Nat
  /\ wire \in Seq(Cell) /\ Len(wire) <= Capacity
  /\ phase \in {"Header", "Payload"}
  /\ size \in Nat
  /\ delivered \in Seq(Seq(Cell))
  /\ closed \in BOOLEAN
  /\ cut \subseteq Ids

-----------------------------------------------------------------------------
Least(a, b) == IF a < b THEN a ELSE b

Free == Capacity - Len(wire)

(* What ::send(.., MSG_DONTWAIT) takes of the cells: what there is room for.*)
Accepted(cells) == SubSeq(cells, 1, Least(Len(cells), Free))

(* SocketBase::send, the header. With no room at all nothing was written   *)
(* and the error is returned; a short count is taken for success.          *)
SendHeader ==
  /\ ~closed
  /\ cur \in Ids
  /\ frag = 0
  /\ \/ /\ Free = 0
        /\ cur' = cur + 1
        /\ UNCHANGED <<frag, wire, cut>>
     \/ /\ Free > 0
        /\ wire' = wire \o Accepted(Header(cur))
        /\ cut' = IF Free < HeaderSize THEN cut \cup {cur} ELSE cut
        /\ frag' = 1
        /\ UNCHANGED cur
  /\ UNCHANGED <<phase, size, delivered, closed>>

(* SocketBase::send, one fragment. An error returns at once and leaves what*)
(* was written of the message on the wire.                                 *)
SendFragment ==
  /\ ~closed
  /\ cur \in Ids
  /\ frag \in 1 .. Len(Msgs[cur])
  /\ LET done  == SizeOf(cur, frag - 1)
         cells == Cells(cur, "payload", done, SizeOf(cur, frag) - done)
     IN  /\ wire' = wire \o Accepted(cells)
         /\ cut' = IF Free < Len(cells) THEN cut \cup {cur} ELSE cut
  /\ IF Free = 0 \/ frag = Len(Msgs[cur])
       THEN cur' = cur + 1 /\ frag' = 0
       ELSE frag' = frag + 1 /\ UNCHANGED cur
  /\ UNCHANGED <<phase, size, delivered, closed>>

-----------------------------------------------------------------------------
(* What ::recv of up to n cells returns. *)
Available(n) == SubSeq(wire, 1, Least(n, Len(wire)))
Rest(n) == SubSeq(wire, Least(n, Len(wire)) + 1, Len(wire))

(* A header as a reader accepts it: complete, with the signature, and with *)
(* a size it can take.                                                     *)
MutHeaderBelowMax(cells, m) == cells = Header(m) /\ TotalSize(m) < MsgMaxSize  \* mutant: off by one
ValidHeader(cells, m) == cells = Header(m) /\ TotalSize(m) <= MsgMaxSize

(* receiveMessage, phase Header. Reading nothing (EAGAIN) changes nothing. *)
ReceiveHeader ==
  /\ ~closed
  /\ phase = "Header"
  /\ wire # <<>>
  /\ wire' = Rest(HeaderSize)
  /\ \/ \E m \in Ids :
          /\ ValidHeader(Available(HeaderSize), m)
          /\ size' = TotalSize(m)
          /\ phase' = "Payload"
          /\ UNCHANGED closed
     \/ /\ \A m \in Ids : ~ValidHeader(Available(HeaderSize), m)
        /\ closed' = TRUE
        /\ UNCHANGED <<size, phase>>
  /\ UNCHANGED <<cur, frag, delivered, cut>>

(* Whether what one ::recv of the payload returned is taken. *)
MutPayloadTakenShort(cells, n) == TRUE  \* mutant: the count is not checked
PayloadTaken(cells, n) == Len(cells) = n

(* receiveMessage, phase Payload: anything but the whole payload in a      *)
(* single ::recv is an error, and the caller closes the connection.        *)
ReceivePayload ==
  /\ ~closed
  /\ phase = "Payload"
  /\ wire # <<>>
  /\ wire' = Rest(size)
  /\ \/ /\ PayloadTaken(Available(size), size)
        /\ delivered' = Append(delivered, Available(size))
        /\ phase' = "Header"
        /\ UNCHANGED closed
     \/ /\ ~PayloadTaken(Available(size), size)
        /\ closed' = TRUE
        /\ UNCHANGED <<phase, delivered>>
  /\ UNCHANGED <<cur, frag, size, cut>>

Next == SendHeader \/ SendFragment \/ ReceiveHeader \/ ReceivePayload

Spec == Init /\ [][Next]_vars

-----------------------------------------------------------------------------
(* Whether a delivered payload is exactly one that was sent. *)
Intact(p) == \E m \in Ids : p = Payload(m)

(* Whether every cell of a delivered payload was written before any message*)
(* was cut.                                                                *)
BeforeTheCut(p) == \A i \in 1 .. Len(p), m \in cut : p[i].msg < m

(* Until a message is cut by a full buffer, each payload handed up is one  *)
(* that was sent, whole, in the order of sending and not twice - however   *)
(* the calls of writer and reader interleave (SocketBase::receiveMessage). *)
IntactBeforeFirstCut ==
  \A i \in 1 .. Len(delivered) :
    BeforeTheCut(delivered[i]) =>
      /\ Intact(delivered[i])
      /\ i > 1 => delivered[i - 1][1].msg < delivered[i][1].msg

(* The reader gives up on a connection only for a reason: a message was    *)
(* cut, one is larger than it accepts, or its ::recv came while the writer *)
(* was between two fragments of the message and returned all there was -   *)
(* which is nothing wrong with the stream, but is treated like it.         *)
(* Messages of every size up to MsgMaxSize get through.                    *)
ClosedOnlyForAReason ==
  closed =>
    \/ cut # {}
    \/ frag > 0 /\ wire = <<>>
    \/ \E m \in Ids : TotalSize(m) > MsgMaxSize /\ (m < cur \/ (m = cur /\ frag > 0))

=============================================================================
