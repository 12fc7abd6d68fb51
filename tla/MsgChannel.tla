------------------------------ MODULE MsgChannel ------------------------------
(***************************************************************************)
(* One direction of a connection on the Linux path: the send buffer of the *)
(* Client at one end, the stream of the system, the receive buffer of the  *)
(* Client at the other end and the loop that cuts messages out of it.      *)
(* Client.hpp, Buffer.hpp and DoMsg of Server.hpp and TcpClient.hpp.       *)
(*                                                                         *)
(* A buffer is a sequence of units.  A unit is the position it has among   *)
(* all the units ever accepted by SendData, which tells apart any two      *)
(* units and stands for what is in them; the first LenUnits units of a     *)
(* message are netmsg_DataHeader::dataLength.                              *)
(***************************************************************************)
EXTENDS Naturals, Sequences

CONSTANTS
  Lengths,     \* lengths of the messages the sender may send
  MaxMsgs,     \* bound: messages that are accepted
  SendSize,    \* capacity of Client::_sendBuff of the sender
  WireSize,    \* bound: units under way in the system
  RecvSize,    \* capacity of Client::_recvBuff of the receiver
  HeaderLen,   \* sizeof(netmsg_DataHeader)
  LenUnits,    \* units of dataLength
  Backward     \* may memcpy copy from the high addresses to the low ones?

ASSUME LengthAssumption ==
  /\ LenUnits \in Nat \ {0} /\ HeaderLen \in Nat /\ LenUnits <= HeaderLen
  /\ Lengths \subseteq Nat
  /\ \A n \in Lengths : HeaderLen <= n /\ n <= SendSize /\ n <= RecvSize
ASSUME BoundAssumption ==
  MaxMsgs \in Nat /\ SendSize \in Nat /\ RecvSize \in Nat /\ WireSize \in Nat \ {0}
ASSUME CopyAssumption == Backward \in BOOLEAN

VARIABLES
  ends,      \* the position of the last unit of every accepted message
  sendBuff,  \* Buffer::_pBuff up to _nLast, of the sender
  wire,      \* the stream of the system
  recvBuff,  \* Buffer::_pBuff up to _nLast, of the receiver
  pc,        \* the receiver: "read" (its socket) or "msg" (in DoMsg)
  handled    \* what OnNetMsg was given, message by message

vars == <<ends, sendBuff, wire, recvBuff, pc, handled>>

TypeOK ==
  /\ ends \in Seq(Nat)
  /\ sendBuff \in Seq(Nat) /\ Len(sendBuff) <= SendSize
  /\ wire \in Seq(Nat) /\ Len(wire) <= WireSize
  /\ recvBuff \in Seq(Nat) /\ Len(recvBuff) <= RecvSize
  /\ pc \in {"read", "msg"}
  /\ handled \in Seq(Seq(Nat))

Init ==
  /\ ends = <<>> /\ sendBuff = <<>> /\ wire = <<>> /\ recvBuff = <<>>
  /\ pc = "read" /\ handled = <<>>

\* The units from position i to position j.
Units(i, j) == [p \in 1..(j - i + 1) |-> i + p - 1]

EndOf(k) == IF k = 0 THEN 0 ELSE ends[k]
Total == EndOf(Len(ends))
MsgAt(k) == Units(EndOf(k - 1) + 1, EndOf(k))

-----------------------------------------------------------------------------
(* Buffer                                                                  *)

Fits(b, n, size) == Len(b) + n <= size

\* memcpy(_pBuff, _pBuff + n, _nLast - n), whose two ranges overlap when
\* less than half of the buffer is dropped: a copy that starts at the high
\* end takes from there what it has already overwritten.
MovedUp(b, n) == SubSeq(b, n + 1, Len(b))
MovedDown(b, n) ==
  LET rest == Len(b) - n IN
  [i \in 1..rest |-> b[CHOOSE j \in (rest + 1)..Len(b) : (j - i) % n = 0]]

Dropped_OneMore(b, n) == {SubSeq(b, n + 2, Len(b))}

\* What is left of a buffer when its first n units were dropped.
Dropped(b, n) == {MovedUp(b, n)} \cup (IF Backward THEN {MovedDown(b, n)} ELSE {})

\* What dataLength reads at the front of the receive buffer.  Units that
\* are not a header are some number.
DataLength ==
  LET starts == {k \in 1..Len(ends) :
                   \A i \in 1..LenUnits : recvBuff[i] = EndOf(k - 1) + i}
  IN IF starts # {} THEN {EndOf(k) - EndOf(k - 1) : k \in starts} ELSE 1..(RecvSize + 1)

FrontMsgs_Partial ==
  IF Len(recvBuff) < HeaderLen THEN {}
  ELSE {IF n <= Len(recvBuff) THEN n ELSE Len(recvBuff) : n \in DataLength}

\* Buffer::hasMsg: the lengths of the whole message it finds at the front.
FrontMsgs ==
  IF Len(recvBuff) < HeaderLen THEN {} ELSE {n \in DataLength : Len(recvBuff) >= n}

-----------------------------------------------------------------------------
\* Client::SendData accepts a message: Buffer::push.  One that does not fit
\* is refused and changes nothing.
SendData(n) ==
  /\ Len(ends) < MaxMsgs /\ Fits(sendBuff, n, SendSize)
  /\ sendBuff' = sendBuff \o Units(Total + 1, Total + n)
  /\ ends' = Append(ends, Total + n)
  /\ UNCHANGED <<wire, recvBuff, pc, handled>>

\* Buffer::write2socket: the system takes the first n units.
Write2Socket(n) ==
  /\ n <= Len(sendBuff) /\ Len(wire) + n <= WireSize
  /\ wire' = wire \o SubSeq(sendBuff, 1, n)
  /\ sendBuff' \in (IF n = Len(sendBuff) THEN {<<>>} ELSE Dropped(sendBuff, n))
  /\ UNCHANGED <<ends, recvBuff, pc, handled>>

\* Buffer::read4socket: n units of those that are there.
Read4Socket(n) ==
  /\ pc = "read"
  /\ n <= Len(wire) /\ Fits(recvBuff, n, RecvSize)
  /\ recvBuff' = recvBuff \o SubSeq(wire, 1, n)
  /\ wire' = SubSeq(wire, n + 1, Len(wire))
  /\ pc' = "msg"
  /\ UNCHANGED <<ends, sendBuff, handled>>

\* One turn of DoMsg: OnNetMsg with the message at the front, then
\* pop_front_msg.
HandleMsg ==
  /\ pc = "msg"
  /\ \E n \in FrontMsgs :
       /\ handled' = Append(handled, SubSeq(recvBuff, 1, n))
       /\ recvBuff' \in (IF n < Len(recvBuff) THEN Dropped(recvBuff, n) ELSE {<<>>})
  /\ UNCHANGED <<ends, sendBuff, wire, pc>>

\* There is no whole message, or what is at the front reads like none.
MsgsDone ==
  /\ pc = "msg"
  /\ Len(recvBuff) >= HeaderLen => ~(DataLength \subseteq FrontMsgs)
  /\ pc' = "read"
  /\ UNCHANGED <<ends, sendBuff, wire, recvBuff, handled>>

-----------------------------------------------------------------------------
Write == \E n \in 1..SendSize : Write2Socket(n)
Receive == (\E n \in 1..RecvSize : Read4Socket(n)) \/ HandleMsg \/ MsgsDone

Next == (\E n \in Lengths : SendData(n)) \/ Write \/ Receive

Spec == Init /\ [][Next]_vars

\* Both workers go on polling their sockets, and the system passes data on.
Fairness == WF_vars(Write) /\ WF_vars(Receive)
FairSpec == Spec /\ Fairness

-----------------------------------------------------------------------------
(* Properties                                                              *)

\* The three buffers hold, in order and without a gap, the units that were
\* accepted and not yet handled, whatever the sizes in which the system
\* takes and gives them; what was handled ends where a message ends.
InFlight == recvBuff \o wire \o sendBuff
StreamIntact == InFlight = Units(EndOf(Len(handled)) + 1, Total)

\* The messages that can be accepted, and those that were.
Sendable == {Units(i + 1, i + n) : i \in 0..(MaxMsgs * SendSize), n \in Lengths}
Accepted == [k \in 1..Len(ends) |-> MsgAt(k)]

Fifo == INSTANCE MsgFifo WITH Message <- Sendable, accepted <- Accepted

\* The messages are handled whole, one after the other, in the order in
\* which SendData accepted them, and all of them.
ImplementsFifo == Fifo!Spec

\* pop_front_msg removes the message at the front and leaves the rest.  Does
\* not hold when memcpy copies from the high addresses (Backward).
PopKeepsRest ==
  [][Len(handled') > Len(handled) =>
       recvBuff' = SubSeq(recvBuff, Len(handled'[Len(handled')]) + 1, Len(recvBuff))]_vars
=============================================================================
