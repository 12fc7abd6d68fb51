--------------------------- MODULE MsgChannelProofs ---------------------------
(* Theorems about MsgChannel, for messages and buffers of every size and   *)
(* every way in which the system cuts and joins the stream; of memcpy they *)
(* need that it copies from the low addresses to the high ones.  And about *)
(* MsgStream, for streams of every size and all the values and arrays that *)
(* may be written to them.                                                 *)
EXTENDS MCMsgChannel, WellFoundedInduction, TLAPS

\* The units of s are those that follow position a.
Follows(s, a) == \A i \in 1..Len(s) : s[i] = a + i

\* Joining and cutting sequences of units that follow each other.
LEMMA FollowsConcat ==
  ASSUME NEW s \in Seq(Nat), NEW t \in Seq(Nat), NEW a \in Nat, Follows(s, a), Follows(t, a + Len(s))
  PROVE  s \o t \in Seq(Nat) /\ Len(s \o t) = Len(s) + Len(t) /\ Follows(s \o t, a)
<1>1. s \o t \in Seq(Nat) /\ Len(s \o t) = Len(s) + Len(t)
  OBVIOUS
<1>2. ASSUME NEW i \in 1..Len(s \o t) PROVE (s \o t)[i] = a + i
  <2>1. CASE i <= Len(s)
    BY <1>1, <2>1 DEF Follows
  <2>2. CASE i > Len(s)
    <3>1. (s \o t)[i] = t[i - Len(s)] /\ i - Len(s) \in 1..Len(t)
      BY <1>1, <2>2
    <3> QED BY <3>1 DEF Follows
  <2> QED BY <1>1, <2>1, <2>2
<1> QED BY <1>1, <1>2 DEF Follows

LEMMA FollowsPrefix ==
  ASSUME NEW s \in Seq(Nat), NEW a \in Nat, Follows(s, a), NEW n \in 0..Len(s)
  PROVE  SubSeq(s, 1, n) \in Seq(Nat) /\ Len(SubSeq(s, 1, n)) = n /\ Follows(SubSeq(s, 1, n), a)
<1>1. SubSeq(s, 1, n) \in Seq(Nat) /\ Len(SubSeq(s, 1, n)) = n
  OBVIOUS
<1>2. \A i \in 1..n : SubSeq(s, 1, n)[i] = s[i]
  OBVIOUS
<1> QED BY <1>1, <1>2 DEF Follows

LEMMA FollowsSuffix ==
  ASSUME NEW s \in Seq(Nat), NEW a \in Nat, Follows(s, a), NEW n \in 0..Len(s)
  PROVE  /\ SubSeq(s, n + 1, Len(s)) \in Seq(Nat) /\ Len(SubSeq(s, n + 1, Len(s))) = Len(s) - n
         /\ Follows(SubSeq(s, n + 1, Len(s)), a + n)
<1>1. SubSeq(s, n + 1, Len(s)) \in Seq(Nat) /\ Len(SubSeq(s, n + 1, Len(s))) = Len(s) - n
  OBVIOUS
<1>2. \A i \in 1..(Len(s) - n) : SubSeq(s, n + 1, Len(s))[i] = s[n + i]
  OBVIOUS
<1>3. \A i \in 1..(Len(s) - n) : n + i \in 1..Len(s)
  OBVIOUS
<1> QED BY <1>1, <1>2, <1>3 DEF Follows

\* Units(i, j) is such a sequence, and the only one.
LEMMA UnitsFollow ==
  ASSUME NEW a \in Nat, NEW n \in Nat
  PROVE  /\ Units(a + 1, a + n) \in Seq(Nat) /\ Len(Units(a + 1, a + n)) = n
         /\ Follows(Units(a + 1, a + n), a)
<1>1. (a + n) - (a + 1) + 1 = n
  OBVIOUS
<1>2. Units(a + 1, a + n) = [p \in 1..n |-> (a + 1) + p - 1]
  BY <1>1 DEF Units
<1> DEFINE u == [p \in 1..n |-> (a + 1) + p - 1]
<1>3. u \in Seq(Nat) /\ Len(u) = n
  OBVIOUS
<1>4. \A i \in 1..n : u[i] = a + i
  OBVIOUS
<1> QED BY <1>2, <1>3, <1>4 DEF Follows

LEMMA FollowsUnique ==
  ASSUME NEW s \in Seq(Nat), NEW t \in Seq(Nat), NEW a \in Nat,
         Follows(s, a), Follows(t, a), Len(s) = Len(t)
  PROVE  s = t
BY DEF Follows

-----------------------------------------------------------------------------
(* The invariant.  The messages end at increasing positions, and the three *)
(* buffers follow each other from the end of the last handled message to   *)
(* the last accepted unit.  Its parts are about constants e, r, w, s, so   *)
(* that what a step does to them is a lemma about sequences.               *)

\* EndOf and MsgAt of the messages that end at e.
End(e, k) == IF k = 0 THEN 0 ELSE e[k]
Msg(e, k) == Units(End(e, k - 1) + 1, End(e, k))

GoodEnds(e) ==
  /\ e \in Seq(Nat)
  /\ \A k \in 1..Len(e) : End(e, k) - End(e, k - 1) \in Lengths
  /\ \A j, k \in 0..Len(e) : j < k => End(e, j) < End(e, k)

\* From position f to position t there are the units of r, of w and of s.
InOrder(f, r, w, s, t) ==
  /\ r \in Seq(Nat) /\ w \in Seq(Nat) /\ s \in Seq(Nat)
  /\ Follows(r, f)
  /\ Follows(w, f + Len(r))
  /\ Follows(s, f + Len(r) + Len(w))
  /\ t = f + Len(r) + Len(w) + Len(s)

Front == End(ends, Len(handled))
Last == End(ends, Len(ends))

HandledOk ==
  /\ handled \in Seq(Seq(Nat)) /\ Len(handled) <= Len(ends)
  /\ \A k \in 1..Len(handled) : handled[k] = Msg(ends, k)

ChannelInv ==
  /\ GoodEnds(ends)
  /\ InOrder(Front, recvBuff, wire, sendBuff, Last)
  /\ HandledOk

LEMMA SameEnds == (\A k : EndOf(k) = End(ends, k) /\ MsgAt(k) = Msg(ends, k)) /\ Total = Last
BY DEF EndOf, End, MsgAt, Msg, Total, Last

\* Nothing was accepted yet.
LEMMA ChannelInit == Init => ChannelInv
<1> SUFFICES ASSUME Init PROVE ChannelInv
  OBVIOUS
<1>1. /\ ends = <<>> /\ sendBuff = <<>> /\ wire = <<>> /\ recvBuff = <<>> /\ handled = <<>>
  BY DEF Init
<1>2. <<>> \in Seq(Nat) /\ <<>> \in Seq(Seq(Nat)) /\ Len(<<>>) = 0
  OBVIOUS
<1>3. GoodEnds(<<>>)
  BY <1>2 DEF GoodEnds
<1>4. Front = 0 /\ Last = 0
  BY <1>1, <1>2 DEF Front, Last, End
<1>5. InOrder(0, <<>>, <<>>, <<>>, 0)
  BY <1>2 DEF InOrder, Follows
<1>6. HandledOk
  BY <1>1, <1>2 DEF HandledOk
<1> QED BY <1>1, <1>3, <1>4, <1>5, <1>6 DEF ChannelInv

\* Every position is a number.
LEMMA EndsAreNat ==
  ASSUME NEW e, GoodEnds(e), NEW k \in 0..Len(e)
  PROVE  End(e, k) \in Nat /\ Len(e) \in Nat
BY DEF GoodEnds, End

LEMMA FrontAndLast ==
  ASSUME ChannelInv
  PROVE  Len(handled) \in 0..Len(ends) /\ Len(ends) \in Nat /\ Front \in Nat /\ Last \in Nat
<1>1. Len(handled) \in 0..Len(ends) /\ Len(ends) \in 0..Len(ends) /\ GoodEnds(ends) /\ Len(ends) \in Nat
  BY DEF ChannelInv, HandledOk, GoodEnds
<1> QED BY <1>1, EndsAreNat DEF Front, Last

\* One more message of length n.
LEMMA EndsGrow ==
  ASSUME NEW e, GoodEnds(e), NEW n \in Lengths
  PROVE  LET f == Append(e, End(e, Len(e)) + n) IN
         /\ n \in Nat \ {0}
         /\ GoodEnds(f) /\ Len(f) = Len(e) + 1 /\ End(f, Len(f)) = End(e, Len(e)) + n
         /\ \A k \in 0..Len(e) : End(f, k) = End(e, k)
         /\ \A k \in 1..Len(e) : Msg(f, k) = Msg(e, k)
<1> DEFINE t == End(e, Len(e))
           f == Append(e, t + n)
<1>1. n \in Nat \ {0} /\ e \in Seq(Nat) /\ Len(e) \in Nat
  BY LengthAssumption DEF GoodEnds
<1>2. Len(e) \in 0..Len(e)
  BY <1>1
<1>3. t \in Nat
  BY <1>2, EndsAreNat
<1>4. /\ f \in Seq(Nat) /\ Len(f) = Len(e) + 1 /\ f[Len(e) + 1] = t + n
      /\ \A k \in 1..Len(e) : f[k] = e[k]
  BY <1>1, <1>3
<1> HIDE DEF f
<1>5. \A k \in 0..Len(e) : End(f, k) = End(e, k)
  BY <1>4 DEF End
<1>6. End(f, Len(e) + 1) = t + n
  BY <1>1, <1>4 DEF End
<1>7. ASSUME NEW k \in 1..Len(f) PROVE End(f, k) - End(f, k - 1) \in Lengths
  <2>1. CASE k \in 1..Len(e)
    <3>1. k \in 0..Len(e) /\ k - 1 \in 0..Len(e)
      BY <1>1, <2>1
    <3> QED BY <1>5, <2>1, <3>1 DEF GoodEnds
  <2>2. CASE k = Len(e) + 1
    <3>1. k - 1 = Len(e)
      BY <1>1, <2>2
    <3>2. End(f, k) = t + n /\ End(f, k - 1) = t
      BY <1>2, <1>5, <1>6, <2>2, <3>1
    <3>3. (t + n) - t = n
      BY <1>1, <1>3
    <3> QED BY <3>2, <3>3
  <2> QED BY <1>1, <1>4, <2>1, <2>2
<1>8. ASSUME NEW j \in 0..Len(f), NEW k \in 0..Len(f), j < k PROVE End(f, j) < End(f, k)
  <2>1. j \in 0..Len(e)
    BY <1>1, <1>4, <1>8
  <2>2. CASE k \in 0..Len(e)
    BY <1>5, <1>8, <2>1, <2>2 DEF GoodEnds
  <2>3. CASE k = Len(e) + 1
    <3>1. j = Len(e) \/ j < Len(e)
      BY <1>1, <2>1
    <3>2. j < Len(e) => End(e, j) < t
      BY <1>2, <2>1 DEF GoodEnds
    <3>3. End(e, j) \in Nat /\ End(f, j) = End(e, j) /\ End(f, k) = t + n
      BY <1>5, <1>6, <2>1, <2>3, EndsAreNat
    <3> QED BY <1>1, <1>3, <3>1, <3>2, <3>3
  <2> QED BY <1>1, <1>4, <2>2, <2>3
<1>9. GoodEnds(f)
  BY <1>4, <1>7, <1>8 DEF GoodEnds
<1>10. ASSUME NEW k \in 1..Len(e) PROVE Msg(f, k) = Msg(e, k)
  <2>1. k \in 0..Len(e) /\ k - 1 \in 0..Len(e)
    BY <1>1
  <2> QED BY <1>5, <2>1 DEF Msg
<1> QED BY <1>1, <1>4, <1>5, <1>6, <1>9, <1>10 DEF f

\* hasMsg finds at the front the length of the oldest message that was not
\* handled, and no other number.
LEMMA FrontIsNext ==
  ASSUME ChannelInv, NEW n \in FrontMsgs
  PROVE  /\ Len(handled) < Len(ends)
         /\ n = End(ends, Len(handled) + 1) - Front /\ n \in Lengths /\ n <= Len(recvBuff)
<1> DEFINE h == Len(handled)
<1>1. h \in 0..Len(ends) /\ Len(ends) \in Nat /\ Front \in Nat /\ Last \in Nat
  BY FrontAndLast
<1>2. /\ recvBuff \in Seq(Nat) /\ wire \in Seq(Nat) /\ sendBuff \in Seq(Nat)
      /\ Follows(recvBuff, Front) /\ Last = Front + Len(recvBuff) + Len(wire) + Len(sendBuff)
  BY DEF ChannelInv, InOrder
<1>3. n \in DataLength /\ Len(recvBuff) >= n /\ Len(recvBuff) >= HeaderLen
  BY <1>2, LengthAssumption DEF FrontMsgs
<1>4. Len(recvBuff) \in Nat /\ LenUnits \in 1..Len(recvBuff)
  BY <1>2, <1>3, LengthAssumption
<1>5. \A i \in 1..LenUnits : recvBuff[i] = Front + i
  BY <1>2, <1>4 DEF Follows
<1>6. Last # Front
  BY <1>1, <1>2, <1>4
<1>7. h < Len(ends)
  BY <1>1, <1>6 DEF Last, Front
<1> DEFINE starts == {k \in 1..Len(ends) : \A i \in 1..LenUnits : recvBuff[i] = EndOf(k - 1) + i}
<1>8. h + 1 \in starts
  <2>1. h + 1 \in 1..Len(ends) /\ (h + 1) - 1 = h
    BY <1>1, <1>7
  <2>2. EndOf(h) = Front
    BY SameEnds DEF Front
  <2> QED BY <1>5, <2>1, <2>2
<1>9. ASSUME NEW k \in starts PROVE k = h + 1
  <2>1. k \in 1..Len(ends) /\ k - 1 \in 0..Len(ends)
    BY <1>1
  <2>2. recvBuff[1] = EndOf(k - 1) + 1 /\ recvBuff[1] = Front + 1
    BY <1>4, <1>5
  <2>3. GoodEnds(ends)
    BY DEF ChannelInv
  <2>4. End(ends, k - 1) \in Nat /\ EndOf(k - 1) = End(ends, k - 1)
    BY <2>1, <2>3, EndsAreNat, SameEnds
  <2>5. End(ends, k - 1) = End(ends, h) /\ End(ends, h) \in Nat
    <3>1. \A a, b \in Nat : a + 1 = b + 1 => a = b
      OBVIOUS
    <3> QED BY <1>1, <2>2, <2>4, <3>1 DEF Front
  <2>6. \A i, j \in 0..Len(ends) : i < j => End(ends, i) < End(ends, j)
    BY <2>3 DEF GoodEnds
  <2>7. ~(k - 1 < h) /\ ~(h < k - 1)
    <3>1. ~(End(ends, h) < End(ends, h))
      BY <2>5
    <3> HIDE DEF h
    <3> QED BY <1>1, <2>1, <2>5, <2>6, <3>1
  <2> QED BY <1>1, <2>1, <2>7
<1>10. DataLength = {EndOf(k) - EndOf(k - 1) : k \in starts}
  BY <1>8 DEF DataLength
<1> HIDE DEF starts
<1>11. PICK k \in starts : n = EndOf(k) - EndOf(k - 1)
  BY <1>3, <1>10
<1>12. k = h + 1 /\ h + 1 \in 1..Len(ends) /\ (h + 1) - 1 = h
  BY <1>1, <1>7, <1>9, <1>11
<1>13. n = End(ends, h + 1) - End(ends, h)
  BY <1>11, <1>12, SameEnds
<1>14. n \in Lengths
  BY <1>12, <1>13 DEF ChannelInv, GoodEnds
<1> QED BY <1>3, <1>7, <1>13, <1>14 DEF Front

-----------------------------------------------------------------------------
(* What the steps do to the stream.                                        *)

\* A message is put behind all that is under way.
LEMMA StreamGrows ==
  ASSUME NEW f \in Nat, NEW r, NEW w, NEW s, NEW t, InOrder(f, r, w, s, t), NEW n \in Nat
  PROVE  InOrder(f, r, w, s \o Units(t + 1, t + n), t + n)
<1> DEFINE a == f + Len(r) + Len(w)
           u == Units(t + 1, t + n)
<1>1. /\ r \in Seq(Nat) /\ w \in Seq(Nat) /\ s \in Seq(Nat)
      /\ Follows(s, a) /\ t = a + Len(s) /\ a \in Nat
  BY DEF InOrder
<1>2. u \in Seq(Nat) /\ Len(u) = n /\ Follows(u, a + Len(s))
  <2>1. t \in Nat
    BY <1>1
  <2> QED BY <1>1, <2>1, UnitsFollow
<1> HIDE DEF u
<1>3. s \o u \in Seq(Nat) /\ Len(s \o u) = Len(s) + n /\ Follows(s \o u, a)
  <2> HIDE DEF a
  <2> QED BY <1>1, <1>2, FollowsConcat
<1>4. t + n = a + Len(s \o u)
  BY <1>1, <1>3
<1>5. InOrder(f, r, w, s \o u, t + n)
  BY <1>1, <1>3, <1>4 DEF InOrder
<1> QED BY <1>5 DEF u

\* The front of what comes after goes to the end of what comes before.
LEMMA StreamMoves ==
  ASSUME NEW x \in Seq(Nat), NEW y \in Seq(Nat), NEW a \in Nat,
         Follows(x, a), Follows(y, a + Len(x)), NEW n \in 0..Len(y)
  PROVE  /\ x \o SubSeq(y, 1, n) \in Seq(Nat) /\ SubSeq(y, n + 1, Len(y)) \in Seq(Nat)
         /\ Len(x \o SubSeq(y, 1, n)) = Len(x) + n /\ Len(SubSeq(y, n + 1, Len(y))) = Len(y) - n
         /\ Follows(x \o SubSeq(y, 1, n), a) /\ Follows(SubSeq(y, n + 1, Len(y)), a + Len(x) + n)
<1> DEFINE p == SubSeq(y, 1, n)
           q == SubSeq(y, n + 1, Len(y))
<1>1. a + Len(x) \in Nat
  OBVIOUS
<1>2. p \in Seq(Nat) /\ Len(p) = n /\ Follows(p, a + Len(x))
  BY <1>1, FollowsPrefix
<1>3. q \in Seq(Nat) /\ Len(q) = Len(y) - n /\ Follows(q, a + Len(x) + n)
  BY <1>1, FollowsSuffix
<1>4. x \o p \in Seq(Nat) /\ Len(x \o p) = Len(x) + Len(p) /\ Follows(x \o p, a)
  <2> HIDE DEF p
  <2> QED BY <1>2, FollowsConcat
<1> QED BY <1>2, <1>3, <1>4

LEMMA StreamWritten ==
  ASSUME NEW f \in Nat, NEW r, NEW w, NEW s, NEW t, InOrder(f, r, w, s, t), NEW n \in 0..Len(s)
  PROVE  InOrder(f, r, w \o SubSeq(s, 1, n), SubSeq(s, n + 1, Len(s)), t)
<1> DEFINE a == f + Len(r)
           v == w \o SubSeq(s, 1, n)
           q == SubSeq(s, n + 1, Len(s))
<1>1. /\ r \in Seq(Nat) /\ w \in Seq(Nat) /\ s \in Seq(Nat) /\ a \in Nat /\ Follows(r, f)
      /\ Follows(w, a) /\ Follows(s, a + Len(w)) /\ t = a + Len(w) + Len(s)
  BY DEF InOrder
<1>2. /\ v \in Seq(Nat) /\ q \in Seq(Nat) /\ Len(v) = Len(w) + n /\ Len(q) = Len(s) - n
      /\ Follows(v, a) /\ Follows(q, a + Len(w) + n)
  <2> HIDE DEF a
  <2> QED BY <1>1, StreamMoves
<1> HIDE DEF v, q
<1>3. a + Len(w) + n = f + Len(r) + Len(v) /\ t = f + Len(r) + Len(v) + Len(q)
  BY <1>1, <1>2
<1>4. InOrder(f, r, v, q, t)
  BY <1>1, <1>2, <1>3 DEF InOrder
<1> QED BY <1>4 DEF v, q

LEMMA StreamRead ==
  ASSUME NEW f \in Nat, NEW r, NEW w, NEW s, NEW t, InOrder(f, r, w, s, t), NEW n \in 0..Len(w)
  PROVE  InOrder(f, r \o SubSeq(w, 1, n), SubSeq(w, n + 1, Len(w)), s, t)
<1> DEFINE v == r \o SubSeq(w, 1, n)
           q == SubSeq(w, n + 1, Len(w))
<1>1. /\ r \in Seq(Nat) /\ w \in Seq(Nat) /\ s \in Seq(Nat) /\ Follows(r, f)
      /\ Follows(w, f + Len(r)) /\ Follows(s, f + Len(r) + Len(w))
      /\ t = f + Len(r) + Len(w) + Len(s)
  BY DEF InOrder
<1>2. /\ v \in Seq(Nat) /\ q \in Seq(Nat) /\ Len(v) = Len(r) + n /\ Len(q) = Len(w) - n
      /\ Follows(v, f) /\ Follows(q, f + Len(r) + n)
  BY <1>1, StreamMoves
<1> HIDE DEF v, q
<1>3. /\ f + Len(r) + n = f + Len(v) /\ f + Len(r) + Len(w) = f + Len(v) + Len(q)
      /\ t = f + Len(v) + Len(q) + Len(s)
  BY <1>1, <1>2
<1>4. InOrder(f, v, q, s, t)
  BY <1>1, <1>2, <1>3 DEF InOrder
<1> QED BY <1>4 DEF v, q

\* The units of the front message are handled and leave.
LEMMA StreamPopped ==
  ASSUME NEW f \in Nat, NEW r, NEW w, NEW s, NEW t, InOrder(f, r, w, s, t), NEW n \in 0..Len(r)
  PROVE  /\ SubSeq(r, 1, n) = Units(f + 1, f + n) /\ SubSeq(r, 1, n) \in Seq(Nat)
         /\ InOrder(f + n, SubSeq(r, n + 1, Len(r)), w, s, t)
<1> DEFINE q == SubSeq(r, n + 1, Len(r))
<1>1. /\ r \in Seq(Nat) /\ w \in Seq(Nat) /\ s \in Seq(Nat) /\ Follows(r, f)
      /\ Follows(w, f + Len(r)) /\ Follows(s, f + Len(r) + Len(w))
      /\ t = f + Len(r) + Len(w) + Len(s) /\ n \in Nat
  BY DEF InOrder
<1>2. q \in Seq(Nat) /\ Len(q) = Len(r) - n /\ Follows(q, f + n)
  BY <1>1, FollowsSuffix
<1>3. SubSeq(r, 1, n) = Units(f + 1, f + n) /\ SubSeq(r, 1, n) \in Seq(Nat)
  <2>1. /\ SubSeq(r, 1, n) \in Seq(Nat) /\ Len(SubSeq(r, 1, n)) = n
        /\ Follows(SubSeq(r, 1, n), f)
    BY <1>1, FollowsPrefix
  <2>2. /\ Units(f + 1, f + n) \in Seq(Nat) /\ Len(Units(f + 1, f + n)) = n
        /\ Follows(Units(f + 1, f + n), f)
    BY <1>1, UnitsFollow
  <2> QED BY <2>1, <2>2, FollowsUnique
<1> HIDE DEF q
<1>4. /\ f + Len(r) = (f + n) + Len(q) /\ f + Len(r) + Len(w) = (f + n) + Len(q) + Len(w)
      /\ t = (f + n) + Len(q) + Len(w) + Len(s)
  BY <1>1, <1>2
<1>5. InOrder(f + n, q, w, s, t)
  BY <1>1, <1>2, <1>4 DEF InOrder
<1> QED BY <1>3, <1>5 DEF q

-----------------------------------------------------------------------------
(* The steps of the specification.                                         *)

LEMMA SendStep ==
  ASSUME ChannelInv, NEW n \in Lengths, SendData(n)
  PROVE  /\ ChannelInv' /\ handled' = handled
         /\ Len(ends') = Len(ends) + 1 /\ Last' = Last + n
         /\ \A k \in 1..Len(ends) : Msg(ends', k) = Msg(ends, k)
         /\ Msg(ends', Len(ends) + 1) = Units(Last + 1, Last + n)
<1>1. /\ sendBuff' = sendBuff \o Units(Last + 1, Last + n) /\ ends' = Append(ends, Last + n)
      /\ wire' = wire /\ recvBuff' = recvBuff /\ handled' = handled
  BY SameEnds DEF SendData
<1>2. Len(handled) \in 0..Len(ends) /\ Len(ends) \in Nat /\ Front \in Nat /\ Last \in Nat
  BY FrontAndLast
<1>3. /\ n \in Nat \ {0} /\ GoodEnds(ends') /\ Len(ends') = Len(ends) + 1
      /\ End(ends', Len(ends')) = Last + n
      /\ \A k \in 0..Len(ends) : End(ends', k) = End(ends, k)
      /\ \A k \in 1..Len(ends) : Msg(ends', k) = Msg(ends, k)
  <2>1. GoodEnds(ends) /\ ends' = Append(ends, End(ends, Len(ends)) + n)
    BY <1>1 DEF ChannelInv, Last
  <2>2. /\ n \in Nat \ {0} /\ GoodEnds(ends') /\ Len(ends') = Len(ends) + 1
        /\ End(ends', Len(ends')) = End(ends, Len(ends)) + n
        /\ \A k \in 0..Len(ends) : End(ends', k) = End(ends, k)
        /\ \A k \in 1..Len(ends) : Msg(ends', k) = Msg(ends, k)
    BY <2>1, EndsGrow
  <2> QED BY <2>2 DEF Last
<1>4. Front' = Front /\ Last' = Last + n
  BY <1>1, <1>2, <1>3 DEF Front, Last
<1>5. InOrder(Front, recvBuff, wire, sendBuff', Last + n)
  <2>1. InOrder(Front, recvBuff, wire, sendBuff, Last) /\ n \in Nat
    BY <1>3 DEF ChannelInv
  <2> QED BY <1>1, <1>2, <2>1, StreamGrows
<1>6. HandledOk'
  <2>1. \A k \in 1..Len(handled) : k \in 1..Len(ends)
    BY <1>2
  <2>2. Len(handled) <= Len(ends')
    BY <1>2, <1>3
  <2> QED BY <1>1, <1>3, <2>1, <2>2 DEF ChannelInv, HandledOk
<1>7. Msg(ends', Len(ends) + 1) = Units(Last + 1, Last + n)
  <2>1. (Len(ends) + 1) - 1 = Len(ends) /\ Len(ends) \in 0..Len(ends)
    BY <1>2
  <2> QED BY <1>3, <2>1 DEF Msg, Last
<1> QED BY <1>1, <1>3, <1>4, <1>5, <1>6, <1>7 DEF ChannelInv

\* What is dropped from the front of a buffer.
LEMMA WhatIsLeft ==
  ASSUME ~Backward, NEW b \in Seq(Nat), NEW n \in 0..Len(b), NEW c,
         c \in (IF n = Len(b) THEN {<<>>} ELSE Dropped(b, n))
  PROVE  c = SubSeq(b, n + 1, Len(b))
<1>1. CASE n = Len(b)
  <2>1. c = <<>> /\ SubSeq(b, n + 1, Len(b)) = <<>>
    BY <1>1
  <2> QED BY <2>1
<1>2. CASE n # Len(b)
  BY <1>2 DEF Dropped, MovedUp
<1> QED BY <1>1, <1>2

LEMMA WriteStep ==
  ASSUME ~Backward, ChannelInv, NEW n \in 1..SendSize, Write2Socket(n)
  PROVE  ChannelInv'
<1>1. /\ wire' = wire \o SubSeq(sendBuff, 1, n) /\ n <= Len(sendBuff)
      /\ sendBuff' \in (IF n = Len(sendBuff) THEN {<<>>} ELSE Dropped(sendBuff, n))
      /\ ends' = ends /\ recvBuff' = recvBuff /\ handled' = handled
  BY DEF Write2Socket
<1>2. sendBuff \in Seq(Nat) /\ n \in 0..Len(sendBuff)
  BY <1>1, BoundAssumption DEF ChannelInv, InOrder
<1>3. sendBuff' = SubSeq(sendBuff, n + 1, Len(sendBuff))
  BY <1>1, <1>2, WhatIsLeft
<1>4. InOrder(Front, recvBuff, wire', sendBuff', Last)
  <2>1. Front \in Nat /\ InOrder(Front, recvBuff, wire, sendBuff, Last)
    BY FrontAndLast DEF ChannelInv
  <2> QED BY <1>1, <1>2, <1>3, <2>1, StreamWritten
<1>5. Front' = Front /\ Last' = Last
  BY <1>1 DEF Front, Last
<1>6. HandledOk'
  BY <1>1 DEF ChannelInv, HandledOk
<1> QED BY <1>1, <1>4, <1>5, <1>6 DEF ChannelInv

LEMMA ReadStep ==
  ASSUME ChannelInv, NEW n \in 1..RecvSize, Read4Socket(n)
  PROVE  ChannelInv'
<1>1. /\ recvBuff' = recvBuff \o SubSeq(wire, 1, n) /\ n <= Len(wire)
      /\ wire' = SubSeq(wire, n + 1, Len(wire))
      /\ ends' = ends /\ sendBuff' = sendBuff /\ handled' = handled
  BY DEF Read4Socket
<1>2. wire \in Seq(Nat) /\ n \in 0..Len(wire)
  BY <1>1, BoundAssumption DEF ChannelInv, InOrder
<1>3. InOrder(Front, recvBuff', wire', sendBuff, Last)
  <2>1. Front \in Nat /\ InOrder(Front, recvBuff, wire, sendBuff, Last)
    BY FrontAndLast DEF ChannelInv
  <2> QED BY <1>1, <1>2, <2>1, StreamRead
<1>4. Front' = Front /\ Last' = Last
  BY <1>1 DEF Front, Last
<1>5. HandledOk'
  BY <1>1 DEF ChannelInv, HandledOk
<1> QED BY <1>1, <1>3, <1>4, <1>5 DEF ChannelInv

\* OnNetMsg is given the oldest message that it was not given yet.
LEMMA HandleStep ==
  ASSUME ~Backward, ChannelInv, HandleMsg
  PROVE  /\ ChannelInv' /\ ends' = ends /\ Len(handled) < Len(ends)
         /\ handled' = Append(handled, Msg(ends, Len(handled) + 1))
<1>1. PICK n \in FrontMsgs :
        /\ handled' = Append(handled, SubSeq(recvBuff, 1, n))
        /\ recvBuff' \in (IF n < Len(recvBuff) THEN Dropped(recvBuff, n) ELSE {<<>>})
  BY DEF HandleMsg
<1>2. ends' = ends /\ sendBuff' = sendBuff /\ wire' = wire
  BY DEF HandleMsg
<1> DEFINE h == Len(handled)
<1>3. /\ h < Len(ends) /\ n = End(ends, h + 1) - Front
      /\ n \in Lengths /\ n <= Len(recvBuff)
  BY FrontIsNext
<1>4. /\ h \in Nat /\ h \in 0..Len(ends) /\ Len(ends) \in Nat /\ Front \in Nat
      /\ h + 1 \in 0..Len(ends) /\ (h + 1) - 1 = h
  BY <1>3, FrontAndLast
<1>5. recvBuff \in Seq(Nat) /\ n \in 0..Len(recvBuff)
  BY <1>3, LengthAssumption DEF ChannelInv, InOrder
<1>6. Front + n = End(ends, h + 1)
  <2>1. End(ends, h + 1) \in Nat
    BY <1>4, EndsAreNat DEF ChannelInv
  <2> QED BY <1>3, <1>4, <2>1
<1>7. recvBuff' = SubSeq(recvBuff, n + 1, Len(recvBuff))
  <2>1. recvBuff' \in (IF n = Len(recvBuff) THEN {<<>>} ELSE Dropped(recvBuff, n))
    BY <1>1, <1>5
  <2> QED BY <1>5, <2>1, WhatIsLeft
<1>8. /\ SubSeq(recvBuff, 1, n) = Units(Front + 1, Front + n)
      /\ SubSeq(recvBuff, 1, n) \in Seq(Nat)
      /\ InOrder(Front + n, recvBuff', wire, sendBuff, Last)
  <2>1. InOrder(Front, recvBuff, wire, sendBuff, Last)
    BY DEF ChannelInv
  <2> QED BY <1>4, <1>5, <1>7, <2>1, StreamPopped
<1>9. SubSeq(recvBuff, 1, n) = Msg(ends, h + 1)
  BY <1>4, <1>6, <1>8 DEF Msg, Front
<1>10. handled \in Seq(Seq(Nat)) /\ \A k \in 1..h : handled[k] = Msg(ends, k)
  BY DEF ChannelInv, HandledOk
<1>11. /\ handled' \in Seq(Seq(Nat)) /\ Len(handled') = h + 1
       /\ handled' = Append(handled, Msg(ends, h + 1))
       /\ \A k \in 1..(h + 1) : handled'[k] = Msg(ends, k)
  <2> HIDE DEF h
  <2>1. h = Len(handled)
    BY DEF h
  <2> DEFINE m == Msg(ends, h + 1)
  <2>2. m \in Seq(Nat) /\ handled' = Append(handled, m)
    BY <1>1, <1>8, <1>9
  <2> HIDE DEF m
  <2>3. /\ handled' \in Seq(Seq(Nat)) /\ Len(handled') = h + 1 /\ handled'[h + 1] = m
        /\ \A k \in 1..h : handled'[k] = handled[k]
    BY <1>10, <2>1, <2>2
  <2>4. \A k \in 1..(h + 1) : k \in 1..h \/ k = h + 1
    BY <1>4
  <2> QED BY <1>10, <2>2, <2>3, <2>4 DEF m
<1>12. Front' = Front + n /\ Last' = Last
  BY <1>2, <1>6, <1>11 DEF Front, Last
<1>13. HandledOk'
  BY <1>2, <1>3, <1>4, <1>11 DEF HandledOk
<1> QED BY <1>2, <1>3, <1>8, <1>11, <1>12, <1>13 DEF ChannelInv

LEMMA ChannelStep ==
  ASSUME ~Backward, ChannelInv, [Next]_vars
  PROVE  ChannelInv'
<1>1. ASSUME NEW n \in Lengths, SendData(n) PROVE ChannelInv'
  BY <1>1, SendStep
<1>2. ASSUME NEW n \in 1..SendSize, Write2Socket(n) PROVE ChannelInv'
  BY <1>2, WriteStep
<1>3. ASSUME NEW n \in 1..RecvSize, Read4Socket(n) PROVE ChannelInv'
  BY <1>3, ReadStep
<1>4. CASE HandleMsg
  BY <1>4, HandleStep
<1>5. CASE MsgsDone \/ UNCHANGED vars
  <2>1. /\ ends' = ends /\ sendBuff' = sendBuff /\ wire' = wire
        /\ recvBuff' = recvBuff /\ handled' = handled
    BY <1>5 DEF MsgsDone, vars
  <2>2. Front' = Front /\ Last' = Last /\ HandledOk'
    BY <2>1 DEF Front, Last, HandledOk, ChannelInv
  <2> QED BY <2>1, <2>2 DEF ChannelInv
<1> QED BY <1>1, <1>2, <1>3, <1>4, <1>5 DEF Next, Write, Receive

LEMMA ChannelInvHolds == ASSUME ~Backward PROVE Spec => []ChannelInv
<1>1. ChannelInv /\ [Next]_vars => ChannelInv'
  BY ChannelStep
<1> QED BY <1>1, ChannelInit, PTL DEF Spec

-----------------------------------------------------------------------------
\* What lies in the two buffers and in the system is, in order and without
\* a gap, what SendData accepted and OnNetMsg was not given, for messages,
\* buffers and cuts of every size (Client.hpp, Buffer.hpp, Server.hpp DoMsg).
THEOREM StreamIntactHolds == ASSUME ~Backward PROVE Spec => []StreamIntact
<1>1. ASSUME ChannelInv PROVE StreamIntact
  <2> DEFINE b == recvBuff \o wire
             a == b \o sendBuff
             n == Len(recvBuff) + Len(wire) + Len(sendBuff)
  <2>1. /\ Front \in Nat /\ recvBuff \in Seq(Nat) /\ wire \in Seq(Nat) /\ sendBuff \in Seq(Nat)
        /\ Follows(recvBuff, Front) /\ Follows(wire, Front + Len(recvBuff))
        /\ Follows(sendBuff, Front + Len(recvBuff) + Len(wire)) /\ Last = Front + n /\ n \in Nat
    BY <1>1, FrontAndLast DEF ChannelInv, InOrder
  <2>2. b \in Seq(Nat) /\ Len(b) = Len(recvBuff) + Len(wire) /\ Follows(b, Front)
    BY <2>1, FollowsConcat
  <2>3. Follows(sendBuff, Front + Len(b))
    BY <2>1, <2>2
  <2>4. a \in Seq(Nat) /\ Len(a) = n /\ Follows(a, Front)
    <3> HIDE DEF b
    <3>1. a \in Seq(Nat) /\ Len(a) = Len(b) + Len(sendBuff) /\ Follows(a, Front)
      BY <2>1, <2>2, <2>3, FollowsConcat
    <3> QED BY <2>1, <2>2, <3>1
  <2>5. /\ Units(Front + 1, Front + n) \in Seq(Nat) /\ Len(Units(Front + 1, Front + n)) = n
        /\ Follows(Units(Front + 1, Front + n), Front)
    <3> HIDE DEF n
    <3> QED BY <2>1, UnitsFollow
  <2>6. a = Units(Front + 1, Last)
    <3> HIDE DEF a, n
    <3> QED BY <2>1, <2>4, <2>5, FollowsUnique
  <2>7. InFlight = a
    BY <2>1 DEF InFlight
  <2> QED BY <2>6, <2>7, SameEnds DEF StreamIntact, Front
<1> QED BY <1>1, ChannelInvHolds, PTL

-----------------------------------------------------------------------------
(* The refinement.                                                         *)

\* The messages that are accepted are those that MsgFifo is given.
Capped == Len(ends) <= MaxMsgs /\ Last <= Len(ends) * SendSize

LEMMA CappedInit == Init => Capped
<1> SUFFICES ASSUME Init PROVE Capped
  OBVIOUS
<1>1. Len(ends) = 0 /\ Last = 0
  BY DEF Init, Last, End
<1> QED BY <1>1, BoundAssumption DEF Capped

LEMMA CappedStep ==
  ASSUME ChannelInv, Capped, [Next]_vars
  PROVE  Capped'
<1>1. ASSUME NEW n \in Lengths, SendData(n) PROVE Capped'
  <2>1. /\ Len(ends') = Len(ends) + 1 /\ Last' = Last + n /\ Len(ends) < MaxMsgs
        /\ Len(ends) \in Nat /\ Last \in Nat /\ n \in Nat /\ n <= SendSize /\ SendSize \in Nat
        /\ MaxMsgs \in Nat
    BY <1>1, SendStep, FrontAndLast, LengthAssumption, BoundAssumption DEF SendData
  <2>2. (Len(ends) + 1) * SendSize = Len(ends) * SendSize + SendSize /\ Len(ends) * SendSize \in Nat
    <3>1. \A a, b \in Nat : (a + 1) * b = a * b + b /\ a * b \in Nat
      OBVIOUS
    <3> QED BY <2>1, <3>1
  <2>3. Last + n <= (Len(ends) + 1) * SendSize
    BY <2>1, <2>2 DEF Capped
  <2> QED BY <2>1, <2>3 DEF Capped
<1>2. CASE Write \/ Receive \/ UNCHANGED vars
  <2>1. ends' = ends
    BY <1>2 DEF Write, Receive, Write2Socket, Read4Socket, HandleMsg, MsgsDone, vars
  <2> QED BY <2>1 DEF Capped, Last
<1> QED BY <1>1, <1>2 DEF Next

\* A message that is accepted becomes the last of them, and is one that can be.
LEMMA AcceptedGrows ==
  ASSUME ChannelInv, Capped, NEW n \in Lengths, SendData(n)
  PROVE  \E m \in Sendable : Accepted' = Append(Accepted, m) /\ handled' = handled
<1> DEFINE m == Units(Last + 1, Last + n)
<1>1. /\ Len(ends') = Len(ends) + 1 /\ Len(ends) \in Nat /\ Last \in Nat /\ handled' = handled
      /\ \A k \in 1..Len(ends) : Msg(ends', k) = Msg(ends, k)
      /\ Msg(ends', Len(ends) + 1) = m
  BY SendStep, FrontAndLast
<1>2. Last \in 0..(MaxMsgs * SendSize)
  <2>1. Len(ends) <= MaxMsgs /\ Last <= Len(ends) * SendSize /\ MaxMsgs \in Nat /\ SendSize \in Nat
    BY BoundAssumption DEF Capped
  <2>2. \A a, b, c \in Nat : a <= b => a * c <= b * c /\ a * c \in Nat /\ b * c \in Nat
    OBVIOUS
  <2>3. /\ Len(ends) * SendSize <= MaxMsgs * SendSize
        /\ Len(ends) * SendSize \in Nat /\ MaxMsgs * SendSize \in Nat
    BY <1>1, <2>1, <2>2
  <2> QED BY <1>1, <2>1, <2>3
<1>3. m \in Sendable
  BY <1>2 DEF Sendable
<1> HIDE DEF m
<1>4. Accepted = [k \in 1..Len(ends) |-> Msg(ends, k)]
  BY SameEnds DEF Accepted
<1>5. Accepted' = [k \in 1..Len(ends') |-> Msg(ends', k)]
  BY DEF Accepted, MsgAt, EndOf, Msg, End
<1>6. Accepted' = Append(Accepted, m)
  <2>1. Len(Accepted) = Len(ends)
    BY <1>1, <1>4
  <2>2. Append(Accepted, m) = [k \in 1..(Len(ends) + 1) |-> IF k <= Len(ends) THEN Accepted[k] ELSE m]
    BY <1>1, <1>4, <2>1
  <2>3. ASSUME NEW k \in 1..(Len(ends) + 1)
        PROVE  Msg(ends', k) = (IF k <= Len(ends) THEN Accepted[k] ELSE m)
    <3>1. k \in 1..Len(ends) \/ (k = Len(ends) + 1 /\ ~(k <= Len(ends)))
      BY <1>1
    <3>2. CASE k \in 1..Len(ends)
      BY <1>1, <1>4, <3>2
    <3> QED BY <1>1, <3>1, <3>2
  <2> QED BY <1>1, <1>5, <2>2, <2>3
<1> QED BY <1>1, <1>3, <1>6

\* The buffers, the system between them and the loop of DoMsg implement a
\* queue of whole messages: what is handled is handled in the order in which
\* SendData accepted it, each message once and whole.
THEOREM FifoSafety == ASSUME ~Backward PROVE Spec => Fifo!Safety
<1>1. Init => Fifo!Init
  <2> SUFFICES ASSUME Init PROVE Fifo!Init
    OBVIOUS
  <2>1. Len(ends) = 0 /\ handled = <<>>
    BY DEF Init
  <2>2. Accepted = <<>>
    BY <2>1 DEF Accepted
  <2> QED BY <2>1, <2>2 DEF Fifo!Init
<1>2. ASSUME ChannelInv, Capped, [Next]_vars PROVE [Fifo!Next]_(Fifo!fvars)
  <2>1. ASSUME NEW n \in Lengths, SendData(n) PROVE Fifo!Accept
    <3>1. PICK m \in Sendable : Accepted' = Append(Accepted, m) /\ handled' = handled
      BY <1>2, <2>1, AcceptedGrows
    <3> QED BY <3>1 DEF Fifo!Accept
  <2>2. ASSUME HandleMsg PROVE Fifo!Handle
    <3>1. /\ ends' = ends /\ Len(handled) < Len(ends) /\ Len(handled) \in Nat /\ Len(ends) \in Nat
          /\ handled' = Append(handled, MsgAt(Len(handled) + 1))
      BY <1>2, <2>2, HandleStep, FrontAndLast, SameEnds
    <3>2. Len(Accepted) = Len(ends) /\ Accepted[Len(handled) + 1] = MsgAt(Len(handled) + 1)
      BY <3>1 DEF Accepted
    <3>3. Accepted' = Accepted
      BY <3>1 DEF Accepted, MsgAt, EndOf
    <3> QED BY <3>1, <3>2, <3>3 DEF Fifo!Handle
  <2>3. ASSUME Write \/ (\E n \in 1..RecvSize : Read4Socket(n)) \/ MsgsDone \/ UNCHANGED vars
        PROVE  UNCHANGED Fifo!fvars
    <3>1. ends' = ends /\ handled' = handled
      BY <2>3 DEF Write, Write2Socket, Read4Socket, MsgsDone, vars
    <3>2. Accepted' = Accepted
      BY <3>1 DEF Accepted, MsgAt, EndOf
    <3> QED BY <3>1, <3>2 DEF Fifo!fvars
  <2> QED BY <1>2, <2>1, <2>2, <2>3 DEF Next, Receive, Fifo!Next
<1>3. Capped /\ ChannelInv /\ [Next]_vars => Capped'
  BY CappedStep
<1> QED BY <1>1, <1>2, <1>3, CappedInit, ChannelInvHolds, PTL DEF Spec, Fifo!Safety

-----------------------------------------------------------------------------
(* Messages of MsgStream                                                   *)

\* The least number principle of the library, as induction over a set.
LEMMA SetInduction ==
  ASSUME NEW P, 0 \in P, \A n \in Nat : n \in P => n + 1 \in P
  PROVE  Nat \subseteq P
<1> DEFINE R == OpToRel(<, Nat)
<1>1. IsWellFoundedOn(R, Nat)
  BY NatLessThanWellFounded
<1>2. \A x, y \in Nat : x < y => <<x, y>> \in R
  BY DEF OpToRel
<1> HIDE DEF R
<1> SUFFICES ASSUME Nat \ P # {} PROVE FALSE
  OBVIOUS
<1>3. PICK x \in Nat \ P : \A y \in Nat \ P : ~ (<<y, x>> \in R)
  BY <1>1, WFMin
<1>4. x # 0 /\ x - 1 \in Nat /\ x - 1 < x
  OBVIOUS
<1>5. x - 1 \in P
  BY <1>2, <1>3, <1>4
<1>6. (x - 1) + 1 \in P /\ (x - 1) + 1 = x
  BY <1>4, <1>5
<1> QED BY <1>6

Byte == 0..255

\* dataLength is a uint16_t.
Limit == 65536

LEMMA LimitNat == Limit \in Nat
BY DEF Limit

LEMMA Digits ==
  ASSUME NEW n \in Nat, n < 65536
  PROVE  /\ n \div 1 = n /\ n \div 65536 = 0 /\ n \div 16777216 = 0
         /\ n % 256 \in Byte /\ (n \div 256) % 256 \in Byte /\ (n % 256) + 256 * ((n \div 256) % 256) = n
<1>1. n \div 256 \in 0..255 /\ n % 256 \in 0..255 /\ (n % 256) + 256 * (n \div 256) = n
  OBVIOUS
<1>2. n \div 65536 = 0
  OBVIOUS
<1>3. n \div 16777216 = 0
  OBVIOUS
<1>4. (n \div 256) % 256 = n \div 256
  BY <1>1
<1> QED BY <1>1, <1>2, <1>3, <1>4 DEF Byte

\* A number in two or four bytes is read back.
LEMMA TwoBytes ==
  ASSUME NEW n \in Nat, n < Limit
  PROVE  S!Bytes(n, 2) \in Seq(Byte) /\ Len(S!Bytes(n, 2)) = 2 /\ S!Number(S!Bytes(n, 2)) = n
<1> DEFINE b == S!Bytes(n, 2)
<1>1. b = <<(n \div 1) % 256, (n \div 256) % 256>>
  BY DEF S!Bytes
<1> HIDE DEF b
<1>2. b \in Seq(Byte) /\ Len(b) = 2 /\ b[1] + 256 * b[2] + 0 = n
  BY <1>1, Digits DEF Byte, Limit
<1> QED BY <1>2 DEF S!Number, b

LEMMA FourBytes ==
  ASSUME NEW n \in Nat, n < Limit
  PROVE  S!Bytes(n, 4) \in Seq(Byte) /\ Len(S!Bytes(n, 4)) = 4 /\ S!Number(S!Bytes(n, 4)) = n
<1> DEFINE b == S!Bytes(n, 4)
<1>1. b = <<(n \div 1) % 256, (n \div 256) % 256, (n \div 65536) % 256, (n \div 16777216) % 256>>
  BY DEF S!Bytes
<1> HIDE DEF b
<1>2. b = <<n % 256, (n \div 256) % 256, 0, 0>>
  BY <1>1, Digits DEF Limit
<1>3. b \in Seq(Byte) /\ Len(b) = 4 /\ b[1] + 256 * b[2] + (65536 * b[3] + 16777216 * b[4]) = n
  BY <1>2, Digits DEF Byte, Limit
<1> QED BY <1>3 DEF S!Number, b

LEMMA Concat ==
  ASSUME NEW s \in Seq(Byte), NEW t \in Seq(Byte)
  PROVE  s \o t \in Seq(Byte) /\ Len(s \o t) = Len(s) + Len(t)
OBVIOUS

LEMMA Regroup ==
  ASSUME NEW a \in Seq(Byte), NEW b \in Seq(Byte), NEW c \in Seq(Byte)
  PROVE  (a \o b) \o c = a \o (b \o c)
OBVIOUS

LEMMA SameBytes ==
  ASSUME NEW s \in Seq(Byte), NEW t \in Seq(Byte), Len(s) = Len(t), \A i \in 1..Len(s) : s[i] = t[i]
  PROVE  s = t
OBVIOUS

\* s stands in d behind position p.
Stands(d, p, s) == p + Len(s) <= Len(d) /\ \A i \in 1..Len(s) : d[p + i] = s[i]

LEMMA StandsApart ==
  ASSUME NEW d \in Seq(Byte), NEW p \in Nat, NEW s \in Seq(Byte), NEW t \in Seq(Byte), Stands(d, p, s \o t)
  PROVE  Stands(d, p, s) /\ Stands(d, p + Len(s), t)
<1>1. Len(s \o t) = Len(s) + Len(t)
  OBVIOUS
<1>2. \A i \in 1..Len(s) : (s \o t)[i] = s[i] /\ i \in 1..Len(s \o t)
  OBVIOUS
<1>3. \A i \in 1..Len(t) : (s \o t)[Len(s) + i] = t[i] /\ Len(s) + i \in 1..Len(s \o t)
  OBVIOUS
<1>4. \A i \in 1..Len(t) : p + (Len(s) + i) = (p + Len(s)) + i
  OBVIOUS
<1>5. p + Len(s) <= Len(d) /\ (p + Len(s)) + Len(t) <= Len(d)
  BY <1>1 DEF Stands
<1>6. \A i \in 1..Len(s) : d[p + i] = s[i]
  BY <1>2 DEF Stands
<1>7. \A i \in 1..Len(t) : d[p + (Len(s) + i)] = t[i]
  BY <1>3 DEF Stands
<1>8. \A i \in 1..Len(t) : d[(p + Len(s)) + i] = t[i]
  BY <1>4, <1>7
<1> QED BY <1>5, <1>6, <1>8 DEF Stands

LEMMA StandsLast ==
  ASSUME NEW d \in Seq(Byte), NEW s \in Seq(Byte)
  PROVE  /\ d \o s \in Seq(Byte) /\ Len(d \o s) = Len(d) + Len(s) /\ Stands(d \o s, Len(d), s)
         /\ \A p \in Nat, t \in Seq(Byte) : Stands(d, p, t) => Stands(d \o s, p, t)
<1>1. d \o s \in Seq(Byte) /\ Len(d \o s) = Len(d) + Len(s)
  OBVIOUS
<1>2. \A i \in 1..Len(d) : (d \o s)[i] = d[i]
  OBVIOUS
<1>3. \A i \in 1..Len(s) : (d \o s)[Len(d) + i] = s[i]
  OBVIOUS
<1>4. ASSUME NEW p \in Nat, NEW t \in Seq(Byte), Stands(d, p, t) PROVE Stands(d \o s, p, t)
  <2>1. \A i \in 1..Len(t) : p + i \in 1..Len(d)
    BY <1>4 DEF Stands
  <2> QED BY <1>1, <1>2, <1>4, <2>1 DEF Stands
<1> QED BY <1>1, <1>3, <1>4 DEF Stands

\* canRead and canWrite never ask for more than the size they are given, and
\* below 2 GiB for exactly that.
LEMMA IntIsLess ==
  ASSUME NEW n \in Nat
  PROVE  S!AsInt(n) \in Int /\ S!AsInt(n) <= n /\ (n <= 2147483647 => S!AsInt(n) = n)
<1>1. CASE n <= 2147483647
  BY <1>1 DEF S!AsInt
<1>2. CASE n > 2147483647
  <2> DEFINE h == 65536 * 32768
             w == 65536 * 65536
  <2>1. h \in Nat /\ w \in Nat /\ w > 0
    OBVIOUS
  <2>2. S!AsInt(n) = ((n + h) % w) - h
    BY <1>2 DEF S!AsInt
  <2> HIDE DEF h, w
  <2>3. (n + h) % w \in Nat /\ (n + h) % w <= n + h
    BY <2>1
  <2> QED BY <1>2, <2>1, <2>2, <2>3
<1> QED BY <1>1, <1>2

\* What a reader finds at its position.
LEMMA ReaderFinds ==
  ASSUME NEW d \in Seq(Byte), NEW p \in Nat, NEW s \in Seq(Byte), Stands(d, p, s),
         NEW r, r = [data |-> d, pos |-> p]
  PROVE  /\ S!CanRead(r, Len(s)) /\ S!Ahead(r, Len(s)) = s /\ S!Peek(r, Len(s)) = s
         /\ S!AfterRead(r, Len(s)) = [data |-> d, pos |-> p + Len(s)]
<1>1. S!CanRead(r, Len(s))
  BY IntIsLess DEF S!CanRead, Stands
<1>2. S!Ahead(r, Len(s)) = s
  <2> DEFINE a == SubSeq(d, p + 1, p + Len(s))
  <2>1. a \in Seq(Byte) /\ Len(a) = Len(s)
    BY DEF Stands
  <2>2. ASSUME NEW i \in 1..Len(s) PROVE a[i] = s[i]
    <3>1. a[i] = d[p + i]
      BY DEF Stands
    <3> QED BY <3>1 DEF Stands
  <2> HIDE DEF a
  <2>3. a = s
    BY <2>1, <2>2, SameBytes
  <2> QED BY <2>3 DEF S!Ahead, a
<1> QED BY <1>1, <1>2 DEF S!Peek, S!AfterRead, S!Skip

-----------------------------------------------------------------------------
\* A value, an array or a string, whose elements have width bytes; with its
\* count in front it is shorter than 2 GiB, so that canWrite is asked for it.
Whole(n, w) == \E k \in Nat : n = k * w
IsField(f) ==
  /\ f.value \in Seq(Byte) /\ Len(f.value) + 4 <= 2147483647 /\ f.width \in Nat \ {0}
  /\ \/ f.kind = "value" /\ Len(f.value) = f.width
     \/ f.kind = "array" /\ Whole(Len(f.value), f.width)
     \/ f.kind = "string" /\ f.width = 1

\* Its bytes in a message.
Code(f) == IF f.kind = "value" THEN f.value ELSE S!Bytes(Capacity(f), 4) \o f.value

IsEmptyString(f) == f.kind = "string" /\ f.value = <<>>

LEMMA Quotient ==
  ASSUME NEW n \in Nat, NEW w \in Nat \ {0}, Whole(n, w)
  PROVE  n \div w \in Nat /\ n \div w <= n /\ (n \div w) * w = n
<1>1. PICK k \in Nat : n = k * w
  BY DEF Whole
<1>2. (k * w) \div w = k /\ k <= k * w
  OBVIOUS
<1> QED BY <1>1, <1>2

LEMMA Elements ==
  ASSUME NEW f, IsField(f), f.kind # "value"
  PROVE  /\ f.value \in Seq(Byte) /\ f.width \in Nat \ {0}
         /\ Capacity(f) \in Nat /\ Capacity(f) <= Len(f.value) /\ Capacity(f) * f.width = Len(f.value)
<1>1. f.value \in Seq(Byte) /\ Len(f.value) \in Nat /\ f.width \in Nat \ {0}
  BY DEF IsField
<1>2. Whole(Len(f.value), f.width)
  <2>1. CASE f.kind = "string"
    <3>1. f.width = 1 /\ Len(f.value) * 1 = Len(f.value)
      BY <1>1, <2>1 DEF IsField
    <3> QED BY <1>1, <3>1 DEF Whole
  <2> QED BY <2>1 DEF IsField
<1> QED BY <1>1, <1>2, Quotient DEF Capacity

LEMMA CodeIsBytes ==
  ASSUME NEW f, IsField(f), Len(f.value) < Limit
  PROVE  /\ Code(f) \in Seq(Byte)
         /\ f.kind = "value" => Len(Code(f)) = Len(f.value)
         /\ f.kind # "value" => Len(Code(f)) = Len(f.value) + 4
<1> DEFINE v == f.value
<1>0. v \in Seq(Byte) /\ Len(v) \in Nat
  BY DEF IsField
<1> HIDE DEF v
<1>1. CASE f.kind = "value"
  <2>1. Code(f) = v
    BY <1>1 DEF Code, v
  <2> QED BY <1>0, <1>1, <2>1 DEF v
<1>2. CASE f.kind # "value"
  <2>1. Capacity(f) \in Nat /\ Capacity(f) < Limit
    BY <1>0, <1>2, Elements, LimitNat DEF v
  <2> DEFINE b == S!Bytes(Capacity(f), 4)
  <2>2. b \in Seq(Byte)
    BY <2>1, FourBytes
  <2>3. Len(b) = 4
    BY <2>1, FourBytes
  <2> HIDE DEF b
  <2>4. b \o v \in Seq(Byte) /\ Len(b \o v) = Len(b) + Len(v)
    BY <1>0, <2>2, Concat
  <2>5. Code(f) = b \o v
    BY <1>2 DEF Code, b, v
  <2>6. Code(f) \in Seq(Byte) /\ Len(Code(f)) = Len(v) + 4
    BY <1>0, <2>3, <2>4, <2>5
  <2> QED BY <1>2, <2>6 DEF v
<1> QED BY <1>1, <1>2

LEMMA Appended ==
  ASSUME NEW size, NEW d, NEW e, NEW s, s = [size |-> size, data |-> d], NEW w, w = [s EXCEPT !.data = e]
  PROVE  w = [size |-> size, data |-> e]
OBVIOUS

\* A field is written as a whole or not at all.
LEMMA FieldWritten ==
  ASSUME NEW size \in Nat, size < Limit, NEW d \in Seq(Byte), Len(d) <= size, NEW f, IsField(f),
         NEW s, s = [size |-> size, data |-> d], WriteField(s, f) # s
  PROVE  /\ Len(f.value) < Limit /\ Len(d) + Len(Code(f)) <= size
         /\ WriteField(s, f) = [size |-> size, data |-> d \o Code(f)]
<1> DEFINE v == f.value
<1>0. v \in Seq(Byte) /\ Len(v) \in Nat /\ s.size = size /\ s.data = d
  BY DEF IsField
<1>3. S!AsInt(Len(v)) = Len(v) /\ S!AsInt(Len(v) + 4) = Len(v) + 4
  <2>1. Len(v) + 4 <= 2147483647
    BY DEF IsField
  <2> HIDE DEF v
  <2> QED BY <1>0, <2>1, IntIsLess
<1>1. CASE f.kind = "value"
  <2>1. WriteField(s, f) = S!Write(s, v) /\ Code(f) = v
    BY <1>1 DEF WriteField, Code
  <2> HIDE DEF v
  <2>2. S!CanWrite(s, Len(v)) /\ S!Write(s, v) = [s EXCEPT !.data = @ \o v]
    BY <2>1 DEF S!Write
  <2>3. Len(d) + Len(v) <= size
    BY <1>0, <1>3, <2>2, LimitNat DEF S!CanWrite
  <2>4. Len(v) < Limit
    BY <1>0, <2>3, LimitNat
  <2>5. WriteField(s, f) = [size |-> size, data |-> d \o v]
    <3>1. WriteField(s, f) = [s EXCEPT !.data = d \o v]
      BY <1>0, <2>1, <2>2
    <3> QED BY <3>1, Appended
  <2>6. Len(d) + Len(Code(f)) <= size
    BY <2>1, <2>3
  <2> QED BY <2>1, <2>4, <2>5, <2>6 DEF v
<1>2. CASE f.kind # "value"
  <2> DEFINE b == S!Bytes(Capacity(f), 4)
  <2>1. WriteField(s, f) = S!WriteArray(s, v, f.width) /\ Code(f) = b \o v
    BY <1>2 DEF WriteField, Code
  <2>2. S!CanWrite(s, Len(v) + 4) /\ S!WriteArray(s, v, f.width) = [s EXCEPT !.data = (@ \o b) \o v]
    BY <2>1 DEF S!WriteArray, Capacity
  <2>3. Len(d) + (Len(v) + 4) <= size /\ Len(v) < Limit
    BY <1>0, <1>3, <2>2, LimitNat DEF S!CanWrite
  <2>4. Len(Code(f)) = Len(v) + 4
    BY <1>2, <2>3, CodeIsBytes
  <2>5. Capacity(f) \in Nat /\ Capacity(f) < Limit
    BY <1>0, <1>2, <2>3, Elements, LimitNat
  <2>6. b \in Seq(Byte)
    BY <2>5, FourBytes
  <2> HIDE DEF v, b
  <2>7. (d \o b) \o v = d \o (b \o v)
    BY <1>0, <2>6, Regroup
  <2>8. WriteField(s, f) = [size |-> size, data |-> (d \o b) \o v]
    <3>1. WriteField(s, f) = [s EXCEPT !.data = (d \o b) \o v]
      BY <1>0, <2>1, <2>2
    <3> QED BY <3>1, Appended
  <2>9. Len(d) + Len(Code(f)) <= size
    BY <2>3, <2>4 DEF v
  <2> QED BY <2>1, <2>3, <2>7, <2>8, <2>9 DEF v
<1> QED BY <1>1, <1>2

\* What a reader finds where an array or a string stands.
LEMMA ArrayFound ==
  ASSUME NEW d \in Seq(Byte), NEW p \in Nat, NEW v \in Seq(Byte), NEW n \in Nat, n < Limit,
         Stands(d, p, S!Bytes(n, 4) \o v), NEW r, r = [data |-> d, pos |-> p]
  PROVE  /\ S!Count(r) = n /\ S!CanRead(r, Len(v) + 4) /\ S!Ahead(S!Skip(r, 4), Len(v)) = v
         /\ S!Skip(r, 4 + Len(v)) = [data |-> d, pos |-> p + (Len(v) + 4)]
<1> DEFINE b == S!Bytes(n, 4)
<1>1. b \in Seq(Byte)
  BY FourBytes
<1>2. Len(b) = 4 /\ S!Number(b) = n
  BY FourBytes
<1> HIDE DEF b
<1>3. Stands(d, p, b) /\ Stands(d, p + Len(b), v)
  BY <1>1, StandsApart DEF b
<1>4. S!Peek(r, Len(b)) = b
  BY <1>1, <1>3, ReaderFinds
<1>5. S!Count(r) = n
  BY <1>2, <1>4 DEF S!Count
<1>6. p + 4 + Len(v) <= Len(d) /\ Stands(d, p + 4, v)
  BY <1>2, <1>3 DEF Stands
<1>7. S!Skip(r, 4) = [data |-> d, pos |-> p + 4] /\ S!Skip(r, 4 + Len(v)) = [data |-> d, pos |-> p + (Len(v) + 4)]
  BY DEF S!Skip
<1>8. S!Ahead([data |-> d, pos |-> p + 4], Len(v)) = v
  <2>1. p + 4 \in Nat
    OBVIOUS
  <2> QED BY <1>6, <2>1, ReaderFinds
<1>9. S!AsInt(Len(v) + 4) \in Int /\ S!AsInt(Len(v) + 4) <= Len(v) + 4
  BY IntIsLess
<1> QED BY <1>5, <1>6, <1>7, <1>8, <1>9 DEF S!CanRead

LEMMA FieldFound ==
  ASSUME NEW d \in Seq(Byte), NEW p \in Nat, NEW f, IsField(f), Len(f.value) < Limit, Stands(d, p, Code(f)),
         NEW r, r = [data |-> d, pos |-> p]
  PROVE  /\ ReadField(r, f) = f.value
         /\ ~IsEmptyString(f) => AfterField(r, f) = [data |-> d, pos |-> p + Len(Code(f))]
<1> DEFINE v == f.value
<1>0. v \in Seq(Byte) /\ Len(v) \in Nat
  BY DEF IsField
<1>1. CASE f.kind = "value"
  <2>1. Code(f) = v /\ f.width = Len(v)
    BY <1>1 DEF Code, IsField
  <2>2. S!Peek(r, Len(v)) = v /\ S!AfterRead(r, Len(v)) = [data |-> d, pos |-> p + Len(v)]
    <3>1. Stands(d, p, v)
      BY <2>1
    <3> HIDE DEF v
    <3> QED BY <1>0, <3>1, ReaderFinds
  <2> QED BY <1>1, <2>1, <2>2 DEF ReadField, AfterField
<1>2. CASE f.kind # "value"
  <2>1. Capacity(f) \in Nat /\ Capacity(f) < Limit /\ Capacity(f) * f.width = Len(v)
    BY <1>0, <1>2, Elements, LimitNat
  <2>2. Stands(d, p, S!Bytes(Capacity(f), 4) \o v)
    BY <1>2 DEF Code
  <2>3. Len(Code(f)) = Len(v) + 4
    BY <1>2, CodeIsBytes
  <2> HIDE DEF v
  <2>4. /\ S!Count(r) = Capacity(f) /\ S!CanRead(r, Len(v) + 4) /\ S!Ahead(S!Skip(r, 4), Len(v)) = v
        /\ S!Skip(r, 4 + Len(v)) = [data |-> d, pos |-> p + Len(Code(f))]
    <3>1. Capacity(f) \in Nat /\ Capacity(f) < Limit
      BY <2>1
    <3>2. /\ S!Count(r) = Capacity(f) /\ S!CanRead(r, Len(v) + 4) /\ S!Ahead(S!Skip(r, 4), Len(v)) = v
          /\ S!Skip(r, 4 + Len(v)) = [data |-> d, pos |-> p + (Len(v) + 4)]
      BY <1>0, <3>1, <2>2, ArrayFound
    <3> QED BY <2>3, <3>2 DEF v
  <2> USE DEF v
  <2>5. CASE f.kind = "array"
    <3>1. S!ArrayFits(r, Capacity(f), f.width)
      BY <2>1, <2>4 DEF S!ArrayFits
    <3> QED BY <2>1, <2>4, <2>5, <3>1 DEF ReadField, AfterField, S!ReadArray, S!AfterReadArray
  <2>6. CASE f.kind = "string"
    <3>1. Capacity(f) = Len(v)
      BY <1>0, <2>1, <2>6 DEF IsField
    <3>2. CASE v = <<>>
      <4>1. Len(v) = 0
        BY <3>2
      <4>2. ~S!StringFits(r)
        BY <2>4, <3>1, <4>1 DEF S!StringFits
      <4> QED BY <2>6, <3>2, <4>2 DEF ReadField, S!ReadString, IsEmptyString
    <3>3. CASE v # <<>>
      <4>1. Len(v) > 0
        BY <1>0, <3>3
      <4>2. S!StringFits(r)
        BY <2>4, <3>1, <4>1 DEF S!StringFits
      <4> QED BY <2>4, <2>6, <3>1, <4>2 DEF ReadField, AfterField, S!ReadString, S!AfterReadString
    <3> QED BY <3>2, <3>3
  <2> QED BY <1>2, <2>5, <2>6 DEF IsField
<1> QED BY <1>1, <1>2

-----------------------------------------------------------------------------
(* Lists of fields                                                         *)

\* The equations of the two recursive functions.
LEMMA WrittenEquation ==
  ASSUME NEW size, NEW fs, Len(fs) \in Nat
  PROVE  \E w : /\ \A n \in 0..Len(fs) : w[n] = IF n = 0 THEN [stream |-> S!WriteStream(size), taken |-> <<>>]
                                             ELSE Taking(w[n - 1], fs[n])
               /\ Written(size, fs) = w[Len(fs)]
<1> DEFINE start == [stream |-> S!WriteStream(size), taken |-> <<>>]
           Eq(g, m) == \A n \in 0..m : g[n] = IF n = 0 THEN start ELSE Taking(g[n - 1], fs[n])
           P == {m \in Nat : \E g : Eq(g, m)}
<1> HIDE DEF start
<1>1. 0 \in P
  <2>1. Eq([n \in 0..0 |-> start], 0)
    OBVIOUS
  <2> QED BY <2>1
<1>2. ASSUME NEW m \in Nat, m \in P PROVE m + 1 \in P
  <2>1. PICK g : Eq(g, m)
    BY <1>2
  <2> DEFINE h == [n \in 0..(m + 1) |-> IF n = m + 1 THEN Taking(g[m], fs[m + 1]) ELSE g[n]]
  <2>2. ASSUME NEW n \in 0..(m + 1) PROVE h[n] = IF n = 0 THEN start ELSE Taking(h[n - 1], fs[n])
    <3>1. CASE n = m + 1
      <4>1. h[n] = Taking(g[m], fs[n]) /\ h[n - 1] = g[m]
        BY <3>1
      <4> QED BY <3>1, <4>1
    <3>2. CASE n # m + 1
      <4>1. n \in 0..m /\ h[n] = g[n]
        BY <3>2
      <4>2. n # 0 => h[n - 1] = g[n - 1]
        BY <4>1
      <4> QED BY <2>1, <4>1, <4>2
    <3> QED BY <3>1, <3>2
  <2> HIDE DEF h
  <2>3. Eq(h, m + 1)
    BY <2>2
  <2> HIDE DEF Eq
  <2> QED BY <2>3
<1>3. Len(fs) \in P
  <2> HIDE DEF P
  <2> QED BY <1>1, <1>2, SetInduction
<1>4. PICK g : Eq(g, Len(fs))
  BY <1>3
<1> DEFINE w == [n \in 0..Len(fs) |-> g[n]]
<1>5. w = [n \in 0..Len(fs) |-> IF n = 0 THEN start ELSE Taking(w[n - 1], fs[n])]
  BY <1>4
<1> DEFINE F(x) == [n \in 0..Len(fs) |-> IF n = 0 THEN start ELSE Taking(x[n - 1], fs[n])]
           f == CHOOSE x : x = F(x)
<1>6. f = F(f)
  <2> HIDE DEF F, w
  <2>1. w = F(w)
    BY <1>5 DEF F
  <2> QED BY <2>1
<1>7. Written(size, fs) = f[Len(fs)]
  BY DEF Written, start
<1>8. \A n \in 0..Len(fs) : f[n] = IF n = 0 THEN start ELSE Taking(f[n - 1], fs[n])
  <2> HIDE DEF f
  <2> QED BY <1>6
<1> QED BY <1>7, <1>8 DEF start

ReadingStart(msg) == [reader |-> S!AfterRead(S!ReadStream(msg), 2), over |-> FALSE, same |-> TRUE]

LEMMA ReadingEquation ==
  ASSUME NEW msg, NEW fs, Len(fs) \in Nat
  PROVE  \E w : /\ \A n \in 0..Len(fs) : w[n] = IF n = 0 THEN ReadingStart(msg)
                                             ELSE Reading(w[n - 1], fs[n])
               /\ (ReadsBack(msg, fs) <=> w[Len(fs)].same /\ (w[Len(fs)].over \/ w[Len(fs)].reader.pos = Len(msg)))
<1> DEFINE start == ReadingStart(msg)
           Eq(g, m) == \A n \in 0..m : g[n] = IF n = 0 THEN start ELSE Reading(g[n - 1], fs[n])
           P == {m \in Nat : \E g : Eq(g, m)}
<1> HIDE DEF start
<1>1. 0 \in P
  <2>1. Eq([n \in 0..0 |-> start], 0)
    OBVIOUS
  <2> QED BY <2>1
<1>2. ASSUME NEW m \in Nat, m \in P PROVE m + 1 \in P
  <2>1. PICK g : Eq(g, m)
    BY <1>2
  <2> DEFINE h == [n \in 0..(m + 1) |-> IF n = m + 1 THEN Reading(g[m], fs[m + 1]) ELSE g[n]]
  <2>2. ASSUME NEW n \in 0..(m + 1) PROVE h[n] = IF n = 0 THEN start ELSE Reading(h[n - 1], fs[n])
    <3>1. CASE n = m + 1
      <4>1. h[n] = Reading(g[m], fs[n]) /\ h[n - 1] = g[m]
        BY <3>1
      <4> QED BY <3>1, <4>1
    <3>2. CASE n # m + 1
      <4>1. n \in 0..m /\ h[n] = g[n]
        BY <3>2
      <4>2. n # 0 => h[n - 1] = g[n - 1]
        BY <4>1
      <4> QED BY <2>1, <4>1, <4>2
    <3> QED BY <3>1, <3>2
  <2> HIDE DEF h
  <2>3. Eq(h, m + 1)
    BY <2>2
  <2> HIDE DEF Eq
  <2> QED BY <2>3
<1>3. Len(fs) \in P
  <2> HIDE DEF P
  <2> QED BY <1>1, <1>2, SetInduction
<1>4. PICK g : Eq(g, Len(fs))
  BY <1>3
<1> DEFINE w == [n \in 0..Len(fs) |-> g[n]]
<1>5. w = [n \in 0..Len(fs) |-> IF n = 0 THEN start ELSE Reading(w[n - 1], fs[n])]
  BY <1>4
<1> DEFINE F(x) == [n \in 0..Len(fs) |-> IF n = 0 THEN start ELSE Reading(x[n - 1], fs[n])]
           f == CHOOSE x : x = F(x)
<1>6. f = F(f)
  <2> HIDE DEF F, w
  <2>1. w = F(w)
    BY <1>5 DEF F
  <2> QED BY <2>1
<1>7. ReadsBack(msg, fs) <=> f[Len(fs)].same /\ (f[Len(fs)].over \/ f[Len(fs)].reader.pos = Len(msg))
  BY DEF ReadsBack, ReadingStart, start
<1>8. \A n \in 0..Len(fs) : f[n] = IF n = 0 THEN start ELSE Reading(f[n - 1], fs[n])
  <2> HIDE DEF f
  <2> QED BY <1>6
<1> QED BY <1>7, <1>8 DEF start

\* In d the fields ts stand one after the other behind the length: the k-th of
\* them ends at at[k].
LaidOut(d, ts, at) ==
  /\ d \in Seq(Byte) /\ at \in [0..Len(ts) -> Nat] /\ at[0] = 2 /\ at[Len(ts)] = Len(d)
  /\ \A k \in 1..Len(ts) :
       /\ IsField(ts[k]) /\ Len(ts[k].value) < Limit
       /\ at[k - 1] >= 2 /\ Stands(d, at[k - 1], Code(ts[k])) /\ at[k] = at[k - 1] + Len(Code(ts[k]))

LEMMA LaidOutMore ==
  ASSUME NEW A, NEW ts \in Seq(A), NEW d, NEW at, LaidOut(d, ts, at), Len(d) >= 2,
         NEW f \in A, IsField(f), Len(f.value) < Limit
  PROVE  \E to : LaidOut(d \o Code(f), ts \o <<f>>, to)
<1> DEFINE n == Len(ts)
           c == Code(f)
           us == ts \o <<f>>
           to == [k \in 0..(n + 1) |-> IF k = n + 1 THEN Len(d) + Len(c) ELSE at[k]]
<1>1. n \in Nat /\ Len(us) = n + 1 /\ us[n + 1] = f /\ \A k \in 1..n : us[k] = ts[k]
  OBVIOUS
<1>2. c \in Seq(Byte) /\ Len(c) \in Nat
  BY CodeIsBytes
<1>3. d \in Seq(Byte) /\ at \in [0..n -> Nat] /\ at[0] = 2 /\ at[n] = Len(d)
  BY DEF LaidOut
<1>4. \A k \in 1..n : /\ IsField(ts[k]) /\ Len(ts[k].value) < Limit
                      /\ at[k - 1] >= 2 /\ Stands(d, at[k - 1], Code(ts[k])) /\ at[k] = at[k - 1] + Len(Code(ts[k]))
  BY DEF LaidOut
<1> HIDE DEF n, c, us
<1>5. d \o c \in Seq(Byte) /\ Len(d \o c) = Len(d) + Len(c) /\ Stands(d \o c, Len(d), c)
  BY <1>2, <1>3, StandsLast
<1>6. to \in [0..(n + 1) -> Nat] /\ to[0] = 2 /\ to[n + 1] = Len(d \o c) /\ to[n] = Len(d)
  BY <1>1, <1>2, <1>3, <1>5
<1>7. \A k \in 0..n : to[k] = at[k]
  BY <1>1
<1> HIDE DEF to
<1>8. ASSUME NEW k \in 1..(n + 1)
      PROVE  /\ IsField(us[k]) /\ Len(us[k].value) < Limit
             /\ to[k - 1] >= 2 /\ Stands(d \o c, to[k - 1], Code(us[k])) /\ to[k] = to[k - 1] + Len(Code(us[k]))
  <2>1. CASE k = n + 1
    <3>1. us[k] = f /\ Code(us[k]) = c /\ to[k - 1] = Len(d) /\ to[k] = Len(d) + Len(c)
      BY <1>1, <1>5, <1>6, <2>1 DEF c
    <3> QED BY <1>5, <3>1
  <2>2. CASE k # n + 1
    <3>1. k \in 1..n /\ k - 1 \in 0..n /\ k \in 0..n
      BY <1>1, <2>2
    <3>2. us[k] = ts[k] /\ to[k - 1] = at[k - 1] /\ to[k] = at[k]
      BY <1>1, <1>7, <3>1
    <3>3. at[k - 1] \in Nat /\ Code(ts[k]) \in Seq(Byte)
      BY <1>3, <1>4, <3>1, CodeIsBytes
    <3>4. Stands(d \o c, at[k - 1], Code(ts[k]))
      BY <1>2, <1>3, <1>4, <3>1, <3>3, StandsLast
    <3> QED BY <1>4, <3>1, <3>2, <3>4
  <2> QED BY <2>1, <2>2
<1>9. LaidOut(d \o c, us, to)
  BY <1>1, <1>5, <1>6, <1>8 DEF LaidOut
<1> QED BY <1>9 DEF us, c

\* What a stream holds that took ts.
Holds(size, w, A) ==
  \E d, at : /\ w = [stream |-> [size |-> size, data |-> d], taken |-> w.taken]
             /\ w.taken \in Seq(A) /\ LaidOut(d, w.taken, at) /\ 2 <= Len(d) /\ Len(d) <= size

LEMMA WrittenLaidOut ==
  ASSUME NEW size \in Nat, 2 <= size, size < Limit, NEW A, \A f \in A : IsField(f), NEW fs \in Seq(A)
  PROVE  Holds(size, Written(size, fs), A)
<1>0. Len(fs) \in Nat /\ \A n \in 1..Len(fs) : fs[n] \in A
  OBVIOUS
<1>1. PICK w : /\ \A n \in 0..Len(fs) : w[n] = IF n = 0 THEN [stream |-> S!WriteStream(size), taken |-> <<>>]
                                                ELSE Taking(w[n - 1], fs[n])
               /\ Written(size, fs) = w[Len(fs)]
  BY <1>0, WrittenEquation
<1> DEFINE P == {n \in Nat : n <= Len(fs) => Holds(size, w[n], A)}
<1>2. 0 \in P
  <2> DEFINE b == S!Bytes(0, 2)
  <2>1. b \in Seq(Byte) /\ Len(b) = 2
    BY TwoBytes, LimitNat
  <2> HIDE DEF b
  <2>2. S!WriteStream(size) = [size |-> size, data |-> b]
    <3> DEFINE s == [size |-> size, data |-> <<>>]
    <3>1. S!CanWrite(s, Len(b))
      BY <2>1, IntIsLess DEF S!CanWrite
    <3>2. S!WriteStream(size) = [s EXCEPT !.data = <<>> \o b]
      BY <3>1 DEF S!WriteStream, S!Write, b
    <3>3. <<>> \o b = b
      BY <2>1
    <3> QED BY <3>2, <3>3
  <2>3. w[0] = [stream |-> [size |-> size, data |-> b], taken |-> <<>>]
    BY <1>0, <1>1, <2>2
  <2> DEFINE x == w[0]
  <2>4. LaidOut(b, <<>>, [k \in 0..0 |-> 2])
    <3>1. Len(<<>>) = 0
      OBVIOUS
    <3> QED BY <2>1, <3>1 DEF LaidOut
  <2>5. x.taken = <<>> /\ <<>> \in Seq(A)
    BY <2>3
  <2>6. PICK at : LaidOut(b, x.taken, at)
    BY <2>4, <2>5
  <2>7. x = [stream |-> [size |-> size, data |-> b], taken |-> x.taken]
    BY <2>3, <2>5
  <2> HIDE DEF x
  <2>8. x.taken \in Seq(A) /\ 2 <= Len(b) /\ Len(b) <= size
    BY <2>1, <2>5
  <2>9. Holds(size, x, A)
    BY <2>6, <2>7, <2>8 DEF Holds
  <2> QED BY <2>9 DEF x
<1>3. ASSUME NEW n \in Nat, n \in P PROVE n + 1 \in P
  <2> SUFFICES ASSUME n + 1 <= Len(fs) PROVE Holds(size, w[n + 1], A)
    OBVIOUS
  <2>1. n + 1 \in 0..Len(fs) /\ n + 1 # 0 /\ (n + 1) - 1 = n /\ n <= Len(fs) /\ n + 1 \in 1..Len(fs)
    BY <1>0
  <2> DEFINE f == fs[n + 1]
             s == w[n].stream
             ts == w[n].taken
             u == WriteField(s, f)
  <2>2. PICK d, at : /\ w[n] = [stream |-> [size |-> size, data |-> d], taken |-> ts]
                     /\ ts \in Seq(A) /\ LaidOut(d, ts, at) /\ 2 <= Len(d) /\ Len(d) <= size
    BY <1>3, <2>1 DEF Holds
  <2>3. s = [size |-> size, data |-> d]
    BY <2>2
  <2>4. w[n + 1] = [stream |-> u, taken |-> ts \o (IF u = s THEN <<>> ELSE <<f>>)]
    BY <1>1, <2>1 DEF Taking
  <2>5. f \in A /\ IsField(f)
    BY <1>0, <2>1
  <2> HIDE DEF f, s, ts, u, P
  <2>6. CASE u = s
    <3>1. ts \o <<>> = ts
      BY <2>2
    <3>2. w[n + 1] = w[n]
      BY <2>2, <2>3, <2>4, <2>6, <3>1
    <3> QED BY <1>3, <2>1, <3>2 DEF P
  <2>7. CASE u # s
    <3>1. d \in Seq(Byte)
      BY <2>2 DEF LaidOut
    <3>2. /\ Len(f.value) < Limit /\ Len(d) + Len(Code(f)) <= size
          /\ u = [size |-> size, data |-> d \o Code(f)]
      BY <2>2, <2>3, <2>5, <2>7, <3>1, FieldWritten DEF u
    <3>3. PICK to : LaidOut(d \o Code(f), ts \o <<f>>, to)
      BY <2>2, <2>5, <3>2, LaidOutMore
    <3>4. w[n + 1] = [stream |-> [size |-> size, data |-> d \o Code(f)], taken |-> ts \o <<f>>]
      BY <2>4, <2>7, <3>2
    <3>5. Code(f) \in Seq(Byte)
      BY <2>5, <3>2, CodeIsBytes
    <3>6. Len(d \o Code(f)) = Len(d) + Len(Code(f)) /\ Len(Code(f)) \in Nat
      BY <3>1, <3>5, Concat
    <3>7. w[n + 1].taken = ts \o <<f>> /\ ts \o <<f>> \in Seq(A)
      BY <2>2, <2>5, <3>4
    <3>8. 2 <= Len(d \o Code(f)) /\ Len(d \o Code(f)) <= size
      BY <2>2, <3>1, <3>2, <3>6
    <3> QED BY <3>3, <3>4, <3>7, <3>8 DEF Holds
  <2> QED BY <2>6, <2>7
<1>4. Len(fs) \in P
  <2> HIDE DEF P
  <2> QED BY <1>0, <1>2, <1>3, SetInduction
<1> QED BY <1>0, <1>1, <1>4

LEMMA SmallLength ==
  ASSUME NEW n \in Nat, n < Limit
  PROVE  n % 65536 = n
BY DEF Limit

LEMMA FinshIs ==
  ASSUME NEW size \in Nat, 2 <= size, NEW d \in Seq(Byte), 2 <= Len(d), Len(d) < Limit, NEW s, s = [size |-> size, data |-> d]
  PROVE  S!Finsh(s) = [s EXCEPT !.data = S!Bytes(Len(d), 2) \o SubSeq(d, 3, Len(d))]
<1>1. s.size \in Nat /\ s.size >= 2 /\ d = s.data
  OBVIOUS
<1>2. Len(d) \in Nat /\ Len(d) % 65536 = Len(d)
  BY SmallLength
<1> DEFINE k == Len(s.data) % 65536
           e == SubSeq(s.data, 3, Len(s.data))
<1>3. S!Finsh(s) = [s EXCEPT !.data = S!Bytes(k, 2) \o e]
  BY <1>1 DEF S!Finsh
<1>4. k = Len(d)
  BY <1>1, <1>2
<1>5. e = SubSeq(d, 3, Len(d))
  BY <1>1
<1> HIDE DEF k, e
<1>6. S!Finsh(s) = [s EXCEPT !.data = S!Bytes(Len(d), 2) \o e]
  BY <1>3, <1>4
<1> QED BY <1>5, <1>6

\* What follows the first k bytes.
LEMMA Remainder ==
  ASSUME NEW d \in Seq(Byte), NEW k \in Nat, k <= Len(d), NEW j, j = k + 1, NEW e, e = SubSeq(d, j, Len(d))
  PROVE  e \in Seq(Byte) /\ Len(e) = Len(d) - k /\ \A i \in 1..Len(e) : e[i] = d[k + i]
<1>1. e \in Seq(Byte) /\ Len(e) = Len(d) - k
  OBVIOUS
<1>2. \A i \in 1..Len(e) : e[i] = d[k + i]
  OBVIOUS
<1> QED BY <1>1, <1>2

LEMMA HeadAndRest ==
  ASSUME NEW d \in Seq(Byte), NEW b \in Seq(Byte), Len(b) <= Len(d),
         NEW e \in Seq(Byte), Len(e) = Len(d) - Len(b), \A i \in 1..Len(e) : e[i] = d[Len(b) + i]
  PROVE  /\ b \o e \in Seq(Byte) /\ Len(b \o e) = Len(d) /\ SubSeq(b \o e, 1, Len(b)) = b
         /\ SubSeq(b \o e, 1, Len(b \o e)) = b \o e
         /\ \A i \in (Len(b) + 1)..Len(d) : (b \o e)[i] = d[i]
<1> DEFINE m == b \o e
<1>4. m \in Seq(Byte) /\ Len(m) = Len(b) + Len(e)
  BY Concat
<1>5. Len(m) = Len(d)
  BY <1>4
<1>6. \A i \in 1..Len(b) : m[i] = b[i]
  OBVIOUS
<1>7. \A i \in 1..Len(e) : m[Len(b) + i] = e[i]
  OBVIOUS
<1> HIDE DEF m
<1>8. ASSUME NEW i \in (Len(b) + 1)..Len(d) PROVE m[i] = d[i]
  <2>1. i - Len(b) \in 1..Len(e) /\ Len(b) + (i - Len(b)) = i
    OBVIOUS
  <2> QED BY <1>7, <2>1
<1>9. SubSeq(m, 1, Len(b)) = b
  BY <1>4, <1>5, <1>6
<1>10. SubSeq(m, 1, Len(m)) = m
  BY <1>4
<1> QED BY <1>4, <1>5, <1>8, <1>9, <1>10 DEF m

\* finsh fills in the length and leaves what follows it alone.
LEMMA Finished ==
  ASSUME NEW size \in Nat, 2 <= size, size < Limit, NEW d \in Seq(Byte), 2 <= Len(d), Len(d) <= size,
         NEW s, s = [size |-> size, data |-> d]
  PROVE  \E m \in Seq(Byte) :
           /\ S!Finsh(s).data = m /\ Len(m) = Len(d) /\ \A i \in 3..Len(d) : m[i] = d[i]
           /\ S!ReadStream(m) = [data |-> m, pos |-> 0]
           /\ S!Number(SubSeq(m, 1, 2)) = Len(m)
<1> DEFINE n == Len(d)
           b == S!Bytes(n, 2)
           e == SubSeq(d, 3, n)
           m == b \o e
<1>1. n \in Nat /\ n < Limit /\ 2 <= n /\ n <= size
  BY LimitNat
<1>2. b \in Seq(Byte) /\ Len(b) = 2 /\ S!Number(b) = n
  BY <1>1, TwoBytes
<1>3. S!Finsh(s) = [s EXCEPT !.data = m]
  <2> HIDE DEF n
  <2>1. S!Finsh(s) = [s EXCEPT !.data = S!Bytes(Len(d), 2) \o SubSeq(d, 3, Len(d))]
    BY <1>1, FinshIs DEF n
  <2> QED BY <2>1 DEF n
<1>4. e \in Seq(Byte) /\ Len(e) = Len(d) - 2 /\ \A i \in 1..Len(e) : e[i] = d[2 + i]
  <2>1. 2 \in Nat /\ 2 <= Len(d) /\ 3 = 2 + 1 /\ e = SubSeq(d, 3, Len(d))
    OBVIOUS
  <2> HIDE DEF e, n
  <2>2. \A x : x = SubSeq(d, 3, Len(d)) =>
                x \in Seq(Byte) /\ Len(x) = Len(d) - 2 /\ \A i \in 1..Len(x) : x[i] = d[2 + i]
    <3>1. \A j : j = 2 + 1 => \A x : x = SubSeq(d, j, Len(d)) =>
                    x \in Seq(Byte) /\ Len(x) = Len(d) - 2 /\ \A i \in 1..Len(x) : x[i] = d[2 + i]
      BY <2>1, Remainder
    <3> QED BY <2>1, <3>1
  <2> QED BY <2>1, <2>2
<1> HIDE DEF b, e
<1>5. Len(b) <= Len(d) /\ Len(e) = Len(d) - Len(b) /\ \A i \in 1..Len(e) : e[i] = d[Len(b) + i]
  BY <1>2, <1>4
<1>6. /\ m \in Seq(Byte) /\ Len(m) = Len(d) /\ SubSeq(m, 1, Len(b)) = b
      /\ SubSeq(m, 1, Len(m)) = m /\ \A i \in (Len(b) + 1)..Len(d) : m[i] = d[i]
  BY <1>2, <1>4, <1>5, HeadAndRest
<1> HIDE DEF m
<1>7. SubSeq(m, 1, 2) = b /\ \A i \in 3..Len(d) : m[i] = d[i]
  BY <1>2, <1>6
<1>8. S!Number(SubSeq(m, 1, 2)) = Len(m)
  BY <1>2, <1>6, <1>7
<1>9. S!ReadStream(m) = [data |-> m, pos |-> 0]
  BY <1>6, <1>8 DEF S!ReadStream
<1>10. S!Finsh(s).data = m
  BY <1>3
<1> QED BY <1>6, <1>7, <1>8, <1>9, <1>10

\* What stands behind the length is still there when it is filled in.
LEMMA StandsStill ==
  ASSUME NEW d \in Seq(Byte), NEW m \in Seq(Byte), Len(m) = Len(d), \A i \in 3..Len(d) : m[i] = d[i],
         NEW p \in Nat, p >= 2, NEW s \in Seq(Byte), Stands(d, p, s)
  PROVE  Stands(m, p, s)
<1>1. \A i \in 1..Len(s) : p + i \in 3..Len(d)
  BY DEF Stands
<1> QED BY <1>1 DEF Stands

LEMMA LengthSkipped ==
  ASSUME NEW m, Len(m) \in Nat, 2 <= Len(m), NEW r, r = [data |-> m, pos |-> 0]
  PROVE  S!AfterRead(r, 2) = [data |-> m, pos |-> 2]
<1>1. S!CanRead(r, 2)
  BY IntIsLess DEF S!CanRead
<1>2. S!Skip(r, 2) = [data |-> m, pos |-> 2]
  BY DEF S!Skip
<1> QED BY <1>1, <1>2 DEF S!AfterRead

StillReading(r) == [reader |-> r, over |-> FALSE, same |-> TRUE]
Ended(r) == [reader |-> r, over |-> TRUE, same |-> TRUE]

LEMMA ReadsOn ==
  ASSUME NEW f, NEW r
  PROVE  /\ Reading(Ended(r), f) = Ended(r)
         /\ ReadField(r, f) = f.value /\ IsEmptyString(f) => Reading(StillReading(r), f) = Ended(AfterField(r, f))
         /\ ReadField(r, f) = f.value /\ ~IsEmptyString(f) => Reading(StillReading(r), f) = StillReading(AfterField(r, f))
BY DEF Reading, Ended, StillReading, IsEmptyString

\* A reader that starts behind the length finds every field where it stands.
LEMMA FieldsFound ==
  ASSUME NEW d, NEW A, NEW ts \in Seq(A), NEW at, LaidOut(d, ts, at),
         NEW m \in Seq(Byte), Len(m) = Len(d), \A i \in 3..Len(d) : m[i] = d[i],
         2 <= Len(d), S!ReadStream(m) = [data |-> m, pos |-> 0]
  PROVE  ReadsBack(m, ts)
<1>0. Len(ts) \in Nat
  OBVIOUS
<1>1. PICK x : /\ \A n \in 0..Len(ts) : x[n] = IF n = 0 THEN ReadingStart(m) ELSE Reading(x[n - 1], ts[n])
               /\ (ReadsBack(m, ts) <=> x[Len(ts)].same /\ (x[Len(ts)].over \/ x[Len(ts)].reader.pos = Len(m)))
  BY <1>0, ReadingEquation
<1>2. d \in Seq(Byte) /\ at \in [0..Len(ts) -> Nat] /\ at[0] = 2 /\ at[Len(ts)] = Len(d)
  BY DEF LaidOut
<1> DEFINE Good(n) == x[n] = StillReading([data |-> m, pos |-> at[n]]) \/ \E r : x[n] = Ended(r)
           P == {n \in Nat : n <= Len(ts) => Good(n)}
<1>3. 0 \in P
  <2>1. S!AfterRead(S!ReadStream(m), 2) = [data |-> m, pos |-> 2]
    BY <1>2, LengthSkipped
  <2>2. x[0] = ReadingStart(m)
    BY <1>0, <1>1
  <2>3. x[0] = StillReading([data |-> m, pos |-> at[0]])
    BY <1>2, <2>1, <2>2 DEF ReadingStart, StillReading
  <2> QED BY <2>3
<1>4. ASSUME NEW n \in Nat, n \in P PROVE n + 1 \in P
  <2>0. ASSUME n + 1 <= Len(ts), Good(n + 1) PROVE n + 1 \in P
    BY <2>0
  <2> SUFFICES ASSUME n + 1 <= Len(ts) PROVE Good(n + 1)
    <3> HIDE DEF Good
    <3> QED BY <2>0
  <2>1. n + 1 \in 0..Len(ts) /\ n + 1 # 0 /\ (n + 1) - 1 = n /\ n \in 0..Len(ts) /\ n + 1 \in 1..Len(ts) /\ Good(n)
    <3>1. n \in 0..Len(ts) /\ n + 1 \in 1..Len(ts)
      BY <1>0
    <3>2. Good(n)
      <4> HIDE DEF Good
      <4> QED BY <1>4, <3>1
    <3> HIDE DEF Good, P
    <3> QED BY <1>0, <3>1, <3>2
  <2> DEFINE f == ts[n + 1]
             c == Code(f)
  <2>2. /\ IsField(f) /\ Len(f.value) < Limit
        /\ at[n] >= 2 /\ Stands(d, at[n], c) /\ at[n + 1] = at[n] + Len(c)
    BY <2>1 DEF LaidOut
  <2>3. x[n + 1] = Reading(x[n], f)
    BY <1>1, <2>1
  <2>4. at[n] \in Nat /\ c \in Seq(Byte)
    BY <1>2, <2>1, <2>2, CodeIsBytes
  <2> HIDE DEF f, P
  <2>5. Stands(m, at[n], c)
    <3> HIDE DEF c
    <3> QED BY <1>2, <2>2, <2>4, StandsStill
  <2>6. CASE \E r : x[n] = Ended(r)
    <3>1. PICK r : x[n] = Ended(r)
      BY <2>6
    <3>2. x[n + 1] = Ended(r)
      BY <2>3, <3>1, ReadsOn
    <3> QED BY <3>2
  <2>7. CASE x[n] = StillReading([data |-> m, pos |-> at[n]])
    <3> DEFINE r == [data |-> m, pos |-> at[n]]
    <3>1. /\ ReadField(r, f) = f.value
          /\ ~IsEmptyString(f) => AfterField(r, f) = [data |-> m, pos |-> at[n] + Len(c)]
      BY <2>2, <2>4, <2>5, FieldFound
    <3>2. x[n] = StillReading(r)
      BY <2>7
    <3> HIDE DEF r
    <3>3. CASE IsEmptyString(f)
      <4>1. x[n + 1] = Ended(AfterField(r, f))
        BY <2>3, <3>1, <3>2, <3>3, ReadsOn
      <4> QED BY <4>1
    <3>4. CASE ~IsEmptyString(f)
      <4>1. x[n + 1] = StillReading(AfterField(r, f))
        BY <2>3, <3>1, <3>2, <3>4, ReadsOn
      <4> QED BY <2>2, <3>1, <3>4, <4>1
    <3> QED BY <3>3, <3>4
  <2> QED BY <2>1, <2>6, <2>7
<1>5. Len(ts) \in P
  <2> HIDE DEF P
  <2> QED BY <1>0, <1>3, <1>4, SetInduction
<1>6. Good(Len(ts))
  BY <1>0, <1>5
<1>7. x[Len(ts)].same /\ (x[Len(ts)].over \/ x[Len(ts)].reader.pos = Len(m))
  <2> DEFINE e == x[Len(ts)]
  <2>1. e = [reader |-> [data |-> m, pos |-> at[Len(ts)]], over |-> FALSE, same |-> TRUE]
        \/ \E r : e = [reader |-> r, over |-> TRUE, same |-> TRUE]
    BY <1>6 DEF Ended, StillReading
  <2> HIDE DEF e
  <2>2. CASE e = [reader |-> [data |-> m, pos |-> at[Len(ts)]], over |-> FALSE, same |-> TRUE]
    <3>1. e.same = TRUE /\ e.reader.pos = Len(m)
      BY <1>2, <2>2
    <3> QED BY <3>1, Zenon DEF e
  <2>3. CASE \E r : e = [reader |-> r, over |-> TRUE, same |-> TRUE]
    <3>1. e.same = TRUE /\ e.over = TRUE
      BY <2>3
    <3> QED BY <3>1, Zenon DEF e
  <2> QED BY <2>1, <2>2, <2>3
<1> QED BY <1>1, <1>7

\* What Write and WriteArray put into a stream, Read, ReadArray and ReadString
\* give back in the same order: for any list of fields, and a stream of any size
\* that has room for the length and whose length a uint16_t holds.
THEOREM FieldsAlwaysReturn ==
  ASSUME NEW size \in Nat, 2 <= size, size < Limit, NEW A, \A f \in A : IsField(f), NEW fs \in Seq(A)
  PROVE  FieldsReturn(size, fs)
<1> DEFINE w == Written(size, fs)
           ts == w.taken
<1>1. PICK d, at : /\ w = [stream |-> [size |-> size, data |-> d], taken |-> ts]
                   /\ ts \in Seq(A) /\ LaidOut(d, ts, at) /\ 2 <= Len(d) /\ Len(d) <= size
  BY WrittenLaidOut DEF Holds
<1>2. d \in Seq(Byte) /\ w.stream = [size |-> size, data |-> d]
  BY <1>1 DEF LaidOut
<1> HIDE DEF w
<1>3. PICK m \in Seq(Byte) : /\ S!Finsh(w.stream).data = m /\ Len(m) = Len(d) /\ \A i \in 3..Len(d) : m[i] = d[i]
                             /\ S!ReadStream(m) = [data |-> m, pos |-> 0]
  BY <1>1, <1>2, Finished
<1> HIDE DEF ts
<1>4. ReadsBack(m, ts)
  BY <1>1, <1>3, FieldsFound
<1> QED BY <1>3, <1>4 DEF FieldsReturn, w, ts

-----------------------------------------------------------------------------
\* The messages of the run are fields like any other.
LEMMA SomeBytes ==
  ASSUME NEW n \in Nat
  PROVE  Some(n) \in Seq(Byte) /\ Len(Some(n)) = n
BY DEF Some, Byte

LEMMA FieldIs ==
  ASSUME NEW k, NEW w \in Nat \ {0}, NEW v \in Seq(Byte), Len(v) <= 8,
         \/ k = "value" /\ Len(v) = w
         \/ k = "array" /\ Whole(Len(v), w)
         \/ k = "string" /\ w = 1
  PROVE  IsField([kind |-> k, width |-> w, value |-> v])
<1> DEFINE f == [kind |-> k, width |-> w, value |-> v]
<1>1. f.kind = k /\ f.width = w /\ f.value = v
  OBVIOUS
<1> HIDE DEF f
<1>2. Len(v) + 4 <= 2147483647
  OBVIOUS
<1>3. IsField(f)
  BY <1>1, <1>2 DEF IsField
<1> QED BY <1>3 DEF f

LEMMA FieldsAreFields == \A f \in Fields : IsField(f)
<1>1. \A b \in {<<3>>, <<200>>} : IsField([kind |-> "value", width |-> 1, value |-> b])
  <2> TAKE b \in {<<3>>, <<200>>}
  <2>1. <<3>> \in Seq(Byte) /\ Len(<<3>>) = 1 /\ <<200>> \in Seq(Byte) /\ Len(<<200>>) = 1
    BY DEF Byte
  <2>2. b \in Seq(Byte) /\ Len(b) = 1
    BY <2>1
  <2>3. ASSUME NEW w, w = 1 PROVE IsField([kind |-> "value", width |-> w, value |-> b])
    <3>1. w \in Nat \ {0} /\ Len(b) = w /\ Len(b) <= 8
      BY <2>2, <2>3
    <3> QED BY <2>2, <3>1, FieldIs
  <2> QED BY <2>3
<1>2. ASSUME NEW w \in {2, 4, 8} PROVE IsField([kind |-> "value", width |-> w, value |-> Some(w)])
  <2>1. w \in Nat \ {0} /\ Some(w) \in Seq(Byte) /\ Len(Some(w)) = w /\ w <= 8
    BY SomeBytes
  <2> QED BY <2>1, FieldIs
<1>3. ASSUME NEW n \in {0, 4, 8} PROVE IsField([kind |-> "array", width |-> 4, value |-> Some(n)])
  <2>1. Some(n) \in Seq(Byte) /\ Len(Some(n)) = n /\ n <= 8
    BY SomeBytes
  <2>2. Whole(n, 4)
    <3>1. (n = 0 /\ n = 0 * 4) \/ (n = 4 /\ n = 1 * 4) \/ (n = 8 /\ n = 2 * 4)
      OBVIOUS
    <3> QED BY <3>1 DEF Whole
  <2>3. ASSUME NEW w, w = 4 PROVE IsField([kind |-> "array", width |-> w, value |-> Some(n)])
    <3>1. w \in Nat \ {0} /\ Whole(Len(Some(n)), w) /\ Len(Some(n)) <= 8
      BY <2>1, <2>2, <2>3
    <3> QED BY <2>1, <2>2, <3>1, FieldIs
  <2> QED BY <2>3
<1>4. ASSUME NEW a \in {<<>>, <<0, 65>>} PROVE IsField([kind |-> "string", width |-> 1, value |-> a])
  <2>1. <<>> \in Seq(Byte) /\ <<0, 65>> \in Seq(Byte) /\ Len(<<>>) = 0 /\ Len(<<0, 65>>) = 2
    BY DEF Byte
  <2>2. a \in Seq(Byte) /\ Len(a) <= 8
    <3>1. CASE a = <<>>
      BY <2>1, <3>1
    <3>2. CASE a = <<0, 65>>
      BY <2>1, <3>2
    <3> QED BY <3>1, <3>2
  <2>3. ASSUME NEW w, w = 1 PROVE IsField([kind |-> "string", width |-> w, value |-> a])
    <3>1. w \in Nat \ {0} /\ w = 1
      BY <2>2, <2>3
    <3> QED BY <2>2, <3>1, FieldIs
  <2> QED BY <2>3
<1> QED BY <1>1, <1>2, <1>3, <1>4 DEF Fields

\* Every message that the run picks gives back its fields.
THEOREM RoundTripHolds == MCSpec => []RoundTrip
<1>1. MCInit => RoundTrip
  <2> SUFFICES ASSUME input \in [kind : {"fields"}, size : {3, 9, 14, 64}, fields : FieldLists]
               PROVE  FieldsReturn(input.size, input.fields)
    BY DEF MCInit, RoundTrip, None
  <2>1. input.size \in Nat /\ 2 <= input.size /\ input.size < Limit
    BY DEF Limit
  <2>2. PICK n \in 1..3 : input.fields \in [1..n -> Fields]
    BY DEF FieldLists
  <2>3. input.fields \in Seq(Fields)
    BY <2>2
  <2> QED BY <2>1, <2>3, FieldsAreFields, FieldsAlwaysReturn
<1>2. RoundTrip /\ [Channel(Next)]_<<vars, input>> => RoundTrip'
  BY DEF RoundTrip, Channel
<1> QED BY <1>1, <1>2, PTL DEF MCSpec

-----------------------------------------------------------------------------
(* CMD_LOGOUT                                                              *)

\* e is d with v behind it: what stood in d still does.
Longer(d, v, e) ==
  /\ e \in Seq(Byte) /\ Len(e) = Len(d) + Len(v) /\ Stands(e, Len(d), v)
  /\ \A p \in Nat, t \in Seq(Byte) : Stands(d, p, t) => Stands(e, p, t)

\* A value that fits is appended.
LEMMA ValueWritten ==
  ASSUME NEW size \in Nat, NEW d \in Seq(Byte), NEW v \in Seq(Byte), Len(d) + Len(v) <= size,
         NEW s, s = [size |-> size, data |-> d]
  PROVE  \E e : S!Write(s, v) = [size |-> size, data |-> e] /\ Longer(d, v, e)
<1>1. s.size = size /\ s.data = d
  OBVIOUS
<1>2. S!CanWrite(s, Len(v))
  BY <1>1, IntIsLess DEF S!CanWrite
<1>3. S!Write(s, v) = [s EXCEPT !.data = d \o v]
  BY <1>1, <1>2 DEF S!Write
<1>4. S!Write(s, v) = [size |-> size, data |-> d \o v]
  BY <1>3, Appended
<1> QED BY <1>4, StandsLast DEF Longer

\* An array in a message.
ArrayCode(a, w) == S!Bytes(Len(a) \div w, 4) \o a

LEMMA ArrayIsBytes ==
  ASSUME NEW a \in Seq(Byte), NEW w \in Nat \ {0}, Whole(Len(a), w), Len(a) < Limit
  PROVE  ArrayCode(a, w) \in Seq(Byte) /\ Len(ArrayCode(a, w)) = Len(a) + 4
<1> DEFINE n == Len(a) \div w
           b == S!Bytes(n, 4)
<1>1. n \in Nat /\ n < Limit
  <2>1. n \in Nat /\ n <= Len(a) /\ Len(a) \in Nat
    BY Quotient
  <2> QED BY <2>1, LimitNat
<1>2. b \in Seq(Byte) /\ Len(b) = 4
  BY <1>1, FourBytes
<1> HIDE DEF b
<1>3. b \o a \in Seq(Byte) /\ Len(b \o a) = Len(b) + Len(a)
  BY <1>2, Concat
<1>4. ArrayCode(a, w) = b \o a
  BY DEF ArrayCode, b
<1> QED BY <1>2, <1>3, <1>4

\* An array that fits is appended, one that does not changes nothing.
LEMMA ArrayWritten ==
  ASSUME NEW size \in Nat, size < Limit, NEW d \in Seq(Byte), NEW a \in Seq(Byte), NEW w \in Nat \ {0},
         Whole(Len(a), w), Len(d) + (Len(a) + 4) <= size, NEW s, s = [size |-> size, data |-> d]
  PROVE  \E e : S!WriteArray(s, a, w) = [size |-> size, data |-> e] /\ Longer(d, ArrayCode(a, w), e)
<1> DEFINE n == Len(a) \div w
           b == S!Bytes(n, 4)
           c == ArrayCode(a, w)
<1>0. Len(a) \in Nat /\ Len(a) < Limit
  BY LimitNat
<1>1. n \in Nat /\ n < Limit
  <2>1. n \in Nat /\ n <= Len(a)
    BY <1>0, Quotient
  <2> QED BY <1>0, <2>1, LimitNat
<1>2. b \in Seq(Byte)
  BY <1>1, FourBytes
<1>3. s.size = size /\ s.data = d
  OBVIOUS
<1>4. S!CanWrite(s, Len(a) + 4)
  <2>1. S!AsInt(Len(a) + 4) \in Int /\ S!AsInt(Len(a) + 4) <= Len(a) + 4
    BY IntIsLess
  <2> QED BY <1>3, <2>1 DEF S!CanWrite
<1>5. S!WriteArray(s, a, w) = [s EXCEPT !.data = (d \o b) \o a]
  BY <1>3, <1>4 DEF S!WriteArray
<1> HIDE DEF b, c
<1>6. (d \o b) \o a = d \o (b \o a)
  BY <1>2
<1>7. c = b \o a
  BY DEF b, c, ArrayCode
<1>8. S!WriteArray(s, a, w) = [size |-> size, data |-> d \o c]
  BY <1>5, <1>6, <1>7, Appended
<1>9. c \in Seq(Byte) /\ Len(c) = Len(a) + 4
  BY <1>0, ArrayIsBytes DEF c
<1> QED BY <1>8, <1>9, StandsLast DEF Longer, c

LEMMA ArrayLeftOut ==
  ASSUME NEW size \in Nat, NEW d \in Seq(Byte), NEW a \in Seq(Byte), NEW w, ~ (Len(d) + (Len(a) + 4) <= size),
         Len(a) < Limit, NEW s, s = [size |-> size, data |-> d]
  PROVE  S!WriteArray(s, a, w) = s
<1>1. ~S!CanWrite(s, Len(a) + 4)
  <2>1. Len(a) + 4 \in Nat /\ Len(a) + 4 <= 2147483647
    BY DEF Limit
  <2>2. S!AsInt(Len(a) + 4) = Len(a) + 4
    BY <2>1, IntIsLess
  <2> QED BY <2>2 DEF S!CanWrite
<1> QED BY <1>1 DEF S!WriteArray

\* An array that stands in front of a reader is read if it is not too long.
LEMMA ArrayRead ==
  ASSUME NEW m \in Seq(Byte), NEW p \in Nat, NEW a \in Seq(Byte), NEW w \in Nat \ {0}, Whole(Len(a), w),
         Len(a) < Limit, Stands(m, p, ArrayCode(a, w)), NEW r, r = [data |-> m, pos |-> p], NEW cap \in Nat
  PROVE  /\ S!Count(r) = Len(a) \div w
         /\ Len(a) \div w <= cap => /\ S!ReadArray(r, cap, w) = a
                                    /\ S!AfterReadArray(r, cap, w) = [data |-> m, pos |-> p + (Len(a) + 4)]
<1> DEFINE n == Len(a) \div w
<1>1. n \in Nat /\ n < Limit /\ n * w = Len(a)
  BY Quotient, LimitNat
<1>2. Stands(m, p, S!Bytes(n, 4) \o a)
  BY DEF ArrayCode
<1> HIDE DEF n
<1>3. /\ S!Count(r) = n /\ S!CanRead(r, Len(a) + 4) /\ S!Ahead(S!Skip(r, 4), Len(a)) = a
      /\ S!Skip(r, 4 + Len(a)) = [data |-> m, pos |-> p + (Len(a) + 4)]
  BY <1>1, <1>2, ArrayFound
<1>4. ASSUME n <= cap
      PROVE  /\ S!ReadArray(r, cap, w) = a
             /\ S!AfterReadArray(r, cap, w) = [data |-> m, pos |-> p + (Len(a) + 4)]
  <2>1. S!ArrayFits(r, cap, w)
    BY <1>1, <1>3, <1>4 DEF S!ArrayFits
  <2> QED BY <1>1, <1>3, <2>1 DEF S!ReadArray, S!AfterReadArray
<1> QED BY <1>3, <1>4 DEF n

\* An array that is too long is not read, nor is any from there on.
LEMMA TooLong ==
  ASSUME NEW r, NEW cap \in Nat, NEW w, S!Count(r) \in Nat, S!Count(r) > cap
  PROVE  S!ReadArray(r, cap, w) = <<>> /\ S!AfterReadArray(r, cap, w) = r
<1>1. ~S!ArrayFits(r, cap, w)
  BY DEF S!ArrayFits
<1> QED BY <1>1 DEF S!ReadArray, S!AfterReadArray

\* At the end of the message there is nothing left to read.
LEMMA NothingLeft ==
  ASSUME NEW m \in Seq(Byte), NEW r, r = [data |-> m, pos |-> Len(m)], NEW cap, NEW w \in Nat
  PROVE  S!ReadArray(r, cap, w) = <<>>
<1>1. ~S!CanRead(r, 4)
  BY IntIsLess DEF S!CanRead
<1> DEFINE z == [i \in 1..4 |-> 0]
<1>2. S!Peek(r, 4) = z
  BY <1>1 DEF S!Peek
<1>3. S!Count(r) = 0
  <2>1. Len(z) = 4 /\ z[1] = 0 /\ z[2] = 0 /\ z[3] = 0 /\ z[4] = 0
    OBVIOUS
  <2> HIDE DEF z
  <2>2. S!Number(z) = 0
    BY <2>1 DEF S!Number
  <2> QED BY <1>2, <2>2 DEF S!Count
<1>4. ~S!ArrayFits(r, cap, w)
  BY <1>1, <1>3 DEF S!ArrayFits
<1> QED BY <1>4 DEF S!ReadArray

\* The five values of a message and where they stand.
AreValues(v) ==
  /\ v = <<v[1], v[2], v[3], v[4], v[5]>> /\ \A i \in 1..5 : v[i] \in Seq(Byte)
  /\ Len(v[1]) = 1 /\ Len(v[2]) = 2 /\ Len(v[3]) = 4 /\ Len(v[4]) = 4 /\ Len(v[5]) = 8

ValuesStand(d, cmd, v) ==
  /\ Stands(d, 2, S!Bytes(cmd, 2)) /\ Stands(d, 4, v[1]) /\ Stands(d, 5, v[2])
  /\ Stands(d, 7, v[3]) /\ Stands(d, 11, v[4]) /\ Stands(d, 15, v[5])

LEMMA StreamStarts ==
  ASSUME NEW size \in Nat, 2 <= size
  PROVE  \E d \in Seq(Byte) : S!WriteStream(size) = [size |-> size, data |-> d] /\ Len(d) = 2
<1> DEFINE b == S!Bytes(0, 2)
<1>1. b \in Seq(Byte) /\ Len(b) = 2
  BY TwoBytes, LimitNat DEF Limit
<1> HIDE DEF b
<1> DEFINE s == [size |-> size, data |-> <<>>]
<1>2. S!CanWrite(s, Len(b))
  BY <1>1, IntIsLess DEF S!CanWrite
<1>3. S!WriteStream(size) = [s EXCEPT !.data = <<>> \o b]
  BY <1>2 DEF S!WriteStream, S!Write, b
<1>4. <<>> \o b = b
  BY <1>1
<1> QED BY <1>1, <1>3, <1>4

LEMMA ValuesWritten ==
  ASSUME NEW size \in Nat, 23 <= size, NEW cmd \in Nat, cmd < Limit, NEW v, AreValues(v)
  PROVE  \E d \in Seq(Byte) :
           /\ S!WithValues(S!Write(S!WriteStream(size), S!Bytes(cmd, 2)), v) = [size |-> size, data |-> d]
           /\ Len(d) = 23 /\ ValuesStand(d, cmd, v)
<1> DEFINE c == S!Bytes(cmd, 2)
<1>1. c \in Seq(Byte) /\ Len(c) = 2
  BY TwoBytes
<1> HIDE DEF c
<1>2. /\ v[1] \in Seq(Byte) /\ v[2] \in Seq(Byte) /\ v[3] \in Seq(Byte) /\ v[4] \in Seq(Byte) /\ v[5] \in Seq(Byte)
      /\ Len(v[1]) = 1 /\ Len(v[2]) = 2 /\ Len(v[3]) = 4 /\ Len(v[4]) = 4 /\ Len(v[5]) = 8
  BY DEF AreValues
<1> DEFINE s0 == S!WriteStream(size)
           s1 == S!Write(s0, c)
           s2 == S!Write(s1, v[1])
           s3 == S!Write(s2, v[2])
           s4 == S!Write(s3, v[3])
           s5 == S!Write(s4, v[4])
           s6 == S!Write(s5, v[5])
<1>3. S!WithValues(S!Write(S!WriteStream(size), c), v) = s6
  BY DEF S!WithValues
<1> HIDE DEF s0, s1, s2, s3, s4, s5, s6
<1>4. PICK d0 \in Seq(Byte) : s0 = [size |-> size, data |-> d0] /\ Len(d0) = 2
  BY StreamStarts DEF s0
<1>5. PICK d1 : s1 = [size |-> size, data |-> d1] /\ Longer(d0, c, d1)
  <2>1. Len(d0) + Len(c) <= size
    BY <1>1, <1>2, <1>4
  <2> QED BY <1>1, <1>2, <1>4, <2>1, ValueWritten DEF s1
<1>6. d1 \in Seq(Byte) /\ Len(d1) = 4 /\ Stands(d1, 2, c)
  BY <1>1, <1>2, <1>4, <1>5 DEF Longer
<1>7. PICK d2 : s2 = [size |-> size, data |-> d2] /\ Longer(d1, v[1], d2)
  <2>1. Len(d1) + Len(v[1]) <= size
    BY <1>1, <1>2, <1>6
  <2> QED BY <1>1, <1>2, <1>5, <1>6, <2>1, ValueWritten DEF s2
<1>8. d2 \in Seq(Byte) /\ Len(d2) = 5 /\ Stands(d2, 2, c) /\ Stands(d2, 4, v[1])
  BY <1>1, <1>2, <1>6, <1>7 DEF Longer
<1>9. PICK d3 : s3 = [size |-> size, data |-> d3] /\ Longer(d2, v[2], d3)
  <2>1. Len(d2) + Len(v[2]) <= size
    BY <1>1, <1>2, <1>8
  <2> QED BY <1>1, <1>2, <1>7, <1>8, <2>1, ValueWritten DEF s3
<1>10. d3 \in Seq(Byte) /\ Len(d3) = 7 /\ Stands(d3, 2, c) /\ Stands(d3, 4, v[1]) /\ Stands(d3, 5, v[2])
  BY <1>1, <1>2, <1>8, <1>9 DEF Longer
<1>11. PICK d4 : s4 = [size |-> size, data |-> d4] /\ Longer(d3, v[3], d4)
  <2>1. Len(d3) + Len(v[3]) <= size
    BY <1>1, <1>2, <1>10
  <2> QED BY <1>1, <1>2, <1>9, <1>10, <2>1, ValueWritten DEF s4
<1>12. d4 \in Seq(Byte) /\ Len(d4) = 11 /\ Stands(d4, 2, c) /\ Stands(d4, 4, v[1]) /\ Stands(d4, 5, v[2]) /\ Stands(d4, 7, v[3])
  BY <1>1, <1>2, <1>10, <1>11 DEF Longer
<1>13. PICK d5 : s5 = [size |-> size, data |-> d5] /\ Longer(d4, v[4], d5)
  <2>1. Len(d4) + Len(v[4]) <= size
    BY <1>1, <1>2, <1>12
  <2> QED BY <1>1, <1>2, <1>11, <1>12, <2>1, ValueWritten DEF s5
<1>14. d5 \in Seq(Byte) /\ Len(d5) = 15 /\ Stands(d5, 2, c) /\ Stands(d5, 4, v[1]) /\ Stands(d5, 5, v[2]) /\ Stands(d5, 7, v[3]) /\ Stands(d5, 11, v[4])
  BY <1>1, <1>2, <1>12, <1>13 DEF Longer
<1>15. PICK d6 : s6 = [size |-> size, data |-> d6] /\ Longer(d5, v[5], d6)
  <2>1. Len(d5) + Len(v[5]) <= size
    BY <1>1, <1>2, <1>14
  <2> QED BY <1>1, <1>2, <1>13, <1>14, <2>1, ValueWritten DEF s6
<1>16. d6 \in Seq(Byte) /\ Len(d6) = 23 /\ Stands(d6, 2, c) /\ Stands(d6, 4, v[1]) /\ Stands(d6, 5, v[2]) /\ Stands(d6, 7, v[3]) /\ Stands(d6, 11, v[4]) /\ Stands(d6, 15, v[5])
  BY <1>1, <1>2, <1>14, <1>15 DEF Longer
<1> QED BY <1>3, <1>15, <1>16 DEF ValuesStand, c

\* The two names and the array of a request.
AreArrays(q) ==
  /\ q.name \in Seq(Byte) /\ q.pw \in Seq(Byte) /\ q.ata \in Seq(Byte)
  /\ Len(q.name) < Limit /\ Len(q.pw) < Limit /\ Len(q.ata) < Limit
  /\ Whole(Len(q.name), 1) /\ Whole(Len(q.pw), 1) /\ Whole(Len(q.ata), 4)

\* m is the message of q: its two names, and its array or the end.
IsMessage(m, cmd, q) ==
  /\ m \in Seq(Byte) /\ S!ReadStream(m) = [data |-> m, pos |-> 0] /\ S!Number(SubSeq(m, 1, 2)) = Len(m)
  /\ ValuesStand(m, cmd, q.values)
  /\ Stands(m, 23, ArrayCode(q.name, 1)) /\ Stands(m, 27 + Len(q.name), ArrayCode(q.pw, 1))
  /\ LET p == 31 + (Len(q.name) + Len(q.pw))
     IN Stands(m, p, ArrayCode(q.ata, 4)) \/ Len(m) = p

LEMMA MessageWritten ==
  ASSUME NEW size \in Nat, size < Limit, NEW cmd \in Nat, cmd < Limit, NEW q, AreValues(q.values), AreArrays(q),
         31 + (Len(q.name) + Len(q.pw)) <= size
  PROVE  IsMessage(S!LogoutStream(size, cmd, q).data, cmd, q)
<1> DEFINE c == S!Bytes(cmd, 2)
           v == q.values
           name == q.name
           pw == q.pw
           ata == q.ata
           nc == ArrayCode(name, 1)
           kc == ArrayCode(pw, 1)
           ac == ArrayCode(ata, 4)
           s0 == S!WithValues(S!Write(S!WriteStream(size), c), v)
           s1 == S!WriteArray(s0, name, 1)
           s2 == S!WriteArray(s1, pw, 1)
           s3 == S!WriteArray(s2, ata, 4)
           p == 31 + (Len(name) + Len(pw))
<1>1. S!LogoutStream(size, cmd, q) = S!Finsh(s3)
  BY DEF S!LogoutStream, S!WithArrays
<1>2. /\ name \in Seq(Byte) /\ pw \in Seq(Byte) /\ ata \in Seq(Byte)
      /\ Len(name) \in Nat /\ Len(pw) \in Nat /\ Len(ata) \in Nat
      /\ Len(name) < Limit /\ Len(pw) < Limit /\ Len(ata) < Limit
      /\ Whole(Len(name), 1) /\ Whole(Len(pw), 1) /\ Whole(Len(ata), 4)
  BY DEF AreArrays
<1>3. /\ c \in Seq(Byte) /\ v[1] \in Seq(Byte) /\ v[2] \in Seq(Byte) /\ v[3] \in Seq(Byte)
      /\ v[4] \in Seq(Byte) /\ v[5] \in Seq(Byte)
  BY TwoBytes DEF AreValues
<1>4. AreValues(v) /\ p <= size /\ 1 \in Nat \ {0} /\ 4 \in Nat \ {0}
  <2>1. AreValues(v) /\ p <= size
    OBVIOUS
  <2>2. 1 \in Nat \ {0} /\ 4 \in Nat \ {0}
    OBVIOUS
  <2> HIDE DEF v, p
  <2> QED BY <2>1, <2>2
<1> HIDE DEF v, name, pw, ata
<1>5. /\ nc \in Seq(Byte) /\ Len(nc) = Len(name) + 4
      /\ kc \in Seq(Byte) /\ Len(kc) = Len(pw) + 4
      /\ ac \in Seq(Byte) /\ Len(ac) = Len(ata) + 4
  BY <1>2, <1>4, ArrayIsBytes
<1>6. PICK d0 \in Seq(Byte) : s0 = [size |-> size, data |-> d0] /\ Len(d0) = 23 /\ ValuesStand(d0, cmd, v)
  <2>1. 23 <= size
    BY <1>2, <1>4
  <2> QED BY <1>4, <2>1, ValuesWritten
<1> HIDE DEF s0, s1, s2, s3
<1>7. PICK d1 : s1 = [size |-> size, data |-> d1] /\ Longer(d0, nc, d1)
  <2>1. Len(d0) + (Len(name) + 4) <= size
    BY <1>2, <1>4, <1>6
  <2> QED BY <1>2, <1>4, <1>6, <2>1, ArrayWritten DEF s1
<1> HIDE DEF nc, kc, ac
<1>8. d1 \in Seq(Byte) /\ Len(d1) = 27 + Len(name) /\ Stands(d1, 23, nc)
  BY <1>2, <1>5, <1>6, <1>7 DEF Longer
<1>9. PICK d2 : s2 = [size |-> size, data |-> d2] /\ Longer(d1, kc, d2)
  <2>1. Len(d1) + (Len(pw) + 4) <= size
    BY <1>2, <1>4, <1>8
  <2> QED BY <1>2, <1>4, <1>7, <1>8, <2>1, ArrayWritten DEF s2, kc
<1>10. d2 \in Seq(Byte) /\ Len(d2) = p /\ Stands(d2, 23, nc) /\ Stands(d2, 27 + Len(name), kc)
  <2>1. d2 \in Seq(Byte) /\ Len(d2) = p
    BY <1>2, <1>5, <1>8, <1>9 DEF Longer
  <2>2. Stands(d2, Len(d1), kc)
    BY <1>9 DEF Longer
  <2>3. Stands(d2, 23, nc)
    BY <1>5, <1>8, <1>9 DEF Longer
  <2> QED BY <1>8, <2>1, <2>2, <2>3
<1>11. PICK d3 \in Seq(Byte) :
         /\ s3 = [size |-> size, data |-> d3] /\ p <= Len(d3) /\ Len(d3) <= size
         /\ Stands(d3, p, ac) \/ Len(d3) = p
         /\ \A i \in Nat, t \in Seq(Byte) : Stands(d2, i, t) => Stands(d3, i, t)
  <2>1. CASE Len(d2) + (Len(ata) + 4) <= size
    <3>1. PICK e : s3 = [size |-> size, data |-> e] /\ Longer(d2, ac, e)
      BY <1>2, <1>4, <1>9, <1>10, <2>1, ArrayWritten DEF s3, ac
    <3>2. e \in Seq(Byte) /\ Len(e) = p + (Len(ata) + 4) /\ Stands(e, p, ac)
      BY <1>5, <1>10, <3>1 DEF Longer
    <3>3. \A i \in Nat, t \in Seq(Byte) : Stands(d2, i, t) => Stands(e, i, t)
      BY <3>1 DEF Longer
    <3>4. p <= Len(e) /\ Len(e) <= size
      BY <1>2, <1>10, <2>1, <3>2
    <3> QED BY <3>1, <3>2, <3>3, <3>4
  <2>2. CASE ~ (Len(d2) + (Len(ata) + 4) <= size)
    <3>1. s3 = s2
      BY <1>2, <1>9, <1>10, <2>2, ArrayLeftOut DEF s3
    <3> HIDE DEF p
    <3> QED BY <1>4, <1>9, <1>10, <3>1
  <2> QED BY <2>1, <2>2
<1> HIDE DEF c, p
<1>12. p \in Nat /\ 2 <= p
  BY <1>2 DEF p
<1>13. PICK m \in Seq(Byte) : /\ S!Finsh(s3).data = m /\ Len(m) = Len(d3) /\ \A i \in 3..Len(d3) : m[i] = d3[i]
                              /\ S!ReadStream(m) = [data |-> m, pos |-> 0] /\ S!Number(SubSeq(m, 1, 2)) = Len(m)
  <2>1. 2 <= size /\ 2 <= Len(d3)
    BY <1>4, <1>11, <1>12
  <2> QED BY <1>11, <2>1, Finished
<1>14. \A i \in Nat, t \in Seq(Byte) : i >= 2 /\ Stands(d3, i, t) => Stands(m, i, t)
  BY <1>13, StandsStill
<1>15. ASSUME NEW i \in Nat, i >= 2, NEW t \in Seq(Byte), Stands(d0, i, t) PROVE Stands(m, i, t)
  <2>1. Stands(d1, i, t)
    BY <1>7, <1>15 DEF Longer
  <2>2. Stands(d2, i, t)
    BY <1>9, <2>1 DEF Longer
  <2> QED BY <1>11, <1>14, <1>15, <2>2
<1>16. ValuesStand(m, cmd, v)
  <2>1. /\ Stands(d0, 2, c) /\ Stands(d0, 4, v[1]) /\ Stands(d0, 5, v[2])
        /\ Stands(d0, 7, v[3]) /\ Stands(d0, 11, v[4]) /\ Stands(d0, 15, v[5])
    BY <1>6 DEF ValuesStand, c
  <2>2. Stands(m, 2, c)
    BY <1>3, <1>15, <2>1
  <2>3. Stands(m, 4, v[1]) /\ Stands(m, 5, v[2]) /\ Stands(m, 7, v[3])
    BY <1>3, <1>15, <2>1
  <2>4. Stands(m, 11, v[4]) /\ Stands(m, 15, v[5])
    BY <1>3, <1>15, <2>1
  <2> QED BY <2>2, <2>3, <2>4 DEF ValuesStand, c
<1>17. Stands(m, 23, nc) /\ Stands(m, 27 + Len(name), kc)
  BY <1>2, <1>5, <1>10, <1>11, <1>14
<1>18. Stands(m, p, ac) \/ Len(m) = p
  BY <1>5, <1>11, <1>12, <1>13, <1>14
<1> QED BY <1>1, <1>13, <1>16, <1>17, <1>18 DEF IsMessage, nc, kc, ac, name, pw, ata, v, p

\* The reader where the first name stands, and the values on the way there.
LEMMA ValuesRead ==
  ASSUME NEW cmd \in Nat, cmd < Limit, NEW q, AreValues(q.values), NEW m, IsMessage(m, cmd, q)
  PROVE  LET v == q.values
             r1 == S!AfterRead(S!AfterRead(S!ReadStream(m), 2), 2)
             r2 == S!AfterRead(r1, 1)
             r3 == S!AfterRead(r2, 2)
             r4 == S!AfterRead(r3, 4)
             r5 == S!AfterRead(r4, 4)
         IN /\ <<S!Peek(r1, 1), S!Peek(r2, 2), S!Peek(r3, 4), S!Peek(r4, 4), S!Peek(r5, 8)>> = v
            /\ S!AfterRead(r5, 8) = [data |-> m, pos |-> 23]
<1> DEFINE v == q.values
           c == S!Bytes(cmd, 2)
           r0 == S!AfterRead(S!ReadStream(m), 2)
           r1 == S!AfterRead(r0, 2)
           r2 == S!AfterRead(r1, 1)
           r3 == S!AfterRead(r2, 2)
           r4 == S!AfterRead(r3, 4)
           r5 == S!AfterRead(r4, 4)
           r6 == S!AfterRead(r5, 8)
<1>1. m \in Seq(Byte) /\ S!ReadStream(m) = [data |-> m, pos |-> 0] /\ ValuesStand(m, cmd, v)
  BY DEF IsMessage
<1>2. /\ Stands(m, 2, c) /\ Stands(m, 4, v[1]) /\ Stands(m, 5, v[2])
      /\ Stands(m, 7, v[3]) /\ Stands(m, 11, v[4]) /\ Stands(m, 15, v[5])
  BY <1>1 DEF ValuesStand
<1>3. c \in Seq(Byte)
  BY TwoBytes
<1>4. Len(c) = 2
  BY TwoBytes
<1>5. /\ v[1] \in Seq(Byte) /\ v[2] \in Seq(Byte) /\ v[3] \in Seq(Byte) /\ v[4] \in Seq(Byte) /\ v[5] \in Seq(Byte)
  BY DEF AreValues
<1>6. Len(v[1]) = 1 /\ Len(v[2]) = 2 /\ Len(v[3]) = 4 /\ Len(v[4]) = 4 /\ Len(v[5]) = 8
  BY DEF AreValues
<1>7. v = <<v[1], v[2], v[3], v[4], v[5]>>
  BY DEF AreValues
<1> HIDE DEF v, c
<1>8. r0 = [data |-> m, pos |-> 2]
  <2>1. 2 <= Len(m) /\ Len(m) \in Nat
    BY <1>1, <1>2, <1>3, <1>4 DEF Stands
  <2> QED BY <1>1, <2>1, LengthSkipped
<1> HIDE DEF r0, r1, r2, r3, r4, r5, r6
<1>9. r1 = [data |-> m, pos |-> 4]
  <2>1. S!AfterRead(r0, Len(c)) = [data |-> m, pos |-> 2 + Len(c)]
    BY <1>1, <1>2, <1>3, <1>8, ReaderFinds
  <2> QED BY <1>4, <2>1 DEF r1
<1>10. S!Peek(r1, 1) = v[1] /\ r2 = [data |-> m, pos |-> 5]
  <2>1. S!Peek(r1, Len(v[1])) = v[1] /\ S!AfterRead(r1, Len(v[1])) = [data |-> m, pos |-> 4 + Len(v[1])]
    BY <1>1, <1>2, <1>5, <1>9, ReaderFinds
  <2> QED BY <1>6, <2>1 DEF r2
<1>11. S!Peek(r2, 2) = v[2] /\ r3 = [data |-> m, pos |-> 7]
  <2>1. S!Peek(r2, Len(v[2])) = v[2] /\ S!AfterRead(r2, Len(v[2])) = [data |-> m, pos |-> 5 + Len(v[2])]
    BY <1>1, <1>2, <1>5, <1>10, ReaderFinds
  <2> QED BY <1>6, <2>1 DEF r3
<1>12. S!Peek(r3, 4) = v[3] /\ r4 = [data |-> m, pos |-> 11]
  <2>1. S!Peek(r3, Len(v[3])) = v[3] /\ S!AfterRead(r3, Len(v[3])) = [data |-> m, pos |-> 7 + Len(v[3])]
    BY <1>1, <1>2, <1>5, <1>11, ReaderFinds
  <2> QED BY <1>6, <2>1 DEF r4
<1>13. S!Peek(r4, 4) = v[4] /\ r5 = [data |-> m, pos |-> 15]
  <2>1. S!Peek(r4, Len(v[4])) = v[4] /\ S!AfterRead(r4, Len(v[4])) = [data |-> m, pos |-> 11 + Len(v[4])]
    BY <1>1, <1>2, <1>5, <1>12, ReaderFinds
  <2> QED BY <1>6, <2>1 DEF r5
<1>14. S!Peek(r5, 8) = v[5] /\ r6 = [data |-> m, pos |-> 23]
  <2>1. S!Peek(r5, Len(v[5])) = v[5] /\ S!AfterRead(r5, Len(v[5])) = [data |-> m, pos |-> 15 + Len(v[5])]
    BY <1>1, <1>2, <1>5, <1>13, ReaderFinds
  <2> QED BY <1>6, <2>1 DEF r6
<1>15. <<S!Peek(r1, 1), S!Peek(r2, 2), S!Peek(r3, 4), S!Peek(r4, 4), S!Peek(r5, 8)>> = v
  BY <1>7, <1>10, <1>11, <1>12, <1>13, <1>14
<1> QED BY <1>14, <1>15 DEF r0, r1, r2, r3, r4, r5, r6, v

\* An array that is read, or left.
LEMMA ArrayOrNothing ==
  ASSUME NEW m \in Seq(Byte), NEW p \in Nat, NEW a \in Seq(Byte), NEW w \in Nat \ {0}, Whole(Len(a), w),
         Len(a) < Limit, Stands(m, p, ArrayCode(a, w)), NEW r, r = [data |-> m, pos |-> p], NEW cap \in Nat
  PROVE  \/ /\ Len(a) \div w <= cap /\ S!ReadArray(r, cap, w) = a
            /\ S!AfterReadArray(r, cap, w) = [data |-> m, pos |-> p + (Len(a) + 4)]
         \/ /\ S!Count(r) \in Nat /\ S!Count(r) > cap
            /\ S!ReadArray(r, cap, w) = <<>> /\ S!AfterReadArray(r, cap, w) = r
<1>1. /\ S!Count(r) = Len(a) \div w
      /\ Len(a) \div w <= cap => /\ S!ReadArray(r, cap, w) = a
                                 /\ S!AfterReadArray(r, cap, w) = [data |-> m, pos |-> p + (Len(a) + 4)]
  BY ArrayRead
<1>2. Len(a) \div w \in Nat
  BY Quotient
<1>3. CASE Len(a) \div w <= cap
  BY <1>1, <1>3
<1>4. CASE ~ (Len(a) \div w <= cap)
  <2>1. S!Count(r) \in Nat /\ S!Count(r) > cap
    BY <1>1, <1>2, <1>4
  <2> QED BY <2>1, TooLong
<1> QED BY <1>3, <1>4

LEMMA EmptyArray == <<>> \in Seq(Byte) /\ Len(<<>>) = 0 /\ Whole(0, 1) /\ Whole(0, 4) /\ 0 < Limit
<1>1. 0 = 0 * 1 /\ 0 = 0 * 4 /\ 0 \in Nat
  OBVIOUS
<1>2. 0 < Limit
  BY DEF Limit
<1> QED BY <1>1, <1>2 DEF Whole

\* What the handler reads of a message is what was written, each array or none.
LEMMA MessageRead ==
  ASSUME NEW cmd \in Nat, cmd < Limit, NEW q, AreValues(q.values), AreArrays(q), NEW m, IsMessage(m, cmd, q)
  PROVE  LET f == S!LogoutFields(m)
         IN /\ f.values = q.values /\ AreArrays(f) /\ Len(f.name) <= 32 /\ Len(f.pw) <= 32
            /\ IsOrEmpty(f.name, q.name) /\ IsOrEmpty(f.pw, q.pw) /\ IsOrEmpty(f.ata, q.ata)
<1> DEFINE name == q.name
           pw == q.pw
           ata == q.ata
           r1 == S!AfterRead(S!AfterRead(S!ReadStream(m), 2), 2)
           r2 == S!AfterRead(r1, 1)
           r3 == S!AfterRead(r2, 2)
           r4 == S!AfterRead(r3, 4)
           r5 == S!AfterRead(r4, 4)
           rName == S!AfterRead(r5, 8)
           rPw == S!AfterReadArray(rName, 32, 1)
           rAta == S!AfterReadArray(rPw, 32, 1)
           values == <<S!Peek(r1, 1), S!Peek(r2, 2), S!Peek(r3, 4), S!Peek(r4, 4), S!Peek(r5, 8)>>
           fName == S!ReadArray(rName, 32, 1)
           fPw == S!ReadArray(rPw, 32, 1)
           fAta == S!ReadArray(rAta, 10, 4)
           p == 27 + Len(name)
           o == 31 + (Len(name) + Len(pw))
<1>1. S!LogoutFields(m) = [values |-> values, name |-> fName, pw |-> fPw, ata |-> fAta]
  BY DEF S!LogoutFields
<1>2. values = q.values /\ rName = [data |-> m, pos |-> 23]
  BY ValuesRead
<1>3. /\ name \in Seq(Byte) /\ pw \in Seq(Byte) /\ ata \in Seq(Byte)
      /\ Len(name) \in Nat /\ Len(pw) \in Nat /\ Len(ata) \in Nat
      /\ Len(name) < Limit /\ Len(pw) < Limit /\ Len(ata) < Limit
      /\ Whole(Len(name), 1) /\ Whole(Len(pw), 1) /\ Whole(Len(ata), 4)
  BY DEF AreArrays
<1>4. /\ m \in Seq(Byte) /\ Stands(m, 23, ArrayCode(name, 1)) /\ Stands(m, p, ArrayCode(pw, 1))
      /\ Stands(m, o, ArrayCode(ata, 4)) \/ Len(m) = o
  BY DEF IsMessage
<1> HIDE DEF name, pw, ata, r1, r2, r3, r4, r5, rName, rPw, rAta, values, fName, fPw, fAta
<1>5. Len(name) \div 1 = Len(name) /\ Len(pw) \div 1 = Len(pw) /\ p \in Nat /\ o \in Nat
  BY <1>3
<1> HIDE DEF p, o
<1>6. \/ Len(name) <= 32 /\ fName = name /\ rPw = [data |-> m, pos |-> p]
      \/ S!Count(rName) \in Nat /\ S!Count(rName) > 32 /\ fName = <<>> /\ rPw = rName
  <2>1. \/ /\ Len(name) \div 1 <= 32 /\ S!ReadArray(rName, 32, 1) = name
           /\ S!AfterReadArray(rName, 32, 1) = [data |-> m, pos |-> 23 + (Len(name) + 4)]
        \/ /\ S!Count(rName) \in Nat /\ S!Count(rName) > 32
           /\ S!ReadArray(rName, 32, 1) = <<>> /\ S!AfterReadArray(rName, 32, 1) = rName
    BY <1>2, <1>3, <1>4, ArrayOrNothing
  <2>2. 23 + (Len(name) + 4) = p
    BY <1>3 DEF p
  <2> QED BY <1>5, <2>1, <2>2 DEF fName, rPw
<1>7. \/ Len(pw) <= 32 /\ fPw = pw /\ rAta = [data |-> m, pos |-> o]
      \/ S!Count(rAta) \in Nat /\ S!Count(rAta) > 32 /\ fPw = <<>>
  <2>1. CASE S!Count(rName) \in Nat /\ S!Count(rName) > 32 /\ rPw = rName
    <3>1. fPw = <<>> /\ rAta = rPw
      BY <2>1, TooLong DEF fPw, rAta
    <3> QED BY <2>1, <3>1
  <2>2. CASE rPw = [data |-> m, pos |-> p]
    <3>1. \/ /\ Len(pw) \div 1 <= 32 /\ S!ReadArray(rPw, 32, 1) = pw
             /\ S!AfterReadArray(rPw, 32, 1) = [data |-> m, pos |-> p + (Len(pw) + 4)]
          \/ /\ S!Count(rPw) \in Nat /\ S!Count(rPw) > 32
             /\ S!ReadArray(rPw, 32, 1) = <<>> /\ S!AfterReadArray(rPw, 32, 1) = rPw
      BY <1>3, <1>4, <1>5, <2>2, ArrayOrNothing
    <3>2. p + (Len(pw) + 4) = o
      BY <1>3 DEF p, o
    <3> QED BY <1>5, <3>1, <3>2 DEF fPw, rAta
  <2> QED BY <1>6, <2>1, <2>2
<1>8. fAta = ata \/ fAta = <<>>
  <2>1. CASE S!Count(rAta) \in Nat /\ S!Count(rAta) > 32
    <3>1. S!Count(rAta) > 10
      BY <2>1
    <3> QED BY <2>1, <3>1, TooLong DEF fAta
  <2>2. CASE rAta = [data |-> m, pos |-> o] /\ Stands(m, o, ArrayCode(ata, 4))
    BY <1>3, <1>4, <1>5, <2>2, ArrayOrNothing DEF fAta
  <2>3. CASE rAta = [data |-> m, pos |-> o] /\ Len(m) = o
    BY <1>4, <2>3, NothingLeft DEF fAta
  <2> QED BY <1>4, <1>7, <2>1, <2>2, <2>3
<1>9. /\ fName \in Seq(Byte) /\ Len(fName) < Limit /\ Whole(Len(fName), 1) /\ Len(fName) <= 32
      /\ IsOrEmpty(fName, name)
  <2>1. CASE fName = name /\ Len(name) <= 32
    BY <1>3, <2>1 DEF IsOrEmpty
  <2>2. CASE fName = <<>>
    <3>1. fName \in Seq(Byte) /\ Len(fName) = 0 /\ Whole(0, 1) /\ 0 < Limit
      BY <2>2, EmptyArray
    <3> QED BY <2>2, <3>1 DEF IsOrEmpty
  <2> QED BY <1>6, <2>1, <2>2
<1>10. /\ fPw \in Seq(Byte) /\ Len(fPw) < Limit /\ Whole(Len(fPw), 1) /\ Len(fPw) <= 32
       /\ IsOrEmpty(fPw, pw)
  <2>1. CASE fPw = pw /\ Len(pw) <= 32
    BY <1>3, <2>1 DEF IsOrEmpty
  <2>2. CASE fPw = <<>>
    <3>1. fPw \in Seq(Byte) /\ Len(fPw) = 0 /\ Whole(0, 1) /\ 0 < Limit
      BY <2>2, EmptyArray
    <3> QED BY <2>2, <3>1 DEF IsOrEmpty
  <2> QED BY <1>7, <2>1, <2>2
<1>11. fAta \in Seq(Byte) /\ Len(fAta) < Limit /\ Whole(Len(fAta), 4) /\ IsOrEmpty(fAta, ata)
  BY <1>3, <1>8, EmptyArray DEF IsOrEmpty
<1> DEFINE f == S!LogoutFields(m)
<1>12. f.values = values /\ f.name = fName /\ f.pw = fPw /\ f.ata = fAta
  BY <1>1
<1> HIDE DEF f
<1>13. AreArrays(f)
  BY <1>9, <1>10, <1>11, <1>12 DEF AreArrays
<1> QED BY <1>2, <1>9, <1>10, <1>11, <1>12, <1>13 DEF f, name, pw, ata

\* What CMD_LOGOUT is answered with is never wrong, for any request whose message
\* has room for both names, whatever its values and the lengths of its arrays:
\* too long for the server's buffers, for the message or for the answer.
THEOREM AlwaysTruthful ==
  ASSUME NEW q, AreValues(q.values), AreArrays(q), 31 + (Len(q.name) + Len(q.pw)) <= 1024
  PROVE  Truthful(q)
<1> DEFINE msg == Message(q).data
           g == S!LogoutFields(msg)
           reply == S!OnLogout(msg)
           f == S!LogoutFields(reply)
<1>1. /\ 1024 \in Nat /\ 1024 < Limit /\ 128 \in Nat /\ 128 < Limit
      /\ S!CMD_LOGOUT \in Nat /\ S!CMD_LOGOUT < Limit
      /\ S!CMD_LOGOUT_RESULT \in Nat /\ S!CMD_LOGOUT_RESULT < Limit
  BY DEF Limit, S!CMD_LOGOUT, S!CMD_LOGOUT_RESULT
<1>2. IsMessage(msg, S!CMD_LOGOUT, q)
  <2>1. IsMessage(S!LogoutStream(1024, S!CMD_LOGOUT, q).data, S!CMD_LOGOUT, q)
    <3> DEFINE size == 1024
    <3>1. size \in Nat /\ size < Limit /\ 31 + (Len(q.name) + Len(q.pw)) <= size
      BY <1>1
    <3> HIDE DEF size
    <3>2. IsMessage(S!LogoutStream(size, S!CMD_LOGOUT, q).data, S!CMD_LOGOUT, q)
      BY <1>1, <3>1, MessageWritten
    <3> QED BY <3>2 DEF size
  <2> QED BY <2>1 DEF Message
<1> HIDE DEF msg
<1>3. /\ g.values = q.values /\ AreArrays(g) /\ Len(g.name) <= 32 /\ Len(g.pw) <= 32
      /\ IsOrEmpty(g.name, q.name) /\ IsOrEmpty(g.pw, q.pw) /\ IsOrEmpty(g.ata, q.ata)
  BY <1>1, <1>2, MessageRead
<1> HIDE DEF g
<1>4. reply = S!LogoutStream(128, S!CMD_LOGOUT_RESULT, g).data
  BY DEF S!OnLogout, g
<1> HIDE DEF reply
<1>5. IsMessage(reply, S!CMD_LOGOUT_RESULT, g)
  <2>1. AreValues(g.values)
    BY <1>3
  <2>2. 31 + (Len(g.name) + Len(g.pw)) <= 128
    <3>1. Len(g.name) \in Nat /\ Len(g.pw) \in Nat
      BY <1>3 DEF AreArrays
    <3>2. Len(g.name) <= 32 /\ Len(g.pw) <= 32
      BY <1>3
    <3> DEFINE n == Len(g.name)
               k == Len(g.pw)
    <3>3. n \in Nat /\ k \in Nat /\ n <= 32 /\ k <= 32
      BY <3>1, <3>2
    <3> HIDE DEF n, k
    <3>4. 31 + (n + k) <= 128
      BY ONLY <3>3
    <3> QED BY <3>4 DEF n, k
  <2> QED BY <1>1, <1>3, <1>4, <2>1, <2>2, MessageWritten
<1>6. /\ f.values = g.values
      /\ IsOrEmpty(f.name, g.name) /\ IsOrEmpty(f.pw, g.pw) /\ IsOrEmpty(f.ata, g.ata)
  <2>1. AreValues(g.values)
    BY <1>3
  <2> QED BY <1>1, <1>3, <1>5, <2>1, MessageRead
<1> HIDE DEF f
<1>7. IsOrEmpty(f.name, q.name) /\ IsOrEmpty(f.pw, q.pw) /\ IsOrEmpty(f.ata, q.ata)
  BY <1>3, <1>6 DEF IsOrEmpty
<1>8. S!Number(SubSeq(reply, 3, 4)) = S!CMD_LOGOUT_RESULT
  <2> DEFINE c == S!Bytes(S!CMD_LOGOUT_RESULT, 2)
             r == [data |-> reply, pos |-> 2]
  <2>1. c \in Seq(Byte)
    BY <1>1, TwoBytes
  <2>2. Len(c) = 2 /\ S!Number(c) = S!CMD_LOGOUT_RESULT
    BY <1>1, TwoBytes
  <2>3. reply \in Seq(Byte) /\ Stands(reply, 2, c)
    BY <1>5 DEF IsMessage, ValuesStand
  <2> HIDE DEF c, r
  <2>4. S!Ahead(r, Len(c)) = c
    BY <2>1, <2>3, ReaderFinds DEF r
  <2>5. S!Ahead(r, 2) = SubSeq(reply, 3, 4)
    BY DEF S!Ahead, r
  <2> QED BY <2>2, <2>4, <2>5
<1>9. S!Number(SubSeq(reply, 1, 2)) = Len(reply)
  BY <1>5 DEF IsMessage
<1> QED BY <1>3, <1>6, <1>7, <1>8, <1>9 DEF Truthful, f, reply, msg

LEMMA RequestsAreRequests ==
  ASSUME NEW q \in Requests
  PROVE  AreValues(q.values) /\ AreArrays(q) /\ 31 + (Len(q.name) + Len(q.pw)) <= 1024
<1>1. q.values = <<<<1>>, <<2, 0>>, <<3, 0, 0, 0>>, <<4, 0, 0, 0>>, <<5, 0, 0, 0, 0, 0, 0, 0>>>>
  BY DEF Requests
<1>2. AreValues(q.values)
  <2> DEFINE v == q.values
  <2>1. v[1] = <<1>> /\ v[2] = <<2, 0>> /\ v[3] = <<3, 0, 0, 0>> /\ v[4] = <<4, 0, 0, 0>> /\ v[5] = <<5, 0, 0, 0, 0, 0, 0, 0>>
    BY <1>1
  <2>2. v = <<v[1], v[2], v[3], v[4], v[5]>>
    BY <1>1, <2>1
  <2> HIDE DEF v
  <2>3. v[1] \in Seq(Byte) /\ Len(v[1]) = 1
    BY <2>1 DEF Byte
  <2>4. v[2] \in Seq(Byte) /\ Len(v[2]) = 2
    BY <2>1 DEF Byte
  <2>5. v[3] \in Seq(Byte) /\ Len(v[3]) = 4
    BY <2>1 DEF Byte
  <2>6. v[4] \in Seq(Byte) /\ Len(v[4]) = 4
    BY <2>1 DEF Byte
  <2>7. v[5] \in Seq(Byte) /\ Len(v[5]) = 8
    BY <2>1 DEF Byte
  <2>8. \A i \in 1..5 : v[i] \in Seq(Byte)
    BY <2>3, <2>4, <2>5, <2>6, <2>7
  <2>9. AreValues(v)
    BY <2>2, <2>3, <2>4, <2>5, <2>6, <2>7, <2>8 DEF AreValues
  <2> QED BY <2>9 DEF v
<1>3. PICK n \in {0, 3, 32, 33} : q.name = Some(n)
  BY DEF Requests
<1>4. PICK k \in {0, 5, 32, 33} : q.pw = Some(k)
  BY DEF Requests
<1>5. PICK a \in {0, 7, 8, 10, 11} : q.ata = Some(4 * a)
  BY DEF Requests
<1>6. q.name \in Seq(Byte) /\ Len(q.name) = n /\ q.pw \in Seq(Byte) /\ Len(q.pw) = k
  BY <1>3, <1>4, SomeBytes
<1>7. q.ata \in Seq(Byte) /\ Len(q.ata) = 4 * a
  BY <1>5, SomeBytes
<1>8. n \in Nat /\ n = n * 1 /\ k \in Nat /\ k = k * 1 /\ a \in Nat /\ 4 * a = a * 4
  OBVIOUS
<1>9. Whole(n, 1) /\ Whole(k, 1) /\ Whole(4 * a, 4)
  BY <1>8 DEF Whole
<1>10. n < Limit /\ k < Limit /\ 4 * a < Limit
  BY DEF Limit
<1>11. AreArrays(q)
  BY <1>6, <1>7, <1>9, <1>10 DEF AreArrays
<1> QED BY <1>2, <1>6, <1>11

\* No request that the run picks gets a wrong answer.
THEOREM ReplyTruthfulHolds == MCSpec => []ReplyTruthful
<1>1. MCInit => ReplyTruthful
  <2> SUFFICES ASSUME input \in [kind : {"logout"}, request : Requests]
               PROVE  Truthful(input.request)
    BY DEF MCInit, ReplyTruthful, None
  <2>1. input.request \in Requests
    OBVIOUS
  <2> DEFINE q == input.request
  <2>2. AreValues(q.values) /\ AreArrays(q) /\ 31 + (Len(q.name) + Len(q.pw)) <= 1024
    BY <2>1, RequestsAreRequests
  <2> HIDE DEF q
  <2>3. Truthful(q)
    BY <2>2, AlwaysTruthful
  <2> QED BY <2>3 DEF q
<1>2. ReplyTruthful /\ [Channel(Next)]_<<vars, input>> => ReplyTruthful'
  BY DEF ReplyTruthful, Channel
<1> QED BY <1>1, <1>2, PTL DEF MCSpec
=============================================================================
