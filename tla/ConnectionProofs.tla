-------------------------- MODULE ConnectionProofs ---------------------------
(***************************************************************************)
(* Theorems about what a client and the server exchange.  Connection: the  *)
(* bytes of a connection, for each variant of TcpClient, with every fault  *)
(* and for buffers and messages of every size.  LoginEcho: the numbers of  *)
(* the messages, for every number of messages and either setting of the    *)
(* command line.                                                           *)
(***************************************************************************)
EXTENDS Connection, LoginEcho, TLAPS

Operation == {"recv", "send"}

Objects == [pClient : BOOLEAN, isConnect : BOOLEAN, sendBuff : 0..SendSize, recvBuff : 0..RecvSize,
            posted : SUBSET Operation, todo : SUBSET (Operation \cup {"events"}), lost : BOOLEAN,
            inits : 0..MaxInits, pushed : Nat, handled : Nat]

Sockets == [up : Nat, down : Nat, sent : Nat, io : SUBSET Operation, len : Nat, cq : Seq(Completions)]

\* The bytes in a queue of completions, and of one of them.
Port(q, op) == FoldSeq(LAMBDA e, n : n + (IF e.op = op THEN e.bytes ELSE 0), 0, q)
Of(e, op) == IF e.op = op THEN e.bytes ELSE 0

\* No operation completes twice.
Distinct(q) == \A i, j \in 1..Len(q) : q[i].op = q[j].op => i = j

\* An operation whose flag is set is outstanding or at the port, not both.
Operations(v, o, s) ==
  /\ v # "iocp" => o.posted = {} /\ s.cq = <<>>
  /\ s.io \subseteq o.posted
  /\ Distinct(s.cq)
  /\ \A i \in 1..Len(s.cq) : s.cq[i].op \in o.posted \ s.io

\* What the system took is still in the send buffer, and what it put behind
\* the received bytes has room there.
Room(o, s) ==
  /\ "send" \in s.io => s.len <= o.sendBuff
  /\ \A i \in 1..Len(s.cq) : /\ s.cq[i].op = "send" => s.cq[i].bytes <= o.sendBuff
                             /\ s.cq[i].op = "recv" => o.recvBuff + s.cq[i].bytes <= RecvSize

Kept(o, s) ==
  o.pClient =>
    /\ o.pushed = o.sendBuff - Port(s.cq, "send") + s.up
    /\ s.sent * MsgLen = s.down + Port(s.cq, "recv") + o.recvBuff + o.handled * MsgLen

Sound(v, o, s) == Operations(v, o, s) /\ Room(o, s) /\ Kept(o, s)

BytesInv ==
  /\ client \in [Clients -> Objects] /\ net \in [Clients -> Sockets]
  /\ \A c \in Clients : Sound(variant, client[c], net[c])

-----------------------------------------------------------------------------
(* The sum over a queue with at most two completions                       *)

\* The equation of the recursive function that a fold over q is.
Folds(q, op, it) ==
  it = [s \in SUBSET DOMAIN q |->
          IF s = {} THEN 0 ELSE LET x == CHOOSE y \in s : TRUE IN it[s \ {x}] + Of(q[x], op)]

LEMMA PortFolds ==
  ASSUME NEW q, NEW op
  PROVE  Port(q, op) = (CHOOSE it : Folds(q, op, it))[DOMAIN q]
BY DEF Port, FoldSeq, FoldFunction, FoldFunctionOnSet, MapThenFoldSet, Folds, Of

\* The sum over two positions, and over any subset of them.
Part(a, b, s) == (IF 1 \in s THEN a ELSE 0) + (IF 2 \in s THEN b ELSE 0)

LEMMA PartStep ==
  ASSUME NEW a, NEW b, NEW s \in SUBSET {1, 2}, NEW x \in s,
         1 \in s => a \in Nat, 2 \in s => b \in Nat
  PROVE  Part(a, b, s) = Part(a, b, s \ {x}) + (IF x = 1 THEN a ELSE b)
<1>1. CASE x = 1
  <2>1. 1 \notin s \ {x} /\ (2 \in s \ {x} <=> 2 \in s) /\ 1 \in s
    BY <1>1
  <2> QED BY <2>1, <1>1 DEF Part
<1>2. CASE x = 2
  <2>1. 2 \notin s \ {x} /\ (1 \in s \ {x} <=> 1 \in s) /\ 2 \in s
    BY <1>2
  <2> QED BY <2>1, <1>2 DEF Part
<1> QED BY <1>1, <1>2

LEMMA FoldsOnce ==
  ASSUME NEW q, DOMAIN q \subseteq {1, 2}, NEW op, NEW g, NEW h, Folds(q, op, g), Folds(q, op, h)
  PROVE  g[DOMAIN q] = h[DOMAIN q]
<1> DEFINE D == DOMAIN q
           c(s) == CHOOSE x \in s : TRUE
<1>1. \A s \in SUBSET D : s # {} => c(s) \in s
  OBVIOUS
<1>2. {} \in SUBSET D /\ g[{}] = 0 /\ h[{}] = 0
  BY DEF Folds
<1>3. \A s \in SUBSET D : s # {} => /\ g[s] = g[s \ {c(s)}] + Of(q[c(s)], op)
                                    /\ h[s] = h[s \ {c(s)}] + Of(q[c(s)], op)
  BY DEF Folds
<1> HIDE DEF c, D
<1>4. ASSUME NEW s \in SUBSET D, s # {}, g[s \ {c(s)}] = h[s \ {c(s)}] PROVE g[s] = h[s]
  BY <1>3, <1>4
<1>5. ASSUME NEW i \in D PROVE g[{i}] = h[{i}]
  <2>1. {i} \in SUBSET D /\ {i} # {} /\ c({i}) = i /\ {i} \ {i} = {}
    BY <1>1
  <2> QED BY <1>2, <1>4, <2>1
<1>6. CASE D = {}
  BY <1>2, <1>6 DEF D
<1>7. CASE \E i \in D : D = {i}
  BY <1>5, <1>7 DEF D
<1>8. CASE D = {1, 2}
  <2>1. D \in SUBSET D /\ D # {} /\ c(D) \in {1, 2}
    BY <1>1, <1>8
  <2>2. \E i \in D : D \ {c(D)} = {i}
    <3>1. CASE c(D) = 1
      BY <1>8, <3>1
    <3>2. CASE c(D) = 2
      BY <1>8, <3>2
    <3> QED BY <2>1, <3>1, <3>2
  <2>3. g[D] = h[D]
    BY <1>4, <1>5, <2>1, <2>2
  <2> QED BY <2>3 DEF D
<1>9. D = {} \/ (\E i \in D : D = {i}) \/ D = {1, 2}
  BY DEF D
<1> QED BY <1>6, <1>7, <1>8, <1>9

LEMMA SumOfTwo ==
  ASSUME NEW q \in Seq(Completions), NEW op, Len(q) <= 2
  PROVE  Port(q, op) = Part(Of(q[1], op), Of(q[2], op), DOMAIN q)
<1> DEFINE it == [s \in SUBSET DOMAIN q |-> Part(Of(q[1], op), Of(q[2], op), s)]
<1>1. DOMAIN q \subseteq {1, 2}
  OBVIOUS
<1>2. \A i \in DOMAIN q : Of(q[i], op) \in Nat
  <2> TAKE i \in DOMAIN q
  <2>1. q[i] \in Completions
    OBVIOUS
  <2> QED BY <2>1 DEF Of, Completions
<1>3. ASSUME NEW s \in SUBSET DOMAIN q, s # {}
      PROVE  LET x == CHOOSE y \in s : TRUE IN it[s] = it[s \ {x}] + Of(q[x], op)
  <2> DEFINE x == CHOOSE y \in s : TRUE
  <2>1. x \in s
    BY <1>3
  <2> HIDE DEF x
  <2>2. s \in SUBSET {1, 2} /\ s \ {x} \in SUBSET DOMAIN q /\ x \in {1, 2}
    BY <1>1, <2>1
  <2>3. (1 \in s => Of(q[1], op) \in Nat) /\ (2 \in s => Of(q[2], op) \in Nat)
    BY <1>2
  <2>4. it[s] = it[s \ {x}] + (IF x = 1 THEN Of(q[1], op) ELSE Of(q[2], op))
    BY <2>1, <2>2, <2>3, PartStep
  <2>5. it[s] = it[s \ {x}] + Of(q[x], op)
    BY <2>2, <2>4
  <2> QED BY <2>5 DEF x
<1>4. {} \in SUBSET DOMAIN q /\ it[{}] = 0
  BY DEF Part
<1>5. it = [s \in SUBSET DOMAIN q |-> it[s]]
  OBVIOUS
<1>6. Folds(q, op, it)
  <2> HIDE DEF it
  <2>1. [s \in SUBSET DOMAIN q |-> it[s]]
          = [s \in SUBSET DOMAIN q |-> IF s = {} THEN 0 ELSE LET x == CHOOSE y \in s : TRUE IN it[s \ {x}] + Of(q[x], op)]
    BY <1>3, <1>4
  <2> QED BY <1>5, <2>1 DEF Folds
<1>8. it[DOMAIN q] = Part(Of(q[1], op), Of(q[2], op), DOMAIN q)
  OBVIOUS
<1> HIDE DEF it
<1>9. Port(q, op) = it[DOMAIN q]
  BY <1>1, <1>6, FoldsOnce, PortFolds
<1> QED BY <1>8, <1>9

-----------------------------------------------------------------------------
(* Completions                                                             *)

Queue(q) == q \in Seq(Completions) /\ Distinct(q)

\* There are two operations, so at most two completions.
LEMMA QueueShort ==
  ASSUME NEW q, Queue(q) PROVE Len(q) \in 0..2 /\ DOMAIN q = 1..Len(q)
<1>1. Len(q) \in Nat /\ DOMAIN q = 1..Len(q) /\ \A i \in 1..Len(q) : q[i] \in Completions
  BY DEF Queue
<1>2. \A i \in 1..Len(q) : q[i].op \in {"recv", "send"}
  BY <1>1 DEF Completions
<1>3. CASE Len(q) >= 3
  <2>1. 1 \in 1..Len(q) /\ 2 \in 1..Len(q) /\ 3 \in 1..Len(q)
    BY <1>1, <1>3
  <2>2. q[1].op # q[2].op /\ q[1].op # q[3].op /\ q[2].op # q[3].op
    BY <2>1 DEF Queue, Distinct
  <2> QED BY <1>2, <2>1, <2>2
<1> QED BY <1>1, <1>3

LEMMA PortSum ==
  ASSUME NEW q, Queue(q), NEW op
  PROVE  Port(q, op) = (IF Len(q) >= 1 THEN Of(q[1], op) ELSE 0) + (IF Len(q) = 2 THEN Of(q[2], op) ELSE 0)
<1>1. q \in Seq(Completions) /\ Len(q) \in 0..2 /\ DOMAIN q = 1..Len(q)
  BY QueueShort DEF Queue
<1>2. Port(q, op) = Part(Of(q[1], op), Of(q[2], op), DOMAIN q)
  BY <1>1, SumOfTwo
<1>3. (1 \in DOMAIN q <=> Len(q) >= 1) /\ (2 \in DOMAIN q <=> Len(q) = 2)
  BY <1>1
<1> QED BY <1>2, <1>3 DEF Part

LEMMA OfNat == ASSUME NEW e \in Completions, NEW op PROVE Of(e, op) \in Nat
BY DEF Of, Completions

LEMMA PortNat == ASSUME NEW q, Queue(q), NEW op PROVE Port(q, op) \in Nat
<1>1. Len(q) \in 0..2 /\ \A i \in 1..Len(q) : q[i] \in Completions
  BY QueueShort DEF Queue
<1>2. Len(q) >= 1 => Of(q[1], op) \in Nat
  BY <1>1, OfNat
<1>3. Len(q) = 2 => Of(q[2], op) \in Nat
  BY <1>1, OfNat
<1> QED BY <1>1, <1>2, <1>3, PortSum

LEMMA EmptyPort == Queue(<<>>) /\ \A op : Port(<<>>, op) = 0
<1>1. Queue(<<>>) /\ Len(<<>>) = 0
  BY DEF Queue, Distinct
<1> QED BY <1>1, PortSum

\* The program takes the oldest completion.
LEMMA TailPort ==
  ASSUME NEW q, Queue(q), q # <<>>
  PROVE  /\ Head(q) \in Completions /\ Queue(Tail(q))
         /\ \A i \in 1..Len(Tail(q)) : i + 1 \in 1..Len(q) /\ Tail(q)[i] = q[i + 1] /\ q[i + 1].op # Head(q).op
         /\ \A op : Port(Tail(q), op) \in Nat /\ Port(q, op) = Of(Head(q), op) + Port(Tail(q), op)
<1>1. q \in Seq(Completions) /\ Len(q) \in 1..2
  <2>1. Len(q) # 0
    BY DEF Queue
  <2> QED BY <2>1, QueueShort DEF Queue
<1>2. /\ Head(q) \in Completions /\ Head(q) = q[1]
      /\ Tail(q) \in Seq(Completions) /\ Len(Tail(q)) = Len(q) - 1
      /\ \A i \in 1..Len(Tail(q)) : i + 1 \in 1..Len(q) /\ Tail(q)[i] = q[i + 1]
  BY <1>1
<1>3. Queue(Tail(q)) /\ \A i \in 1..Len(Tail(q)) : q[i + 1].op # Head(q).op
  <2>1. \A i, j \in 1..Len(q) : q[i].op = q[j].op => i = j
    BY DEF Queue, Distinct
  <2>2. ASSUME NEW i \in 1..Len(Tail(q)), NEW j \in 1..Len(Tail(q)), Tail(q)[i].op = Tail(q)[j].op PROVE i = j
    <3>1. i + 1 = j + 1
      BY <1>2, <2>1, <2>2
    <3> QED BY <3>1, <1>1, <1>2
  <2>3. \A i \in 1..Len(Tail(q)) : q[i + 1].op # Head(q).op
    <3> TAKE i \in 1..Len(Tail(q))
    <3>1. 1 \in 1..Len(q) /\ i + 1 # 1 /\ i + 1 \in 1..Len(q)
      BY <1>1, <1>2
    <3> QED BY <1>2, <2>1, <3>1
  <2> QED BY <1>2, <2>2, <2>3 DEF Queue, Distinct
<1>4. ASSUME NEW op PROVE Port(Tail(q), op) \in Nat /\ Port(q, op) = Of(Head(q), op) + Port(Tail(q), op)
  <2>1. Port(q, op) = Of(q[1], op) + (IF Len(q) = 2 THEN Of(q[2], op) ELSE 0)
    BY <1>1, PortSum
  <2>2. Port(Tail(q), op) = IF Len(q) = 2 THEN Of(Tail(q)[1], op) + 0 ELSE 0
    <3> DEFINE t == Tail(q)
    <3>1. Queue(t) /\ Len(t) \in 0..1 /\ (Len(t) = 1 <=> Len(q) = 2)
      BY <1>1, <1>2, <1>3
    <3> HIDE DEF t
    <3>2. Port(t, op) = IF Len(t) = 1 THEN Of(t[1], op) + 0 ELSE 0 + 0
      BY <3>1, PortSum
    <3> QED BY <3>1, <3>2 DEF t
  <2>3. CASE Len(q) = 2
    <3>1. 1 \in 1..Len(Tail(q)) /\ Tail(q)[1] = q[1 + 1] /\ q[2] \in Completions
      <4>1. 1 \in 1..Len(Tail(q)) /\ 2 \in 1..Len(q)
        BY <1>2, <2>3
      <4> QED BY <1>1, <1>2, <4>1
    <3>2. Of(q[1], op) \in Nat /\ Of(q[2], op) \in Nat
      BY <1>2, <3>1, OfNat
    <3> QED BY <1>2, <2>1, <2>2, <2>3, <3>1, <3>2
  <2>4. CASE Len(q) = 1
    <3>1. Of(q[1], op) \in Nat
      BY <1>2, OfNat
    <3> QED BY <1>2, <2>1, <2>2, <2>4, <3>1
  <2> QED BY <1>1, <2>3, <2>4
<1> QED BY <1>2, <1>3, <1>4

\* The system completes an operation that has no completion at the port.
LEMMA AppendPort ==
  ASSUME NEW q, Queue(q), NEW e \in Completions, \A i \in 1..Len(q) : q[i].op # e.op
  PROVE  /\ Queue(Append(q, e)) /\ Len(Append(q, e)) = Len(q) + 1
         /\ \A i \in 1..Len(Append(q, e)) :
              Append(q, e)[i] = e \/ (i \in 1..Len(q) /\ Append(q, e)[i] = q[i])
         /\ \A op : Port(q, op) \in Nat /\ Port(Append(q, e), op) = Port(q, op) + Of(e, op)
<1> DEFINE r == Append(q, e)
<1>1. /\ q \in Seq(Completions) /\ r \in Seq(Completions) /\ Len(r) = Len(q) + 1 /\ Len(q) \in Nat
      /\ r[Len(q) + 1] = e /\ \A i \in 1..Len(q) : r[i] = q[i]
  BY DEF Queue
<1> HIDE DEF r
<1>2. \A i \in 1..Len(r) : i = Len(q) + 1 \/ i \in 1..Len(q)
  BY <1>1
<1>3. Queue(r)
  BY <1>1, <1>2 DEF Queue, Distinct
<1>4. Len(r) \in 1..2 /\ (Len(r) = 1 <=> Len(q) = 0) /\ (Len(r) = 2 <=> Len(q) = 1)
  BY <1>1, <1>3, QueueShort
<1>5. ASSUME NEW op PROVE Port(q, op) \in Nat /\ Port(r, op) = Port(q, op) + Of(e, op)
  <2>1. Of(e, op) \in Nat
    BY OfNat
  <2>2. CASE Len(q) = 0
    <3>1. Port(q, op) = 0 /\ Port(r, op) = Of(r[1], op) + 0 /\ r[1] = e
      BY <1>1, <1>3, <1>4, <2>2, PortSum
    <3> QED BY <2>1, <3>1
  <2>3. CASE Len(q) = 1
    <3>1. r[1] = q[1] /\ r[2] = e /\ q[1] \in Completions
      <4>1. 1 \in 1..Len(q) /\ Len(q) + 1 = 2
        BY <2>3
      <4> QED BY <1>1, <4>1
    <3>2. Of(q[1], op) \in Nat
      BY <3>1, OfNat
    <3>3. Port(q, op) = Of(q[1], op) + 0 /\ Port(r, op) = Of(q[1], op) + Of(e, op)
      BY <1>3, <1>4, <2>3, <3>1, PortSum
    <3> QED BY <2>1, <3>2, <3>3
  <2> QED BY <1>4, <2>2, <2>3
<1> QED BY <1>1, <1>2, <1>3, <1>5 DEF r

-----------------------------------------------------------------------------
(* Buffers                                                                 *)

\* Nothing but the fields that do not count bytes has changed.
Alike(o, p) ==
  /\ p.sendBuff = o.sendBuff /\ p.recvBuff = o.recvBuff /\ p.posted = o.posted
  /\ p.pushed = o.pushed /\ p.handled = o.handled /\ (p.pClient => o.pClient)

LEMMA AlikeSound ==
  ASSUME NEW v, NEW o, NEW p, NEW s, Sound(v, o, s), Alike(o, p)
  PROVE  Sound(v, p, s)
BY DEF Sound, Operations, Room, Kept, Alike

\* Close: nothing is outstanding and nothing at the port.
LEMMA ClosedSound ==
  ASSUME NEW v, NEW o \in Objects, NEW s \in Sockets
  PROVE  /\ Closed(o) \in Objects /\ [Closed(o) EXCEPT !.lost = TRUE] \in Objects /\ Gone(s) \in Sockets
         /\ Sound(v, Closed(o), Gone(s)) /\ Sound(v, [Closed(o) EXCEPT !.lost = TRUE], Gone(s))
<1>1. Closed(o) \in Objects /\ [Closed(o) EXCEPT !.lost = TRUE] \in Objects /\ Gone(s) \in Sockets
  <2>1. Closed(o) \in Objects
    BY DEF Closed, Objects
  <2>2. [Closed(o) EXCEPT !.lost = TRUE] \in Objects
    BY <2>1 DEF Objects
  <2>3. <<>> \in Seq(Completions)
    OBVIOUS
  <2>4. Gone(s) \in Sockets
    BY <2>3 DEF Gone, Sockets
  <2> QED BY <2>1, <2>2, <2>4
<1>2. /\ Gone(s).io = {} /\ Gone(s).cq = <<>> /\ Closed(o).posted = {} /\ Closed(o).pClient = FALSE
      /\ [Closed(o) EXCEPT !.lost = TRUE].posted = {} /\ [Closed(o) EXCEPT !.lost = TRUE].pClient = FALSE
  BY DEF Closed, Gone, Objects, Sockets
<1>3. Distinct(<<>>) /\ Len(<<>>) = 0
  BY EmptyPort DEF Queue
<1> QED BY <1>1, <1>2, <1>3 DEF Sound, Operations, Room, Kept

LEMMA Constants == /\ MsgLen \in Nat \ {0} /\ SendSize \in Nat \ {0} /\ RecvSize \in Nat
                   /\ MaxInits \in Nat \ {0}
BY ClientAssumption

LEMMA WholePart ==
  ASSUME NEW a \in Nat, NEW b \in Nat \ {0}
  PROVE  a \div b \in Nat /\ (a \div b) * b \in Nat /\ (a \div b) * b <= a
<1>1. a \div b \in Int /\ a = b * (a \div b) + (a % b) /\ a % b \in 0..(b - 1)
  OBVIOUS
<1>2. a \div b \in Nat
  BY <1>1
<1> QED BY <1>1, <1>2

\* DoMsg moves whole messages from the receive buffer to the program.
LEMMA DoMsgSound ==
  ASSUME NEW v, NEW o \in Objects, NEW s \in Sockets, Sound(v, o, s)
  PROVE  DoMsg(o) \in Objects /\ Sound(v, DoMsg(o), s)
<1> DEFINE n == WholeMsgs(o.recvBuff)
           p == DoMsg(o)
<1>1. o.recvBuff \in Nat /\ o.recvBuff <= RecvSize /\ o.handled \in Nat /\ MsgLen \in Nat \ {0} /\ RecvSize \in Nat
  BY Constants DEF Objects
<1>2. n \in Nat /\ n * MsgLen \in Nat /\ n * MsgLen <= o.recvBuff
  BY <1>1, WholePart DEF WholeMsgs
<1>3. /\ p = [o EXCEPT !.recvBuff = o.recvBuff - n * MsgLen, !.handled = o.handled + n]
  BY DEF DoMsg
<1> HIDE DEF n, p
<1>4. /\ p.recvBuff = o.recvBuff - n * MsgLen /\ p.handled = o.handled + n
      /\ p.pClient = o.pClient /\ p.sendBuff = o.sendBuff /\ p.posted = o.posted /\ p.pushed = o.pushed
  BY <1>3 DEF Objects
<1>5. p.recvBuff \in Nat /\ p.recvBuff <= o.recvBuff
  BY <1>1, <1>2, <1>4
<1>6. p \in Objects
  <2>1. o.recvBuff - n * MsgLen \in 0..RecvSize /\ o.handled + n \in Nat
    BY <1>1, <1>2
  <2> QED BY <1>3, <2>1 DEF Objects
<1>7. p.recvBuff + p.handled * MsgLen = o.recvBuff + o.handled * MsgLen
  <2>1. p.handled * MsgLen = o.handled * MsgLen + n * MsgLen /\ o.handled * MsgLen \in Nat
    BY <1>1, <1>2, <1>4
  <2> QED BY <1>1, <1>2, <1>4, <2>1
<1>8. Room(p, s)
  <2>1. \A i \in 1..Len(s.cq) : s.cq[i].bytes \in Nat
    <3>1. s.cq \in Seq(Completions)
      BY DEF Sockets
    <3>2. \A i \in 1..Len(s.cq) : s.cq[i] \in Completions
      BY <3>1
    <3> QED BY <3>2 DEF Completions
  <2> QED BY <1>1, <1>4, <1>5, <2>1 DEF Sound, Room
<1>9. Kept(p, s)
  <2> SUFFICES ASSUME p.pClient PROVE s.sent * MsgLen = s.down + Port(s.cq, "recv") + p.recvBuff + p.handled * MsgLen
                                      /\ p.pushed = p.sendBuff - Port(s.cq, "send") + s.up
    BY DEF Kept
  <2>1. /\ o.pushed = o.sendBuff - Port(s.cq, "send") + s.up
        /\ s.sent * MsgLen = s.down + Port(s.cq, "recv") + o.recvBuff + o.handled * MsgLen
    BY <1>4 DEF Sound, Kept
  <2>2. s.down + Port(s.cq, "recv") \in Int
    <3>1. Queue(s.cq) /\ s.down \in Nat
      BY DEF Sound, Operations, Sockets, Queue
    <3>2. Port(s.cq, "recv") \in Int
      BY <3>1, PortNat
    <3> QED BY <3>1, <3>2
  <2>3. p.recvBuff \in Int /\ p.handled * MsgLen \in Int /\ o.recvBuff \in Int /\ o.handled * MsgLen \in Int
    BY <1>1, <1>2, <1>4, <1>5
  <2> QED BY <1>4, <1>7, <2>1, <2>2, <2>3
<1>10. Operations(v, p, s)
  BY <1>4 DEF Sound, Operations
<1> QED BY <1>6, <1>8, <1>9, <1>10 DEF p, Sound

-----------------------------------------------------------------------------
(* The steps                                                               *)

LEMMA QueueBytes ==
  ASSUME NEW q \in Seq(Completions)
  PROVE  \A i \in 1..Len(q) : q[i].bytes \in Nat
<1>1. \A i \in 1..Len(q) : q[i] \in Completions
  OBVIOUS
<1> QED BY <1>1 DEF Completions

\* What the step lemmas below start from and have to show.
LEMMA SoundNow ==
  ASSUME BytesInv, NEW c \in Clients
  PROVE  /\ client[c] \in Objects /\ net[c] \in Sockets /\ Sound(variant, client[c], net[c])
         /\ Queue(net[c].cq) /\ Port(net[c].cq, "recv") \in Nat /\ Port(net[c].cq, "send") \in Nat
<1>1. client[c] \in Objects /\ net[c] \in Sockets /\ Sound(variant, client[c], net[c])
  BY DEF BytesInv
<1>2. Queue(net[c].cq)
  BY <1>1 DEF Sockets, Sound, Operations, Queue
<1> QED BY <1>1, <1>2, PortNat

LEMMA SoundNext ==
  ASSUME BytesInv, NEW c \in Clients, NEW o \in Objects, NEW s \in Sockets, Sound(variant, o, s),
         client' = [client EXCEPT ![c] = o], net' = [net EXCEPT ![c] = s], variant' = variant
  PROVE  BytesInv'
BY DEF BytesInv

LEMMA SystemNext ==
  ASSUME BytesInv, NEW c \in Clients, NEW s \in Sockets, Sound(variant, client[c], s),
         client' = client, net' = [net EXCEPT ![c] = s], variant' = variant
  PROVE  BytesInv'
BY DEF BytesInv

LEMMA InitSocketStep ==
  ASSUME BytesInv, NEW c \in Clients, InitSocket(c) PROVE BytesInv'
<1> DEFINE o == [NoObject EXCEPT !.pClient = TRUE, !.inits = client[c].inits + 1]
<1>1. o \in Objects
  <2>1. client[c].inits \in 0..MaxInits /\ client[c].inits < MaxInits
    BY SoundNow DEF InitSocket, Objects
  <2>2. client[c].inits + 1 \in 0..MaxInits /\ 0 \in 0..SendSize /\ 0 \in 0..RecvSize
    BY <2>1, Constants
  <2> QED BY <2>2 DEF NoObject, Objects
<1>2. <<>> \in Seq(Completions)
  OBVIOUS
<1>3. NoSocket \in Sockets
  BY <1>2 DEF NoSocket, Sockets
<1>4. /\ o.sendBuff = 0 /\ o.recvBuff = 0 /\ o.posted = {} /\ o.pushed = 0 /\ o.handled = 0
      /\ NoSocket.up = 0 /\ NoSocket.down = 0 /\ NoSocket.sent = 0 /\ NoSocket.io = {} /\ NoSocket.cq = <<>>
  BY DEF NoObject, NoSocket
<1>5. Distinct(<<>>) /\ Len(<<>>) = 0 /\ Port(<<>>, "send") = 0 /\ Port(<<>>, "recv") = 0 /\ 0 * MsgLen = 0
  BY EmptyPort, Constants DEF Queue
<1>6. Now(c, o, NoSocket)
  BY DEF InitSocket
<1> HIDE DEF o
<1>7. Sound(variant, o, NoSocket)
  BY <1>4, <1>5 DEF Sound, Operations, Room, Kept
<1> QED BY <1>1, <1>3, <1>6, <1>7, SoundNext DEF Now, Same

\* Steps that change no bytes: Connect, the beginning of OnRun and its end
\* without a result.
LEMMA AlikeStep ==
  ASSUME BytesInv, NEW c \in Clients, NEW o \in Objects, Alike(client[c], o), Now(c, o, net[c])
  PROVE  BytesInv'
<1>1. Sound(variant, o, net[c]) /\ net[c] \in Sockets
  BY SoundNow, AlikeSound
<1> QED BY <1>1, SoundNext DEF Now, Same

LEMMA SendDataStep ==
  ASSUME BytesInv, NEW c \in Clients, SendData(c) PROVE BytesInv'
<1> DEFINE o == client[c]
           s == net[c]
           p == [o EXCEPT !.sendBuff = @ + 1, !.pushed = @ + 1]
<1>1. /\ o \in Objects /\ s \in Sockets /\ Sound(variant, o, s) /\ Port(s.cq, "send") \in Nat
      /\ o.sendBuff < SendSize /\ Now(c, p, s) /\ SendSize \in Nat
  BY SoundNow, Constants DEF SendData
<1> HIDE DEF o, s
<1>6. o.sendBuff + 1 \in 0..SendSize /\ o.pushed + 1 \in Nat
  BY <1>1 DEF Objects
<1>2. /\ p \in Objects /\ p.sendBuff = o.sendBuff + 1 /\ p.pushed = o.pushed + 1
      /\ p.posted = o.posted /\ p.recvBuff = o.recvBuff /\ p.handled = o.handled /\ p.pClient = o.pClient
  BY <1>1, <1>6 DEF Objects
<1>3. /\ o.sendBuff \in Nat /\ o.pushed \in Nat /\ s.up \in Nat /\ s.len \in Nat
      /\ s.cq \in Seq(Completions)
  BY <1>1 DEF Objects, Sockets
<1>4. \A i \in 1..Len(s.cq) : s.cq[i].bytes \in Nat
  BY <1>3, QueueBytes
<1> HIDE DEF p
<1>5. Sound(variant, p, s)
  <2>1. Operations(variant, p, s)
    BY <1>1, <1>2 DEF Sound, Operations
  <2>2. Room(p, s)
    BY <1>1, <1>2, <1>3, <1>4 DEF Sound, Room
  <2>3. Kept(p, s)
    BY <1>1, <1>2, <1>3 DEF Sound, Kept
  <2> QED BY <2>1, <2>2, <2>3 DEF Sound
<1> QED BY <1>1, <1>2, <1>5, SoundNext DEF Now, Same, o, s

LEMMA CloseStep ==
  ASSUME BytesInv, NEW c \in Clients,
         Now(c, Closed(client[c]), Gone(net[c])) \/ ReturnFalse(c)
  PROVE  BytesInv'
<1>1. client[c] \in Objects /\ net[c] \in Sockets
  BY SoundNow
<1>2. PICK o \in Objects : /\ Now(c, o, Gone(net[c])) /\ Sound(variant, o, Gone(net[c]))
  BY <1>1, ClosedSound DEF ReturnFalse
<1>3. Gone(net[c]) \in Sockets
  BY <1>1, ClosedSound
<1> QED BY <1>2, <1>3, SoundNext DEF Now, Same

LEMMA PollFailsStep ==
  ASSUME BytesInv, NEW c \in Clients, PollFails(c) PROVE BytesInv'
<1>1. CASE ReturnFalse(c)
  BY <1>1, CloseStep
<1>2. CASE Now(c, KeepOpen(client[c]), net[c])
  <2>1. KeepOpen(client[c]) \in Objects /\ Alike(client[c], KeepOpen(client[c]))
    BY SoundNow DEF KeepOpen, Objects, Alike
  <2> QED BY <1>2, <2>1, AlikeStep
<1> QED BY <1>1, <1>2 DEF PollFails

\* Select and epoll read: what leaves the socket is in the buffer or handled.
LEMMA RecvStep ==
  ASSUME BytesInv, NEW c \in Clients, Recv(c) PROVE BytesInv'
<1> DEFINE o == client[c]
           s == net[c]
<1>1. /\ o \in Objects /\ s \in Sockets /\ Sound(variant, o, s) /\ Port(s.cq, "recv") \in Nat
      /\ RecvSize \in Nat /\ variant # "iocp"
  BY SoundNow, Constants DEF Recv
<1>2. PICK n \in 1..s.down :
        /\ n <= RecvSize - o.recvBuff
        /\ Now(c, [DoMsg(Read(o, n)) EXCEPT !.todo = @ \ {"recv"}], [s EXCEPT !.down = @ - n])
  BY DEF Recv
<1> HIDE DEF o, s
<1> DEFINE p == Read(o, n)
           r == [s EXCEPT !.down = @ - n]
           q == [DoMsg(p) EXCEPT !.todo = @ \ {"recv"}]
<1>3. /\ o.recvBuff \in Nat /\ o.recvBuff <= RecvSize /\ s.down \in Nat /\ n \in Nat /\ n <= s.down
      /\ o.handled \in Nat /\ o.handled * MsgLen \in Nat
  <2>1. o.recvBuff \in 0..RecvSize /\ s.down \in Nat /\ o.handled \in Nat
    BY <1>1 DEF Objects, Sockets
  <2> QED BY <1>1, <1>2, <2>1, Constants
<1>4. o.recvBuff + n \in 0..RecvSize /\ s.down - n \in Nat
  BY <1>1, <1>2, <1>3
<1>5. p \in Objects /\ r \in Sockets
  BY <1>1, <1>4 DEF Read, Objects, Sockets
<1>6. /\ p.recvBuff = o.recvBuff + n /\ p.sendBuff = o.sendBuff /\ p.posted = o.posted /\ p.pushed = o.pushed
      /\ p.handled = o.handled /\ p.pClient = o.pClient
      /\ r.down = s.down - n /\ r.up = s.up /\ r.sent = s.sent /\ r.io = s.io /\ r.cq = s.cq
  BY <1>1 DEF Read, Objects, Sockets
<1>7. s.cq = <<>> /\ s.io = {} /\ Len(<<>>) = 0
  BY <1>1 DEF Sound, Operations
<1> HIDE DEF p, r
<1>8. Sound(variant, p, r)
  BY <1>1, <1>3, <1>6, <1>7 DEF Sound, Operations, Room, Kept
<1>9. DoMsg(p) \in Objects /\ Sound(variant, DoMsg(p), r)
  BY <1>5, <1>8, DoMsgSound
<1>10. q \in Objects /\ Alike(DoMsg(p), q)
  BY <1>9 DEF Objects, Alike
<1>11. Sound(variant, q, r)
  BY <1>9, <1>10, AlikeSound
<1>12. Now(c, q, r)
  BY <1>2 DEF p, r
<1> QED BY <1>5, <1>10, <1>11, <1>12, SoundNext DEF Now, Same

\* Select and epoll write: what leaves the send buffer the system has.
LEMMA SendStep ==
  ASSUME BytesInv, NEW c \in Clients, Send(c) PROVE BytesInv'
<1> DEFINE o == client[c]
           s == net[c]
<1>1. /\ o \in Objects /\ s \in Sockets /\ Sound(variant, o, s) /\ Port(s.cq, "send") \in Nat
      /\ SendSize \in Nat /\ variant # "iocp"
  BY SoundNow, Constants DEF Send
<1>2. PICK n \in 1..o.sendBuff :
        Now(c, [Written(o, n) EXCEPT !.todo = {}], [s EXCEPT !.up = @ + n])
  BY DEF Send
<1> HIDE DEF o, s
<1> DEFINE p == [Written(o, n) EXCEPT !.todo = {}]
           r == [s EXCEPT !.up = @ + n]
<1>3. o.sendBuff \in 0..SendSize /\ n \in Nat /\ n <= o.sendBuff /\ s.up \in Nat
  <2>1. o.sendBuff \in 0..SendSize /\ s.up \in Nat
    BY <1>1 DEF Objects, Sockets
  <2> QED BY <1>1, <1>2, <2>1
<1>4. o.sendBuff - n \in 0..SendSize /\ s.up + n \in Nat
  BY <1>1, <1>3
<1>5. p \in Objects /\ r \in Sockets
  BY <1>1, <1>4 DEF Written, Objects, Sockets
<1>6. /\ p.sendBuff = o.sendBuff - n /\ p.recvBuff = o.recvBuff /\ p.posted = o.posted /\ p.pushed = o.pushed
      /\ p.handled = o.handled /\ p.pClient = o.pClient
      /\ r.up = s.up + n /\ r.down = s.down /\ r.sent = s.sent /\ r.io = s.io /\ r.cq = s.cq
  BY <1>1 DEF Written, Objects, Sockets
<1>7. s.cq = <<>> /\ s.io = {} /\ Len(<<>>) = 0
  BY <1>1 DEF Sound, Operations
<1>8. Now(c, p, r)
  BY <1>2 DEF p, r
<1> HIDE DEF p, r
<1>9. Sound(variant, p, r)
  BY <1>1, <1>3, <1>6, <1>7 DEF Sound, Operations, Room, Kept
<1> QED BY <1>5, <1>8, <1>9, SoundNext DEF Now, Same

\* The operations that are posted now were neither outstanding nor at the port.
LEMMA PostStep ==
  ASSUME BytesInv, NEW c \in Clients, Post(c) PROVE BytesInv'
<1> DEFINE o == client[c]
           s == net[c]
           new == ToPost(c)
           given == Given(c)
           p == [o EXCEPT !.posted = @ \cup new, !.todo = {"events"}]
           r == [s EXCEPT !.io = @ \cup given, !.len = IF "send" \in given THEN o.sendBuff ELSE @]
<1>1. /\ o \in Objects /\ s \in Sockets /\ Sound(variant, o, s) /\ variant = "iocp"
      /\ Now(c, p, r) /\ new \subseteq Operation \ o.posted /\ given \subseteq new
  BY SoundNow DEF Post, Given, ToPost, Asked, Operation
<1> HIDE DEF o, s, new, given
<1>2. s.len \in Nat /\ o.sendBuff \in Nat
  BY <1>1, Constants DEF Objects, Sockets
<1>3. p \in Objects
  BY <1>1 DEF Objects
<1>4. r \in Sockets
  BY <1>1, <1>2 DEF Sockets
<1>5. /\ p.sendBuff = o.sendBuff /\ p.recvBuff = o.recvBuff /\ p.posted = o.posted \cup new /\ p.pushed = o.pushed
      /\ p.handled = o.handled /\ p.pClient = o.pClient
      /\ r.up = s.up /\ r.down = s.down /\ r.sent = s.sent /\ r.io = s.io \cup given /\ r.cq = s.cq
      /\ r.len = IF "send" \in given THEN o.sendBuff ELSE s.len
  BY <1>1 DEF Objects, Sockets
<1> HIDE DEF p, r
<1>6. Operations(variant, p, r)
  BY <1>1, <1>5 DEF Sound, Operations
<1>7. Room(p, r)
  BY <1>1, <1>2, <1>5 DEF Sound, Room
<1>8. Kept(p, r)
  BY <1>1, <1>5 DEF Sound, Kept
<1> QED BY <1>1, <1>3, <1>4, <1>6, <1>7, <1>8, SoundNext DEF Now, Same, Sound

\* IOCP reads a completion: its bytes go from the port into the receive
\* buffer, or out of the send buffer.
LEMMA EventStep ==
  ASSUME BytesInv, NEW c \in Clients, Event(c) PROVE BytesInv'
<1> DEFINE o == client[c]
           s == net[c]
           e == Head(net[c].cq)
           p == Completed(IF e.op = "recv" THEN Read(o, e.bytes) ELSE Written(o, e.bytes), e.op)
           r == [s EXCEPT !.cq = Tail(@)]
<1>1. /\ o \in Objects /\ s \in Sockets /\ Sound(variant, o, s) /\ variant = "iocp"
      /\ Now(c, p, r) /\ Queue(s.cq) /\ s.cq # <<>> /\ e = Head(s.cq)
  BY SoundNow DEF Event, InEvents
<1>2. SendSize \in Nat /\ RecvSize \in Nat
  BY Constants
<1> HIDE DEF o, s, e
<1>3. /\ e \in Completions /\ Queue(Tail(s.cq))
      /\ \A i \in 1..Len(Tail(s.cq)) :
           i + 1 \in 1..Len(s.cq) /\ Tail(s.cq)[i] = s.cq[i + 1] /\ s.cq[i + 1].op # e.op
      /\ \A op : Port(Tail(s.cq), op) \in Nat /\ Port(s.cq, op) = Of(e, op) + Port(Tail(s.cq), op)
  BY <1>1, TailPort
<1>4. 1 \in 1..Len(s.cq) /\ e = s.cq[1]
  BY <1>1 DEF Queue
<1>5. /\ e.op \in o.posted \ s.io
      /\ e.op = "send" => e.bytes <= o.sendBuff
      /\ e.op = "recv" => o.recvBuff + e.bytes <= RecvSize
  BY <1>1, <1>4 DEF Sound, Operations, Room
<1>6. /\ e.op \in {"recv", "send"} /\ e.bytes \in Nat
      /\ o.sendBuff \in 0..SendSize /\ o.recvBuff \in 0..RecvSize
      /\ s.up \in Nat /\ s.down \in Nat
  BY <1>1, <1>3 DEF Completions, Objects, Sockets
<1>7. /\ o.recvBuff + e.bytes \in Nat /\ o.sendBuff - e.bytes \in Int
      /\ e.op = "recv" => o.recvBuff + e.bytes \in 0..RecvSize
      /\ e.op = "send" => o.sendBuff - e.bytes \in 0..SendSize
  BY <1>2, <1>5, <1>6
<1>8. /\ p \in Objects
      /\ p.recvBuff = (IF e.op = "recv" THEN o.recvBuff + e.bytes ELSE o.recvBuff)
      /\ p.sendBuff = (IF e.op = "recv" THEN o.sendBuff ELSE o.sendBuff - e.bytes)
      /\ p.posted = o.posted \ {e.op} /\ p.pushed = o.pushed /\ p.handled = o.handled /\ p.pClient = o.pClient
  <2>1. CASE e.op = "recv"
    BY <1>1, <1>7, <2>1 DEF Completed, Read, Objects
  <2>2. CASE e.op = "send"
    BY <1>1, <1>7, <2>2 DEF Completed, Written, Objects
  <2> QED BY <1>6, <2>1, <2>2
<1>9. /\ r \in Sockets /\ r.cq = Tail(s.cq)
      /\ r.up = s.up /\ r.down = s.down /\ r.sent = s.sent /\ r.io = s.io /\ r.len = s.len
  BY <1>1, <1>3 DEF Sockets, Queue
<1> HIDE DEF p, r
<1>10. Operations(variant, p, r)
  <2>1. \A i \in 1..Len(r.cq) : r.cq[i].op \in p.posted \ r.io
    BY <1>1, <1>3, <1>8, <1>9 DEF Sound, Operations
  <2>2. r.io \subseteq p.posted
    BY <1>1, <1>5, <1>8, <1>9 DEF Sound, Operations
  <2> QED BY <1>1, <1>3, <1>9, <2>1, <2>2 DEF Operations, Queue
<1>11. Room(p, r)
  <2>1. "send" \in r.io => r.len <= p.sendBuff
    BY <1>1, <1>5, <1>6, <1>8, <1>9 DEF Sound, Room
  <2>2. ASSUME NEW i \in 1..Len(r.cq)
        PROVE  /\ r.cq[i].op = "send" => r.cq[i].bytes <= p.sendBuff
               /\ r.cq[i].op = "recv" => p.recvBuff + r.cq[i].bytes <= RecvSize
    <3>1. i + 1 \in 1..Len(s.cq) /\ r.cq[i] = s.cq[i + 1] /\ s.cq[i + 1].op # e.op
      BY <1>3, <1>9
    <3> QED BY <1>1, <1>6, <1>8, <3>1 DEF Sound, Room
  <2> QED BY <2>1, <2>2 DEF Room
<1>12. Kept(p, r)
  <2> SUFFICES ASSUME p.pClient
               PROVE  /\ p.pushed = p.sendBuff - Port(r.cq, "send") + r.up
                      /\ r.sent * MsgLen = r.down + Port(r.cq, "recv") + p.recvBuff + p.handled * MsgLen
    BY DEF Kept
  <2>1. /\ o.pushed = o.sendBuff - Port(s.cq, "send") + s.up
        /\ s.sent * MsgLen = s.down + Port(s.cq, "recv") + o.recvBuff + o.handled * MsgLen
    BY <1>1, <1>8 DEF Sound, Kept
  <2>2. o.handled * MsgLen \in Nat
    BY <1>1, Constants DEF Objects
  <2>3. CASE e.op = "recv"
    <3>1. Of(e, "recv") = e.bytes /\ Of(e, "send") = 0
      BY <2>3 DEF Of
    <3> QED BY <1>3, <1>6, <1>8, <1>9, <2>1, <2>2, <2>3, <3>1
  <2>4. CASE e.op = "send"
    <3>1. Of(e, "recv") = 0 /\ Of(e, "send") = e.bytes
      BY <2>4 DEF Of
    <3>2. /\ Port(s.cq, "recv") = Port(r.cq, "recv") /\ Port(s.cq, "send") = e.bytes + Port(r.cq, "send")
          /\ Port(r.cq, "send") \in Nat
      BY <1>3, <1>9, <3>1
    <3>3. /\ p.recvBuff = o.recvBuff /\ p.sendBuff = o.sendBuff - e.bytes
          /\ r.sent = s.sent /\ r.down = s.down /\ p.handled = o.handled
      BY <1>8, <1>9, <2>4
    <3>4. p.pushed = p.sendBuff - Port(r.cq, "send") + r.up
      BY <1>6, <1>8, <1>9, <2>1, <3>2, <3>3
    <3> QED BY <2>1, <3>2, <3>3, <3>4
  <2> QED BY <1>6, <2>3, <2>4
<1> QED BY <1>1, <1>8, <1>9, <1>10, <1>11, <1>12, SoundNext DEF Now, Same, Sound

\* A failed wait takes at most a completion without bytes.
LEMMA WaitFailsStep ==
  ASSUME BytesInv, NEW c \in Clients, WaitFails(c) PROVE BytesInv'
<1> DEFINE o == client[c]
           s == net[c]
           p == KeepOpen(o)
           r == [s EXCEPT !.cq = Tail(@)]
<1>1. /\ o \in Objects /\ s \in Sockets /\ Sound(variant, o, s) /\ Queue(s.cq) /\ variant = "iocp"
  BY SoundNow DEF WaitFails, InEvents
<1>2. p \in Objects /\ Alike(o, p)
  BY <1>1 DEF KeepOpen, Objects, Alike
<1>3. CASE Now(c, p, s)
  BY <1>2, <1>3, AlikeStep
<1>4. CASE s.cq # <<>> /\ Head(s.cq).bytes = 0 /\ Now(c, p, r)
  <2>1. /\ Queue(Tail(s.cq)) /\ Head(s.cq) \in Completions
        /\ \A i \in 1..Len(Tail(s.cq)) : i + 1 \in 1..Len(s.cq) /\ Tail(s.cq)[i] = s.cq[i + 1]
        /\ \A op : /\ Port(Tail(s.cq), op) \in Nat
                   /\ Port(s.cq, op) = Of(Head(s.cq), op) + Port(Tail(s.cq), op)
    BY <1>1, <1>4, TailPort
  <2> HIDE DEF o, s, p
  <2>2. Of(Head(s.cq), "recv") = 0 /\ Of(Head(s.cq), "send") = 0
    BY <1>4 DEF Of
  <2>3. /\ r \in Sockets /\ r.cq = Tail(s.cq)
        /\ r.up = s.up /\ r.down = s.down /\ r.sent = s.sent /\ r.io = s.io /\ r.len = s.len
    BY <1>1, <2>1 DEF Sockets, Queue
  <2> HIDE DEF r
  <2>4. Port(r.cq, "recv") = Port(s.cq, "recv") /\ Port(r.cq, "send") = Port(s.cq, "send")
    <3>1. /\ Port(s.cq, "recv") = 0 + Port(r.cq, "recv") /\ Port(s.cq, "send") = 0 + Port(r.cq, "send")
          /\ Port(r.cq, "recv") \in Nat /\ Port(r.cq, "send") \in Nat
      BY <2>1, <2>2, <2>3
    <3> QED BY <3>1
  <2>5. Operations(variant, o, r)
    BY <1>1, <2>1, <2>3 DEF Sound, Operations, Queue
  <2>6. Room(o, r)
    BY <1>1, <2>1, <2>3 DEF Sound, Room
  <2>7. Kept(o, r)
    BY <1>1, <2>3, <2>4 DEF Sound, Kept
  <2>8. Sound(variant, p, r)
    BY <1>2, <2>5, <2>6, <2>7, AlikeSound DEF Sound
  <2> QED BY <1>2, <1>4, <2>3, <2>8, SoundNext DEF Now, Same, o, s
<1> QED BY <1>3, <1>4 DEF WaitFails

\* The whole messages are handled after the last completion.
LEMMA NoEventStep ==
  ASSUME BytesInv, NEW c \in Clients, NoEvent(c) PROVE BytesInv'
<1> DEFINE p == [DoMsg(client[c]) EXCEPT !.todo = {}]
<1>1. net[c] \in Sockets /\ DoMsg(client[c]) \in Objects /\ Sound(variant, DoMsg(client[c]), net[c])
  BY SoundNow, DoMsgSound
<1>2. p \in Objects /\ Alike(DoMsg(client[c]), p)
  BY <1>1 DEF Objects, Alike
<1>3. Sound(variant, p, net[c])
  BY <1>1, <1>2, AlikeSound
<1>4. Now(c, p, net[c])
  BY DEF NoEvent
<1> QED BY <1>1, <1>2, <1>3, <1>4, SoundNext DEF Now, Same

\* The system completes an operation with n bytes, which come from the
\* connection or go into it.
LEMMA CompleteSound ==
  ASSUME BytesInv, NEW c \in Clients, NEW op \in net[c].io, NEW n \in Nat, NEW r \in Sockets,
         op = "send" => n <= client[c].sendBuff,
         op = "recv" => client[c].recvBuff + n <= RecvSize,
         r.io = net[c].io \ {op}, r.cq = Append(net[c].cq, [op |-> op, bytes |-> n]),
         r.len = net[c].len, r.sent = net[c].sent,
         r.up = net[c].up + (IF op = "send" THEN n ELSE 0),
         r.down = net[c].down - (IF op = "recv" THEN n ELSE 0)
  PROVE  Sound(variant, client[c], r)
<1> DEFINE o == client[c]
           s == net[c]
           e == [op |-> op, bytes |-> n]
<1>1. o \in Objects /\ s \in Sockets /\ Sound(variant, o, s) /\ Queue(s.cq)
  BY SoundNow
<1>2. op \in {"recv", "send"} /\ op \in o.posted
  BY <1>1 DEF Sockets, Operation, Sound, Operations
<1>3. e \in Completions /\ e.op = op /\ e.bytes = n
  BY <1>2 DEF Completions
<1>4. r.io = s.io \ {op} /\ r.cq = Append(s.cq, e) /\ r.len = s.len /\ r.sent = s.sent
  OBVIOUS
<1>5. /\ r.up = s.up + (IF op = "send" THEN n ELSE 0) /\ r.down = s.down - (IF op = "recv" THEN n ELSE 0)
      /\ op = "send" => n <= o.sendBuff
      /\ op = "recv" => o.recvBuff + n <= RecvSize
      /\ op \in s.io
  OBVIOUS
<1> HIDE DEF o, s, e
<1>6. \A i \in 1..Len(s.cq) : s.cq[i].op # e.op
  BY <1>1, <1>3, <1>5 DEF Sound, Operations
<1>7. /\ Queue(r.cq)
      /\ \A i \in 1..Len(r.cq) : r.cq[i] = e \/ (i \in 1..Len(s.cq) /\ r.cq[i] = s.cq[i])
      /\ \A x : Port(s.cq, x) \in Nat /\ Port(r.cq, x) = Port(s.cq, x) + Of(e, x)
  <2>1. /\ Queue(Append(s.cq, e))
        /\ \A i \in 1..Len(Append(s.cq, e)) :
             Append(s.cq, e)[i] = e \/ (i \in 1..Len(s.cq) /\ Append(s.cq, e)[i] = s.cq[i])
        /\ \A x : Port(s.cq, x) \in Nat /\ Port(Append(s.cq, e), x) = Port(s.cq, x) + Of(e, x)
    BY <1>1, <1>3, <1>6, AppendPort
  <2> QED BY <1>4, <2>1
<1>8. Operations(variant, o, r)
  <2>1. variant = "iocp"
    BY <1>1, <1>2 DEF Sound, Operations
  <2>2. r.io \subseteq o.posted
    BY <1>1, <1>4 DEF Sound, Operations
  <2>3. \A i \in 1..Len(r.cq) : r.cq[i].op \in o.posted \ r.io
    BY <1>1, <1>2, <1>3, <1>4, <1>7 DEF Sound, Operations
  <2> QED BY <1>7, <2>1, <2>2, <2>3 DEF Operations, Queue
<1>9. Room(o, r)
  <2>1. "send" \in r.io => r.len <= o.sendBuff
    BY <1>1, <1>4 DEF Sound, Room
  <2>2. \A i \in 1..Len(r.cq) : /\ r.cq[i].op = "send" => r.cq[i].bytes <= o.sendBuff
                                /\ r.cq[i].op = "recv" => o.recvBuff + r.cq[i].bytes <= RecvSize
    BY <1>1, <1>3, <1>5, <1>7 DEF Sound, Room
  <2> QED BY <2>1, <2>2 DEF Room
<1>10. Kept(o, r)
  <2> SUFFICES ASSUME o.pClient
               PROVE  /\ o.pushed = o.sendBuff - Port(r.cq, "send") + r.up
                      /\ r.sent * MsgLen = r.down + Port(r.cq, "recv") + o.recvBuff + o.handled * MsgLen
    BY DEF Kept
  <2>1. /\ o.pushed = o.sendBuff - Port(s.cq, "send") + s.up
        /\ s.sent * MsgLen = s.down + Port(s.cq, "recv") + o.recvBuff + o.handled * MsgLen
    BY <1>1 DEF Sound, Kept
  <2>2. /\ o.sendBuff \in Int /\ o.recvBuff \in Int /\ o.handled * MsgLen \in Int
        /\ s.up \in Nat /\ s.down \in Nat
    BY <1>1, Constants DEF Objects, Sockets
  <2>3. /\ Of(e, "send") = (IF op = "send" THEN n ELSE 0) /\ Of(e, "recv") = (IF op = "recv" THEN n ELSE 0)
    BY <1>3 DEF Of
  <2>4. /\ Port(s.cq, "send") \in Nat /\ Port(r.cq, "send") = Port(s.cq, "send") + (IF op = "send" THEN n ELSE 0)
        /\ Port(s.cq, "recv") \in Nat /\ Port(r.cq, "recv") = Port(s.cq, "recv") + (IF op = "recv" THEN n ELSE 0)
    BY <1>7, <2>3
  <2>5. o.pushed = o.sendBuff - Port(r.cq, "send") + r.up
    BY <1>5, <2>1, <2>2, <2>4
  <2>6. r.sent * MsgLen = r.down + Port(r.cq, "recv") + o.recvBuff + o.handled * MsgLen
    BY <1>4, <1>5, <2>1, <2>2, <2>4
  <2> QED BY <2>5, <2>6
<1> QED BY <1>8, <1>9, <1>10 DEF Sound, o

LEMMA RecvDoneStep ==
  ASSUME BytesInv, NEW c \in Clients, RecvDone(c) PROVE BytesInv'
<1>1. /\ client[c] \in Objects /\ net[c] \in Sockets /\ Queue(net[c].cq) /\ RecvSize \in Nat
      /\ "recv" \in net[c].io
  BY SoundNow, Constants DEF RecvDone
<1>2. PICK n \in 1..net[c].down :
        /\ n <= RecvSize - client[c].recvBuff
        /\ net' = [net EXCEPT ![c] = [Complete(c, "recv", n) EXCEPT !.down = @ - n]]
  BY DEF RecvDone
<1> DEFINE e == [op |-> "recv", bytes |-> n]
           q == Append(net[c].cq, e)
           r == [Complete(c, "recv", n) EXCEPT !.down = @ - n]
<1>3. /\ net[c].down \in Nat /\ n \in Nat /\ net[c].down - n \in Nat /\ client[c].recvBuff \in Nat
      /\ net[c].up \in Nat /\ client[c].recvBuff + n <= RecvSize
  <2>1. net[c].down \in Nat /\ client[c].recvBuff \in 0..RecvSize /\ net[c].up \in Nat
    BY <1>1 DEF Objects, Sockets
  <2> QED BY <1>1, <1>2, <2>1
<1>4. q \in Seq(Completions)
  <2>1. e \in Completions /\ net[c].cq \in Seq(Completions)
    BY <1>1, <1>3 DEF Completions, Queue
  <2> QED BY <2>1
<1> HIDE DEF q
<1>5. r \in Sockets
  BY <1>1, <1>3, <1>4 DEF Complete, Sockets, q
<1>6. /\ r.io = net[c].io \ {"recv"} /\ r.cq = q /\ r.len = net[c].len /\ r.sent = net[c].sent
      /\ r.up = net[c].up /\ r.down = net[c].down - n
  BY <1>1 DEF Complete, Sockets, q
<1>7. net' = [net EXCEPT ![c] = r] /\ client' = client /\ variant' = variant
  BY <1>2 DEF RecvDone, Same
<1> HIDE DEF r
<1>8. Sound(variant, client[c], r)
  <2>1. r.up = net[c].up + (IF "recv" = "send" THEN n ELSE 0) /\ r.down = net[c].down - (IF "recv" = "recv" THEN n ELSE 0)
    BY <1>3, <1>6
  <2> QED BY <1>1, <1>3, <1>5, <1>6, <2>1, CompleteSound DEF q
<1> QED BY <1>1, <1>5, <1>7, <1>8, SystemNext

LEMMA SendDoneStep ==
  ASSUME BytesInv, NEW c \in Clients, SendDone(c) PROVE BytesInv'
<1>1. /\ client[c] \in Objects /\ net[c] \in Sockets /\ Queue(net[c].cq) /\ Room(client[c], net[c])
      /\ "send" \in net[c].io
  BY SoundNow DEF SendDone, Sound
<1>2. PICK n \in 1..net[c].len :
        net' = [net EXCEPT ![c] = [Complete(c, "send", n) EXCEPT !.up = @ + n]]
  BY DEF SendDone
<1> DEFINE e == [op |-> "send", bytes |-> n]
           q == Append(net[c].cq, e)
           r == [Complete(c, "send", n) EXCEPT !.up = @ + n]
<1>3. /\ net[c].up \in Nat /\ n \in Nat /\ net[c].up + n \in Nat /\ n <= client[c].sendBuff /\ net[c].down \in Nat
  <2>1. /\ net[c].up \in Nat /\ net[c].len \in Nat /\ net[c].down \in Nat /\ client[c].sendBuff \in 0..SendSize
        /\ net[c].len <= client[c].sendBuff
    BY <1>1 DEF Objects, Sockets, Room
  <2> QED BY <1>2, <2>1
<1>4. q \in Seq(Completions)
  <2>1. e \in Completions /\ net[c].cq \in Seq(Completions)
    BY <1>1, <1>3 DEF Completions, Queue
  <2> QED BY <2>1
<1> HIDE DEF q
<1>5. r \in Sockets
  BY <1>1, <1>3, <1>4 DEF Complete, Sockets, q
<1>6. /\ r.io = net[c].io \ {"send"} /\ r.cq = q /\ r.len = net[c].len /\ r.sent = net[c].sent
      /\ r.up = net[c].up + n /\ r.down = net[c].down
  BY <1>1 DEF Complete, Sockets, q
<1>7. net' = [net EXCEPT ![c] = r] /\ client' = client /\ variant' = variant
  BY <1>2 DEF SendDone, Same
<1> HIDE DEF r
<1>8. Sound(variant, client[c], r)
  <2>1. r.up = net[c].up + (IF "send" = "send" THEN n ELSE 0) /\ r.down = net[c].down - (IF "send" = "recv" THEN n ELSE 0)
    BY <1>3, <1>6
  <2> QED BY <1>1, <1>3, <1>5, <1>6, <2>1, CompleteSound DEF q
<1> QED BY <1>1, <1>5, <1>7, <1>8, SystemNext

\* The end of a connection completes what is outstanding without bytes.
LEMMA EndedStep ==
  ASSUME BytesInv, NEW c \in Clients, Ended(c) PROVE BytesInv'
<1>1. PICK op \in net[c].io : net' = [net EXCEPT ![c] = Complete(c, op, 0)]
  BY DEF Ended
<1>2. /\ client[c] \in Objects /\ net[c] \in Sockets /\ Queue(net[c].cq) /\ RecvSize \in Nat /\ SendSize \in Nat
  BY SoundNow, Constants
<1> DEFINE e == [op |-> op, bytes |-> 0]
           q == Append(net[c].cq, e)
           r == Complete(c, op, 0)
<1>3. /\ net[c].up \in Nat /\ net[c].down \in Nat /\ 0 <= client[c].sendBuff
      /\ client[c].recvBuff + 0 <= RecvSize
  <2>1. net[c].up \in Nat /\ net[c].down \in Nat /\ client[c].recvBuff \in 0..RecvSize /\ client[c].sendBuff \in 0..SendSize
    BY <1>2 DEF Objects, Sockets
  <2> QED BY <1>2, <2>1
<1>4. q \in Seq(Completions)
  <2>1. e \in Completions /\ net[c].cq \in Seq(Completions)
    BY <1>2 DEF Completions, Queue, Sockets, Operation
  <2> QED BY <2>1
<1> HIDE DEF q
<1>5. r \in Sockets
  BY <1>2, <1>4 DEF Complete, Sockets, q
<1>6. /\ r.io = net[c].io \ {op} /\ r.cq = q /\ r.len = net[c].len /\ r.sent = net[c].sent
      /\ r.up = net[c].up /\ r.down = net[c].down
  BY <1>2 DEF Complete, Sockets, q
<1>7. net' = [net EXCEPT ![c] = r] /\ client' = client /\ variant' = variant
  BY <1>1 DEF Ended, Same
<1> HIDE DEF r
<1>8. Sound(variant, client[c], r)
  <2>1. r.up = net[c].up + (IF op = "send" THEN 0 ELSE 0) /\ r.down = net[c].down - (IF op = "recv" THEN 0 ELSE 0)
    BY <1>3, <1>6
  <2> QED BY <1>2, <1>3, <1>5, <1>6, <2>1, CompleteSound DEF q
<1> QED BY <1>2, <1>5, <1>7, <1>8, SystemNext

\* The server writes a message into the connection.
LEMMA ServerSendStep ==
  ASSUME BytesInv, NEW c \in Clients, ServerSend(c) PROVE BytesInv'
<1> DEFINE o == client[c]
           s == net[c]
           r == [s EXCEPT !.sent = @ + 1, !.down = @ + MsgLen]
<1>1. /\ o \in Objects /\ s \in Sockets /\ Sound(variant, o, s) /\ Port(s.cq, "recv") \in Nat /\ MsgLen \in Nat
  BY SoundNow, Constants
<1>2. /\ net' = [net EXCEPT ![c].sent = @ + 1, ![c].down = @ + MsgLen]
      /\ client' = client /\ variant' = variant
  BY DEF ServerSend, Same
<1>3. net' = [net EXCEPT ![c] = r]
  BY <1>1, <1>2 DEF BytesInv, Sockets
<1> HIDE DEF o, s
<1>4. s.sent \in Nat /\ s.down \in Nat /\ s.sent + 1 \in Nat /\ s.down + MsgLen \in Nat /\ o.recvBuff \in Nat
      /\ o.handled * MsgLen \in Nat
  <2>1. s.sent \in Nat /\ s.down \in Nat /\ o.recvBuff \in 0..RecvSize /\ o.handled \in Nat
    BY <1>1 DEF Sockets, Objects
  <2> QED BY <1>1, <2>1, Constants
<1>5. r \in Sockets
  BY <1>1, <1>4 DEF Sockets
<1>6. /\ r.sent = s.sent + 1 /\ r.down = s.down + MsgLen /\ r.up = s.up /\ r.io = s.io
      /\ r.len = s.len /\ r.cq = s.cq
  BY <1>1 DEF Sockets
<1> HIDE DEF r
<1>7. (s.sent + 1) * MsgLen = s.sent * MsgLen + MsgLen /\ s.sent * MsgLen \in Nat
  BY <1>1, <1>4
<1>8. Operations(variant, o, r) /\ Room(o, r)
  BY <1>1, <1>6 DEF Sound, Operations, Room
<1>9. Kept(o, r)
  BY <1>1, <1>4, <1>6, <1>7 DEF Sound, Kept
<1> QED BY <1>1, <1>2, <1>3, <1>5, <1>8, <1>9, SystemNext DEF o, Sound

-----------------------------------------------------------------------------
\* Whatever a client, its system, its peer or the accept thread does next.
LEMMA BytesStep == BytesInv /\ [AllNext]_allVars => BytesInv'
<1> SUFFICES ASSUME BytesInv, [AllNext]_allVars PROVE BytesInv'
  OBVIOUS
<1>1. CASE ClientStep
  <2>1. PICK c \in Clients : (Owner(c) /\ (Connect(c) => listening)) \/ OnRun(c) \/ System(c) \/ Peer(c)
    BY <1>1 DEF ClientStep
  <2>2. CASE Owner(c)
    <3>1. CASE Connect(c)
      <4> DEFINE o == [client[c] EXCEPT !.isConnect = TRUE]
      <4>1. o \in Objects /\ Alike(client[c], o) /\ Now(c, o, net[c])
        BY <3>1, SoundNow DEF Connect, Objects, Alike
      <4> QED BY <4>1, AlikeStep
    <3>2. CASE Close(c)
      BY <3>2, CloseStep DEF Close
    <3> QED BY <2>2, <3>1, <3>2, InitSocketStep, SendDataStep DEF Owner
  <2>3. CASE OnRun(c)
    <3>1. CASE Poll(c)
      <4> DEFINE o == [client[c] EXCEPT !.todo = Ready(c)]
      <4>1. o \in Objects /\ Alike(client[c], o) /\ Now(c, o, net[c])
        <5>1. Ready(c) \subseteq Operation
          BY DEF Ready, Asked, Operation
        <5> QED BY <3>1, <5>1, SoundNow DEF Poll, Objects, Alike
      <4> QED BY <4>1, AlikeStep
    <3>2. CASE CallFails(c) \/ PostFails(c) \/ EventLost(c)
      BY <3>2, CloseStep DEF CallFails, PostFails, EventLost
    <3> QED BY <2>3, <3>1, <3>2, PollFailsStep, RecvStep, SendStep, PostStep, EventStep, NoEventStep,
              WaitFailsStep DEF OnRun
  <2>4. CASE System(c)
    BY <2>4, RecvDoneStep, SendDoneStep, EndedStep DEF System
  <2>5. CASE Peer(c)
    <3>1. CASE Reset(c)
      BY <3>1 DEF Reset, Same, BytesInv
    <3> QED BY <2>5, <3>1, ServerSendStep DEF Peer
  <2> QED BY <2>1, <2>2, <2>3, <2>4, <2>5
<1>2. CASE ServerStep
  BY <1>2 DEF ServerStep, BytesInv
<1>3. CASE UNCHANGED allVars
  BY <1>3 DEF allVars, vars, BytesInv
<1> QED BY <1>1, <1>2, <1>3 DEF AllNext

LEMMA BytesHolds == Spec => []BytesInv
<1>1. AllInit => BytesInv
  <2> SUFFICES ASSUME AllInit PROVE BytesInv
    OBVIOUS
  <2>1. client = [c \in Clients |-> NoObject] /\ net = [c \in Clients |-> NoSocket]
    BY DEF AllInit, Init
  <2>2. NoObject \in Objects
    BY Constants DEF NoObject, Objects
  <2>3. NoSocket \in Sockets
    <3>1. <<>> \in Seq(Completions)
      OBVIOUS
    <3> QED BY <3>1 DEF NoSocket, Sockets
  <2>4. Distinct(<<>>) /\ Len(<<>>) = 0
    BY EmptyPort DEF Queue
  <2>5. Sound(variant, NoObject, NoSocket)
    BY <2>4 DEF Sound, Operations, Room, Kept, NoObject, NoSocket
  <2> QED BY <2>1, <2>2, <2>3, <2>5 DEF BytesInv
<1> QED BY <1>1, BytesStep, PTL DEF Spec

\* No unit is lost or doubled between the buffers of a client and the server,
\* whichever variant moves them, whatever faults there are and for buffers,
\* messages and connections of every size and number.
THEOREM BytesAreKept == Spec => []BytesKept
<1>1. BytesInv => BytesKept
  <2>1. \A c, op : AtPort(c, op) = Port(net[c].cq, op)
    BY DEF AtPort, Port
  <2> QED BY <2>1 DEF BytesInv, BytesKept, Sound, Kept
<1> QED BY <1>1, BytesHolds, PTL

-----------------------------------------------------------------------------
(* Types                                                                   *)

\* The types of what the accept thread keeps, and of what never changes.
ServerInv ==
  /\ variant \in Variants /\ faults \in FaultSets
  /\ link \in [Conns -> Server!States]
  /\ accept \in {"none", "posted", "done"} /\ taken \subseteq Conns /\ serving \subseteq Conns
  /\ pc \in {"post", "wait", "accept", "ended"} /\ {isRun, listening} \subseteq BOOLEAN

\* A connection changes into one of the known states only.
LEMMA LinkType ==
  ASSUME link \in [Conns -> Server!States], NEW S, NEW state \in Server!States, NEW k
  PROVE  Server!Become(S, state) \in [Conns -> Server!States] /\ [link EXCEPT ![k] = state] \in [Conns -> Server!States]
BY DEF Server!Become

\* The class and the faults of an execution never change.
LEMMA SameExecution == [AllNext]_allVars => UNCHANGED <<variant, faults>>
<1> SUFFICES ASSUME [AllNext]_allVars PROVE UNCHANGED <<variant, faults>>
  OBVIOUS
<1>1. CASE ClientStep
  BY <1>1 DEF ClientStep, Owner, OnRun, System, Peer, InitSocket, Connect, SendData, Close, Poll, PollFails, Recv,
     Send, CallFails, Post, PostFails, Event, EventLost, NoEvent, WaitFails, RecvDone, SendDone, Ended, ServerSend,
     Reset, ReturnFalse, Now, Same
<1>2. CASE ServerStep
  BY <1>2 DEF ServerStep, Server!Next, Server!Acceptor, Server!Outside, Server!PostAccept, Server!PostAcceptFails,
     Server!Wait, Server!WaitFails, Server!Accepted, Server!Refused, Server!Ends, Server!AcceptDone,
     Server!CloseAccept, Server!CloseListening, Server!Leave
<1>3. CASE UNCHANGED allVars
  BY <1>3 DEF allVars, vars
<1> QED BY <1>1, <1>2, <1>3 DEF AllNext

LEMMA ServerInvStep == ServerInv /\ [AllNext]_allVars => ServerInv'
<1> SUFFICES ASSUME ServerInv, [AllNext]_allVars PROVE ServerInv'
  OBVIOUS
<1> USE DEF ServerInv
<1>1. CASE ClientStep
  <2>1. PICK c \in Clients : Owner(c) \/ OnRun(c) \/ System(c) \/ Peer(c)
    BY <1>1 DEF ClientStep
  <2>2. UNCHANGED <<variant, faults>>
    BY SameExecution
  <2>3. link' = link \/ (\E k, state : state \in {"queued", "reset"} /\ link' = [link EXCEPT ![k] = state])
    BY <2>1 DEF Owner, OnRun, System, Peer, InitSocket, Connect, SendData, Close, Poll, PollFails, Recv, Send,
       CallFails, Post, PostFails, Event, EventLost, NoEvent, WaitFails, RecvDone, SendDone, Ended, ServerSend,
       Reset, ReturnFalse
  <2>4. link' \in [Conns -> Server!States]
    <3>1. {"queued", "reset"} \subseteq Server!States
      BY DEF Server!States
    <3> QED BY <2>3, <3>1, LinkType
  <2> QED BY <1>1, <2>2, <2>4 DEF ClientStep, serverVars
<1>2. CASE ServerStep
  <2>1. UNCHANGED <<variant, faults>>
    BY SameExecution
  <2>2. link' \in [Conns -> Server!States]
    <3>1. {"taken", "served", "refused", "left", "reset"} \subseteq Server!States
      BY DEF Server!States
    <3>2. \/ link' = link
          \/ \E k : link' = [link EXCEPT ![k] = "taken"]
          \/ \E S : \E state \in {"served", "refused", "left", "reset"} : link' = Server!Become(S, state)
      BY <1>2 DEF ServerStep, Server!Next, Server!Acceptor, Server!Outside, Server!PostAccept, Server!PostAcceptFails,
         Server!Wait, Server!WaitFails, Server!Accepted, Server!Refused, Server!Ends, Server!AcceptDone,
         Server!CloseAccept, Server!CloseListening, Server!Leave
    <3> QED BY <3>1, <3>2, LinkType
  <2>3. /\ accept' \in {"none", "posted", "done"} /\ taken' \subseteq Conns /\ serving' \subseteq Conns
        /\ pc' \in {"post", "wait", "accept", "ended"} /\ {isRun', listening'} \subseteq BOOLEAN
    BY <1>2 DEF ServerStep, Server!Next, Server!Acceptor, Server!Outside, Server!PostAccept, Server!PostAcceptFails,
       Server!Wait, Server!WaitFails, Server!Accepted, Server!Refused, Server!Ends, Server!AcceptDone,
       Server!CloseAccept, Server!CloseListening, Server!Leave
  <2> QED BY <2>1, <2>2, <2>3
<1>3. CASE UNCHANGED allVars
  BY <1>3 DEF allVars, vars, serverVars
<1> QED BY <1>1, <1>2, <1>3 DEF AllNext

LEMMA ServerInvHolds == Spec => []ServerInv
<1>1. AllInit => ServerInv
  BY DEF AllInit, Init, Server!Init, ServerInv, Server!States
<1> QED BY <1>1, ServerInvStep, PTL DEF Spec

\* Buffers stay within their capacities, no operation is outstanding whose
\* flag is not set, and a connection is in one of its states.
THEOREM ConnectionTypes == Spec => []TypeOK
<1>1. BytesInv /\ ServerInv => TypeOK
  <2> SUFFICES ASSUME BytesInv, ServerInv PROVE TypeOK
    OBVIOUS
  <2>1. ASSUME NEW c \in Clients
        PROVE  /\ client[c].sendBuff \in 0..SendSize /\ client[c].recvBuff \in 0..RecvSize
               /\ client[c].posted \subseteq {"recv", "send"}
               /\ client[c].inits \in 0..MaxInits
               /\ net[c].io \subseteq client[c].posted /\ net[c].cq \in Seq(Completions)
    BY SoundNow DEF Objects, Operation, Sound, Operations, Queue
  <2> QED BY <2>1 DEF TypeOK, ServerInv
<1> QED BY <1>1, ServerInvHolds, BytesHolds, PTL

-----------------------------------------------------------------------------
(* The end of a connection                                                 *)

\* The server refused or left the connection, or it was reset.
Over(c) == State(c) \in {"refused", "left", "reset"}

LossInv ==
  /\ \A k \in taken : link[k] \in {"taken", "reset"}
  /\ \A k \in serving : link[k] \in {"served", "reset"}
  /\ \A c \in Clients : \A i \in 1..Len(net[c].cq) : net[c].cq[i].bytes = 0 => Over(c)
  /\ faults = {} => \A c \in Clients : client[c].lost => ~client[c].pClient /\ Over(c)

\* A connection that is over stays so, whatever the accept thread does.
LEMMA ServerKeepsOver ==
  ASSUME ServerInv, LossInv, ServerStep
  PROVE  /\ \A k \in Conns : link[k] \in {"refused", "left", "reset"} => link'[k] \in {"refused", "left", "reset"}
         /\ \A k \in taken' : link'[k] \in {"taken", "reset"}
         /\ \A k \in serving' : link'[k] \in {"served", "reset"}
<1> USE DEF ServerInv, LossInv
<1>1. CASE \E k \in Conns : Server!AcceptDone(k)
  BY <1>1 DEF Server!AcceptDone
<1>2. CASE Server!Accepted
  BY <1>2 DEF Server!Accepted, Server!Become
<1>3. CASE Server!Refused
  BY <1>3 DEF Server!Refused, Server!Become
<1>4. CASE \E k \in Conns : Server!Leave(k)
  BY <1>4 DEF Server!Leave, Server!Become
<1>5. CASE Server!CloseListening
  BY <1>5 DEF Server!CloseListening, Server!Become
<1>6. CASE UNCHANGED <<link, taken, serving>>
  BY <1>6
<1> QED BY <1>1, <1>2, <1>3, <1>4, <1>5, <1>6 DEF ServerStep, Server!Next, Server!Acceptor, Server!Outside,
      Server!PostAccept, Server!PostAcceptFails, Server!Wait, Server!WaitFails, Server!Ends, Server!CloseAccept

\* What a client may do to its connection.
LinkEffect ==
  \A k \in Conns : \/ link'[k] = link[k]
                   \/ link[k] = "none" /\ link'[k] = "queued"
                   \/ link'[k] = "reset"

\* No completion without bytes, and no loss that was reported, of a
\* connection that is not over.
Honest(c, o, s) ==
  /\ \A i \in 1..Len(s.cq) : s.cq[i].bytes = 0 => Over(c)
  /\ faults = {} /\ o.lost => ~o.pClient /\ Over(c)

\* The queue and the report of a client start anew with InitSocket.
Effect(c) ==
  \E o \in Objects, s \in Sockets :
    /\ client' = [client EXCEPT ![c] = o] /\ net' = [net EXCEPT ![c] = s]
    /\ \/ s.cq = <<>> /\ ~o.lost
       \/ o.inits = client[c].inits /\ Honest(c, o, s)

LEMMA HonestNow ==
  ASSUME BytesInv, LossInv, NEW c \in Clients
  PROVE  client[c] \in Objects /\ net[c] \in Sockets /\ Honest(c, client[c], net[c])
BY SoundNow DEF LossInv, Honest

\* Both invariants of the types give what a step leaves.
LEMMA EffectIntro ==
  ASSUME BytesInv, BytesInv', NEW c \in Clients, NEW o, NEW s,
         client' = [client EXCEPT ![c] = o], net' = [net EXCEPT ![c] = s],
         (s.cq = <<>> /\ ~o.lost) \/ (o.inits = client[c].inits /\ Honest(c, o, s))
  PROVE  Effect(c)
<1>1. o = client'[c] /\ s = net'[c]
  BY DEF BytesInv
<1>2. o \in Objects /\ s \in Sockets
  BY <1>1 DEF BytesInv
<1> QED BY <1>2 DEF Effect

\* Close leaves nothing at the port; OnRun may report it if the connection is
\* over, or if faults are allowed.
LEMMA CloseEffect ==
  ASSUME BytesInv, BytesInv', LossInv, NEW c \in Clients,
         \/ Now(c, Closed(client[c]), Gone(net[c]))
         \/ ReturnFalse(c) /\ (faults = {} => Over(c))
  PROVE  Effect(c)
<1>1. client[c] \in Objects /\ net[c] \in Sockets /\ Honest(c, client[c], net[c])
  BY HonestNow
<1>2. PICK o \in {Closed(client[c]), [Closed(client[c]) EXCEPT !.lost = TRUE]} :
        /\ Now(c, o, Gone(net[c]))
        /\ o = Closed(client[c]) \/ (faults = {} => Over(c))
  BY DEF ReturnFalse
<1>3. /\ o.inits = client[c].inits /\ ~o.pClient
      /\ o = Closed(client[c]) => o.lost = client[c].lost
      /\ Gone(net[c]).cq = <<>> /\ Len(<<>>) = 0
  BY <1>1, <1>2 DEF Closed, Gone, Objects, Sockets
<1>4. Honest(c, o, Gone(net[c]))
  BY <1>1, <1>2, <1>3 DEF Honest
<1> QED BY <1>2, <1>3, <1>4, EffectIntro DEF Now

LEMMA OwnerEffect ==
  ASSUME BytesInv, BytesInv', LossInv, NEW c \in Clients, Owner(c) PROVE Effect(c)
<1> USE HonestNow
<1>1. CASE InitSocket(c)
  BY <1>1, EffectIntro DEF InitSocket, Now, NoObject, NoSocket
<1>2. CASE Connect(c)
  <2> DEFINE o == [client[c] EXCEPT !.isConnect = TRUE]
  <2>1. o.inits = client[c].inits /\ o.lost = client[c].lost /\ o.pClient = client[c].pClient
    BY DEF Objects
  <2>2. Now(c, o, net[c])
    BY <1>2 DEF Connect
  <2> HIDE DEF o
  <2> QED BY <2>1, <2>2, EffectIntro DEF Now, Honest
<1>3. CASE SendData(c)
  <2> DEFINE o == [client[c] EXCEPT !.sendBuff = @ + 1, !.pushed = @ + 1]
  <2>1. o.inits = client[c].inits /\ o.lost = client[c].lost /\ o.pClient = client[c].pClient
    BY DEF Objects
  <2>2. Now(c, o, net[c])
    BY <1>3 DEF SendData
  <2> HIDE DEF o
  <2> QED BY <2>1, <2>2, EffectIntro DEF Now, Honest
<1>4. CASE Close(c)
  BY <1>4, CloseEffect DEF Close
<1> QED BY <1>1, <1>2, <1>3, <1>4 DEF Owner

\* A call of OnRun that goes on, or returns true.
LEMMA TurnEffect ==
  ASSUME BytesInv, BytesInv', LossInv, NEW c \in Clients, NEW o, NEW s, Now(c, o, s),
         o.inits = client[c].inits, o.lost = client[c].lost, o.pClient = client[c].pClient,
         s.cq = net[c].cq \/ (net[c].cq # <<>> /\ s.cq = Tail(net[c].cq))
  PROVE  Effect(c)
<1>1. Honest(c, client[c], net[c]) /\ Queue(net[c].cq)
  BY HonestNow, SoundNow
<1>2. \A i \in 1..Len(s.cq) : s.cq[i].bytes = 0 => Over(c)
  <2>1. CASE s.cq = net[c].cq
    BY <1>1, <2>1 DEF Honest
  <2>2. CASE net[c].cq # <<>> /\ s.cq = Tail(net[c].cq)
    BY <1>1, <2>2, TailPort DEF Honest
  <2> QED BY <2>1, <2>2
<1>3. Honest(c, o, s)
  BY <1>1, <1>2 DEF Honest
<1> QED BY <1>3, EffectIntro DEF Now

LEMMA OnRunEffect ==
  ASSUME BytesInv, BytesInv', LossInv, NEW c \in Clients, OnRun(c) PROVE Effect(c)
<1>0. client[c] \in Objects /\ net[c] \in Sockets /\ Honest(c, client[c], net[c]) /\ Queue(net[c].cq)
  BY HonestNow, SoundNow
<1>1. CASE Poll(c)
  <2> DEFINE o == [client[c] EXCEPT !.todo = Ready(c)]
  <2>1. o.inits = client[c].inits /\ o.lost = client[c].lost /\ o.pClient = client[c].pClient
    BY <1>0 DEF Objects
  <2>2. Now(c, o, net[c])
    BY <1>1 DEF Poll
  <2> HIDE DEF o
  <2> QED BY <2>1, <2>2, TurnEffect
<1>2. CASE PollFails(c)
  <2>1. faults # {}
    BY <1>2 DEF PollFails
  <2>2. CASE ReturnFalse(c)
    BY <2>1, <2>2, CloseEffect
  <2>3. CASE Now(c, KeepOpen(client[c]), net[c])
    BY <1>0, <2>3, TurnEffect DEF KeepOpen, Objects
  <2> QED BY <1>2, <2>2, <2>3 DEF PollFails
<1>3. CASE Recv(c)
  <2>1. PICK n : Now(c, [DoMsg(Read(client[c], n)) EXCEPT !.todo = @ \ {"recv"}], [net[c] EXCEPT !.down = @ - n])
    BY <1>3 DEF Recv
  <2> DEFINE o == [DoMsg(Read(client[c], n)) EXCEPT !.todo = @ \ {"recv"}]
             s == [net[c] EXCEPT !.down = @ - n]
  <2>2. o.inits = client[c].inits /\ o.lost = client[c].lost /\ o.pClient = client[c].pClient
    BY <1>0 DEF DoMsg, Read, Objects
  <2>3. s.cq = net[c].cq
    BY <1>0 DEF Sockets
  <2> HIDE DEF o, s
  <2> QED BY <2>1, <2>2, <2>3, TurnEffect DEF o, s
<1>4. CASE Send(c)
  <2>1. PICK n : Now(c, [Written(client[c], n) EXCEPT !.todo = {}], [net[c] EXCEPT !.up = @ + n])
    BY <1>4 DEF Send
  <2> DEFINE o == [Written(client[c], n) EXCEPT !.todo = {}]
             s == [net[c] EXCEPT !.up = @ + n]
  <2>2. o.inits = client[c].inits /\ o.lost = client[c].lost /\ o.pClient = client[c].pClient
    BY <1>0 DEF Written, Objects
  <2>3. s.cq = net[c].cq
    BY <1>0 DEF Sockets
  <2> HIDE DEF o, s
  <2> QED BY <2>1, <2>2, <2>3, TurnEffect DEF o, s
<1>5. CASE CallFails(c)
  <2>1. Over(c)
    BY <1>5 DEF CallFails, RecvFails, SendFails, IsReset, AtEof, Over
  <2> QED BY <1>5, <2>1, CloseEffect DEF CallFails
<1>6. CASE Post(c)
  <2> DEFINE o == [client[c] EXCEPT !.posted = @ \cup ToPost(c), !.todo = {"events"}]
             s == [net[c] EXCEPT !.io = @ \cup Given(c),
                                 !.len = IF "send" \in Given(c) THEN client[c].sendBuff ELSE @]
  <2>1. Now(c, o, s)
    BY <1>6 DEF Post
  <2>2. o.inits = client[c].inits /\ o.lost = client[c].lost /\ o.pClient = client[c].pClient
    BY <1>0 DEF Objects
  <2>3. s.cq = net[c].cq
    BY <1>0 DEF Sockets
  <2> HIDE DEF o, s
  <2> QED BY <2>1, <2>2, <2>3, TurnEffect
<1>7. CASE PostFails(c)
  <2>1. faults = {} => Over(c)
    BY <1>7 DEF PostFails, IsReset, Over
  <2> QED BY <1>7, <2>1, CloseEffect DEF PostFails
<1>8. CASE Event(c)
  <2> DEFINE e == Head(net[c].cq)
             o == Completed(IF e.op = "recv" THEN Read(client[c], e.bytes) ELSE Written(client[c], e.bytes), e.op)
             s == [net[c] EXCEPT !.cq = Tail(@)]
  <2>1. Now(c, o, s) /\ net[c].cq # <<>>
    BY <1>8 DEF Event
  <2>2. o.inits = client[c].inits /\ o.lost = client[c].lost /\ o.pClient = client[c].pClient
    <3>1. CASE e.op = "recv"
      BY <1>0, <3>1 DEF Completed, Read, Objects
    <3>2. CASE e.op # "recv"
      BY <1>0, <3>2 DEF Completed, Written, Objects
    <3> QED BY <3>1, <3>2
  <2>3. s.cq = Tail(net[c].cq)
    BY <1>0 DEF Sockets
  <2> HIDE DEF o, s
  <2> QED BY <2>1, <2>2, <2>3, TurnEffect
<1>9. CASE EventLost(c)
  <2>1. net[c].cq # <<>> /\ Head(net[c].cq).bytes = 0 /\ ReturnFalse(c)
    BY <1>9 DEF EventLost
  <2>2. 1 \in 1..Len(net[c].cq) /\ Head(net[c].cq) = net[c].cq[1]
    BY <1>0, <2>1 DEF Queue
  <2>3. Over(c)
    BY <1>0, <2>1, <2>2 DEF Honest
  <2> QED BY <2>1, <2>3, CloseEffect
<1>10. CASE NoEvent(c)
  <2> DEFINE o == [DoMsg(client[c]) EXCEPT !.todo = {}]
  <2>1. o.inits = client[c].inits /\ o.lost = client[c].lost /\ o.pClient = client[c].pClient
    BY <1>0 DEF DoMsg, Objects
  <2>2. Now(c, o, net[c])
    BY <1>10 DEF NoEvent
  <2> HIDE DEF o
  <2> QED BY <2>1, <2>2, TurnEffect
<1>11. CASE WaitFails(c)
  <2> DEFINE o == KeepOpen(client[c])
             s == [net[c] EXCEPT !.cq = Tail(@)]
  <2>1. Now(c, o, net[c]) \/ (Now(c, o, s) /\ net[c].cq # <<>>)
    BY <1>11 DEF WaitFails
  <2>2. o.inits = client[c].inits /\ o.lost = client[c].lost /\ o.pClient = client[c].pClient
    BY <1>0 DEF KeepOpen, Objects
  <2>3. s.cq = Tail(net[c].cq)
    BY <1>0 DEF Sockets
  <2> HIDE DEF o, s
  <2> QED BY <2>1, <2>2, <2>3, TurnEffect
<1> QED BY <1>1, <1>2, <1>3, <1>4, <1>5, <1>6, <1>7, <1>8, <1>9, <1>10, <1>11 DEF OnRun

\* The system completes with bytes, or without if the connection is over.
LEMMA SystemEffect ==
  ASSUME BytesInv, BytesInv', LossInv, NEW c \in Clients, System(c) \/ Peer(c) PROVE Effect(c)
<1>0. client[c] \in Objects /\ net[c] \in Sockets /\ Honest(c, client[c], net[c]) /\ Queue(net[c].cq)
  BY HonestNow, SoundNow
<1>1. ASSUME NEW op \in net[c].io, NEW n \in Nat, n = 0 => Over(c), NEW s,
             client' = client, net' = [net EXCEPT ![c] = s],
             s.cq = Append(net[c].cq, [op |-> op, bytes |-> n])
      PROVE  Effect(c)
  <2> DEFINE e == [op |-> op, bytes |-> n]
  <2>1. e \in Completions /\ op \in client[c].posted
    BY <1>0, <1>1, SoundNow DEF Sockets, Operation, Completions, Sound, Operations
  <2>2. \A i \in 1..Len(net[c].cq) : net[c].cq[i].op # op
    BY <1>1, SoundNow DEF Sound, Operations
  <2>3. \A i \in 1..Len(s.cq) : s.cq[i] = e \/ (i \in 1..Len(net[c].cq) /\ s.cq[i] = net[c].cq[i])
    BY <1>0, <1>1, <2>1, <2>2, AppendPort
  <2>4. Honest(c, client[c], s)
    BY <1>0, <1>1, <2>3 DEF Honest
  <2>5. client' = [client EXCEPT ![c] = client[c]]
    BY <1>1 DEF BytesInv
  <2> QED BY <1>1, <2>4, <2>5, EffectIntro
<1>2. CASE RecvDone(c)
  <2>1. PICK n \in 1..net[c].down :
          net' = [net EXCEPT ![c] = [Complete(c, "recv", n) EXCEPT !.down = @ - n]]
    BY <1>2 DEF RecvDone
  <2>2. n \in Nat /\ n # 0
    BY <1>0, <2>1 DEF Sockets
  <2> DEFINE s == [Complete(c, "recv", n) EXCEPT !.down = @ - n]
  <2>3. s.cq = Append(net[c].cq, [op |-> "recv", bytes |-> n])
    BY <1>0 DEF Complete, Sockets
  <2> HIDE DEF s
  <2> QED BY <1>1, <1>2, <2>1, <2>2, <2>3 DEF RecvDone, s
<1>3. CASE SendDone(c)
  <2>1. PICK n \in 1..net[c].len :
          net' = [net EXCEPT ![c] = [Complete(c, "send", n) EXCEPT !.up = @ + n]]
    BY <1>3 DEF SendDone
  <2>2. n \in Nat /\ n # 0
    BY <1>0, <2>1 DEF Sockets
  <2> DEFINE s == [Complete(c, "send", n) EXCEPT !.up = @ + n]
  <2>3. s.cq = Append(net[c].cq, [op |-> "send", bytes |-> n])
    BY <1>0 DEF Complete, Sockets
  <2> HIDE DEF s
  <2> QED BY <1>1, <1>3, <2>1, <2>2, <2>3 DEF SendDone, s
<1>4. CASE Ended(c)
  <2>1. PICK op \in net[c].io :
          /\ IsReset(c) \/ (op = "recv" /\ AtEof(c) /\ net[c].down = 0)
          /\ net' = [net EXCEPT ![c] = Complete(c, op, 0)]
    BY <1>4 DEF Ended
  <2>2. Over(c)
    BY <2>1 DEF IsReset, AtEof, Over
  <2> DEFINE s == Complete(c, op, 0)
  <2>3. s.cq = Append(net[c].cq, [op |-> op, bytes |-> 0])
    BY <1>0 DEF Complete, Sockets
  <2> HIDE DEF s
  <2> QED BY <1>1, <1>4, <2>1, <2>2, <2>3 DEF Ended, s
<1>5. CASE Peer(c)
  <2>1. PICK s : net' = [net EXCEPT ![c] = s] /\ s.cq = net[c].cq
    <3>1. CASE ServerSend(c)
      <4>1. net'[c].cq = net[c].cq /\ net' = [net EXCEPT ![c] = net'[c]]
        BY <1>0, <3>1 DEF ServerSend, BytesInv, Sockets
      <4> QED BY <4>1
    <3>2. CASE Reset(c)
      <4>1. net' = [net EXCEPT ![c] = net[c]]
        BY <3>2 DEF Reset, BytesInv
      <4> QED BY <4>1
    <3> QED BY <1>5, <3>1, <3>2 DEF Peer
  <2>2. client' = [client EXCEPT ![c] = client[c]]
    BY <1>5 DEF Peer, ServerSend, Reset, BytesInv
  <2>3. Honest(c, client[c], s)
    BY <1>0, <2>1 DEF Honest
  <2> QED BY <2>1, <2>2, <2>3, EffectIntro
<1> QED BY <1>2, <1>3, <1>4, <1>5 DEF System

\* A connection is made once, and then changed by resets only.
LEMMA ClientLink ==
  ASSUME BytesInv, ServerInv, NEW c \in Clients, Owner(c) \/ OnRun(c) \/ System(c) \/ Peer(c)
  PROVE  LinkEffect
<1>1. client[c].inits \in Nat
  BY SoundNow, Constants DEF Objects
<1>2. CASE Connect(c)
  <2>1. State(c) = "none" /\ link' = [link EXCEPT ![Conn(c)] = "queued"]
    BY <1>2 DEF Connect
  <2>2. Conn(c) \in Conns => link[Conn(c)] = "none"
    BY <1>1, <2>1 DEF Conns, Conn, State
  <2> HIDE DEF Conns, Conn
  <2>3. ASSUME NEW k \in Conns, k # Conn(c) PROVE link'[k] = link[k]
    BY <2>1, <2>3 DEF ServerInv
  <2>4. Conn(c) \in Conns => link'[Conn(c)] = "queued"
    BY <2>1 DEF ServerInv
  <2> QED BY <2>2, <2>3, <2>4 DEF LinkEffect
<1>3. CASE Reset(c)
  BY <1>3 DEF Reset, LinkEffect
<1>4. CASE link' = link
  BY <1>4 DEF LinkEffect
<1> QED BY <1>2, <1>3, <1>4 DEF Owner, OnRun, System, Peer, InitSocket, SendData, Close, Poll, PollFails, Recv,
      Send, CallFails, Post, PostFails, Event, EventLost, NoEvent, WaitFails, RecvDone, SendDone, Ended,
      ServerSend, ReturnFalse
\* A connection that is over stays so, whatever its client does.
LEMMA OverStays ==
  ASSUME BytesInv, LinkEffect, NEW d \in Clients, Over(d), client'[d].inits = client[d].inits
  PROVE  Over(d)'
<1>1. client[d].inits \in 0..MaxInits /\ client[d].inits # 0
  BY SoundNow DEF Objects, Over, State
<1>2. Conn(d) \in Conns /\ Conn(d)' = Conn(d)
  BY <1>1, Constants DEF Conn, Conns
<1>3. link[Conn(d)] \in {"refused", "left", "reset"}
  BY <1>1 DEF Over, State
<1>4. link'[Conn(d)] \in {"refused", "left", "reset"}
  BY <1>2, <1>3 DEF LinkEffect
<1> QED BY <1>1, <1>2, <1>4 DEF Over, State

LEMMA LossClientStep ==
  ASSUME BytesInv, BytesInv', ServerInv, LossInv, faults' = faults, ClientStep
  PROVE  LossInv'
<1>1. PICK c \in Clients : Owner(c) \/ OnRun(c) \/ System(c) \/ Peer(c)
  BY DEF ClientStep
<1>2. Effect(c) /\ LinkEffect
  BY <1>1, OwnerEffect, OnRunEffect, SystemEffect, ClientLink
<1>3. /\ \A k \in taken' : link'[k] \in {"taken", "reset"}
      /\ \A k \in serving' : link'[k] \in {"served", "reset"}
  <2>1. taken' = taken /\ serving' = serving
    BY DEF ClientStep, serverVars
  <2> QED BY <1>2, <2>1 DEF LinkEffect, LossInv, ServerInv
<1>4. PICK o \in Objects, s \in Sockets :
        /\ client' = [client EXCEPT ![c] = o] /\ net' = [net EXCEPT ![c] = s]
        /\ \/ s.cq = <<>> /\ ~o.lost
           \/ o.inits = client[c].inits /\ Honest(c, o, s)
  BY <1>2 DEF Effect
<1>5. ASSUME NEW d \in Clients
      PROVE  /\ \A i \in 1..Len(net'[d].cq) : net'[d].cq[i].bytes = 0 => Over(d)'
             /\ faults' = {} /\ client'[d].lost => ~client'[d].pClient /\ Over(d)'
  <2>1. CASE d # c
    <3>1. client'[d] = client[d] /\ net'[d] = net[d]
      BY <1>4, <2>1 DEF BytesInv
    <3>2. Over(d) => Over(d)'
      BY <1>2, <3>1, OverStays
    <3> QED BY <3>1, <3>2 DEF LossInv
  <2>2. CASE d = c
    <3>1. client'[c] = o /\ net'[c] = s
      BY <1>4 DEF BytesInv
    <3>2. CASE s.cq = <<>> /\ ~o.lost
      BY <2>2, <3>1, <3>2
    <3>3. CASE o.inits = client[c].inits /\ Honest(c, o, s)
      <4>1. Over(c) => Over(c)'
        BY <1>2, <3>1, <3>3, OverStays
      <4> QED BY <2>2, <3>1, <3>3, <4>1 DEF Honest
    <3> QED BY <1>4, <3>2, <3>3
  <2> QED BY <2>1, <2>2
<1> QED BY <1>3, <1>5 DEF LossInv

LEMMA LossServerStep ==
  ASSUME BytesInv, ServerInv, LossInv, faults' = faults, ServerStep
  PROVE  LossInv'
<1>1. client' = client /\ net' = net
  BY DEF ServerStep
<1>2. ASSUME NEW d \in Clients, Over(d) PROVE Over(d)'
  <2>1. client[d].inits \in 0..MaxInits /\ client[d].inits # 0
    BY <1>2, SoundNow DEF Objects, Over, State
  <2>2. Conn(d) \in Conns /\ Conn(d)' = Conn(d)
    BY <1>1, <2>1, Constants DEF Conn, Conns
  <2>3. link[Conn(d)] \in {"refused", "left", "reset"}
    BY <1>2, <2>1 DEF Over, State
  <2>4. link'[Conn(d)] \in {"refused", "left", "reset"}
    BY <2>2, <2>3, ServerKeepsOver
  <2> QED BY <1>1, <2>1, <2>2, <2>4 DEF Over, State
<1> QED BY <1>1, <1>2, ServerKeepsOver DEF LossInv

LEMMA LossStep ==
  BytesInv /\ BytesInv' /\ ServerInv /\ LossInv /\ [AllNext]_allVars => LossInv'
<1> SUFFICES ASSUME BytesInv, BytesInv', ServerInv, LossInv, [AllNext]_allVars PROVE LossInv'
  OBVIOUS
<1>1. CASE ClientStep
  BY <1>1, LossClientStep, SameExecution
<1>2. CASE ServerStep
  BY <1>2, LossServerStep, SameExecution
<1>3. CASE UNCHANGED allVars
  BY <1>3 DEF allVars, vars, serverVars, LossInv, Over, State, Conn
<1> QED BY <1>1, <1>2, <1>3 DEF AllNext

\* OnRun returns false only for a connection that had been refused, left or
\* reset, when no wait and no post fails, and has closed the client by then:
\* client.cpp:243 does not take a connection that lasts for a lost one.
THEOREM LossIsReal == Spec => []FalseMeansLost
<1>1. AllInit => LossInv
  BY DEF AllInit, Init, Server!Init, LossInv, NoObject, NoSocket
<1>2. LossInv => FalseMeansLost
  BY DEF LossInv, FalseMeansLost, Over, AtEof, IsReset
<1> QED BY <1>1, <1>2, LossStep, BytesHolds, ServerInvHolds, PTL DEF Spec

-----------------------------------------------------------------------------
(* The conversation of one client with the server                          *)

\* The messages of a direction are numbered from first and the next to be
\* sent has the number that follows the last.
InOrder(s, first, next) ==
  /\ \A i \in 1..Len(s) : s[i] = first + i - 1
  /\ next = first + Len(s)

Numbers ==
  /\ {nSendMsgID, nRecvMsgID, srvSendMsgID, srvRecvMsgID} \subseteq Nat
  /\ reqBuff \in Seq(Nat) /\ reqWire \in Seq(Nat)
  /\ repBuff \in Seq(Nat) /\ repWire \in Seq(Nat)

Requests == InOrder(reqWire \o reqBuff, srvRecvMsgID, nSendMsgID)
Replies == InOrder(repWire \o repBuff, nRecvMsgID, srvSendMsgID)

NumbersInv == Numbers /\ Requests /\ Replies

-----------------------------------------------------------------------------
\* A sender that puts its number into the buffer and counts it keeps the order.
LEMMA SendKeepsOrder ==
  ASSUME NEW w \in Seq(Nat), NEW b \in Seq(Nat), NEW first \in Nat, NEW next \in Nat,
         InOrder(w \o b, first, next)
  PROVE  Append(b, next) \in Seq(Nat) /\ InOrder(w \o Append(b, next), first, next + 1)
<1> DEFINE s == w \o b
           t == w \o Append(b, next)
<1>1. s \in Seq(Nat) /\ Len(s) = Len(w) + Len(b) /\ t \in Seq(Nat) /\ Len(t) = Len(s) + 1
  OBVIOUS
<1>2. t[Len(t)] = next
  BY <1>1
<1>3. \A i \in 1..Len(s) : t[i] = s[i]
  BY <1>1
<1>4. Append(b, next) \in Seq(Nat)
  OBVIOUS
<1> HIDE DEF s, t
<1>5. Len(s) \in Nat /\ (\A i \in 1..Len(s) : s[i] = first + i - 1) /\ next = first + Len(s)
  BY <1>1 DEF InOrder, s
<1>6. ASSUME NEW i \in 1..Len(t) PROVE t[i] = first + i - 1
  <2>1. CASE i = Len(t)
    BY <1>1, <1>2, <1>5, <2>1
  <2>2. CASE i \in 1..Len(s)
    BY <1>3, <1>5, <2>2
  <2> QED BY <1>1, <1>5, <2>1, <2>2
<1>7. next + 1 = first + Len(t)
  BY <1>1, <1>5
<1> QED BY <1>4, <1>6, <1>7 DEF InOrder, t

\* Writing the buffer to the socket moves a message and changes no order.
LEMMA WriteKeepsOrder ==
  ASSUME NEW w \in Seq(Nat), NEW b \in Seq(Nat), b # <<>>
  PROVE  /\ Tail(b) \in Seq(Nat) /\ Append(w, Head(b)) \in Seq(Nat)
         /\ Append(w, Head(b)) \o Tail(b) = w \o b
<1> DEFINE s == w \o b
           t == Append(w, Head(b)) \o Tail(b)
<1>1. /\ Tail(b) \in Seq(Nat) /\ Append(w, Head(b)) \in Seq(Nat) /\ Len(b) >= 1
      /\ Len(Tail(b)) = Len(b) - 1 /\ Len(Append(w, Head(b))) = Len(w) + 1
  OBVIOUS
<1>2. s \in Seq(Nat) /\ t \in Seq(Nat) /\ Len(s) = Len(w) + Len(b) /\ Len(t) = Len(s)
  BY <1>1
<1>3. ASSUME NEW i \in 1..Len(s) PROVE t[i] = s[i]
  <2>1. CASE i <= Len(w)
    BY <1>1, <2>1
  <2>2. CASE i = Len(w) + 1
    BY <1>1, <2>2
  <2>3. CASE i > Len(w) + 1
    BY <1>1, <1>2, <2>3
  <2> QED BY <1>2, <2>1, <2>2, <2>3
<1> QED BY <1>1, <1>2, <1>3

\* A receiver that takes the oldest message and expects the next keeps it too.
LEMMA TakeKeepsOrder ==
  ASSUME NEW w \in Seq(Nat), NEW b \in Seq(Nat), NEW first \in Nat, NEW next \in Nat,
         w # <<>>, InOrder(w \o b, first, next)
  PROVE  Tail(w) \in Seq(Nat) /\ InOrder(Tail(w) \o b, first + 1, next)
<1> DEFINE s == w \o b
           t == Tail(w) \o b
<1>1. /\ Tail(w) \in Seq(Nat) /\ Len(w) >= 1 /\ Len(Tail(w)) = Len(w) - 1
      /\ s \in Seq(Nat) /\ Len(s) = Len(w) + Len(b)
      /\ t \in Seq(Nat) /\ Len(t) = Len(s) - 1
  OBVIOUS
<1>2. ASSUME NEW i \in 1..Len(t) PROVE t[i] = s[i + 1]
  <2>1. CASE i < Len(w)
    BY <1>1, <2>1
  <2>2. CASE i >= Len(w)
    BY <1>1, <2>2
  <2> QED BY <1>1, <2>1, <2>2
<1> QED BY <1>1, <1>2 DEF InOrder

-----------------------------------------------------------------------------
\* Whatever the two programs and the buffers do next, both directions stay in
\* order: an answer that is refused is not counted (server.cpp:62).
LEMMA NumbersStep == NumbersInv /\ [EchoNext]_echoVars => NumbersInv'
<1> SUFFICES ASSUME NumbersInv, [EchoNext]_echoVars PROVE NumbersInv'
  OBVIOUS
<1> USE DEF NumbersInv, Numbers, Requests, Replies
<1>1. CASE SendTest
  BY <1>1, SendKeepsOrder DEF SendTest, srvVars
<1>2. CASE CheckSend
  BY <1>2 DEF CheckSend, srvVars
<1>3. CASE ClientWrites
  BY <1>3, WriteKeepsOrder DEF ClientWrites, cliVars, srvVars
<1>4. CASE OnLoginResult
  BY <1>4, TakeKeepsOrder DEF OnLoginResult, srvVars
<1>5. CASE OnLogin
  <2>1. reqWire' = Tail(reqWire) /\ srvRecvMsgID' = srvRecvMsgID + 1 /\ reqWire # <<>>
    BY <1>5 DEF OnLogin
  <2>2. UNCHANGED <<cliVars, reqBuff, repWire>>
    BY <1>5 DEF OnLogin
  <2>3. reqWire' \in Seq(Nat) /\ Requests'
    BY <2>1, <2>2, TakeKeepsOrder DEF cliVars
  <2>4. CASE repBuff' = Append(repBuff, srvSendMsgID) /\ srvSendMsgID' = srvSendMsgID + 1
    BY <2>1, <2>2, <2>3, <2>4, SendKeepsOrder DEF cliVars
  <2>5. CASE UNCHANGED <<repBuff, srvSendMsgID>>
    BY <2>1, <2>2, <2>3, <2>5 DEF cliVars
  <2> QED BY <1>5, <2>4, <2>5 DEF OnLogin
<1>6. CASE ServerWrites
  BY <1>6, WriteKeepsOrder DEF ServerWrites, cliVars, srvVars
<1>7. CASE UNCHANGED echoVars
  BY <1>7 DEF echoVars, cliVars, srvVars
<1> QED BY <1>1, <1>2, <1>3, <1>4, <1>5, <1>6, <1>7 DEF EchoNext

\* Every message carries the number its receiver expects, although answers
\* and messages are dropped by full buffers: neither program ever logs its
\* msgID error, whatever the sizes and however the two run.
THEOREM NumbersHold == EchoSpec => []NumbersContinuous
<1>1. EchoInit => NumbersInv
  BY DEF EchoInit, NumbersInv, Numbers, Requests, Replies, InOrder
<1>2. NumbersInv => NumbersContinuous
  BY DEF NumbersInv, Requests, Replies, InOrder, NumbersContinuous
<1> QED BY <1>1, <1>2, NumbersStep, PTL DEF EchoSpec
=============================================================================
