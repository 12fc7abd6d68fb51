-------------------------- MODULE IocpServerProofs --------------------------
(* Theorems about IocpServer, for every number of clients, all sizes and   *)
(* every fault: the flags and the objects, where the system reads and      *)
(* writes, and that nothing is lost or doubled on its way through the      *)
(* buffers.                                                                *)
EXTENDS IocpServer, TLAPS

\* What integer division leaves: the whole messages of a buffer fit in it.
LEMMA WholePart ==
  ASSUME NEW a \in Nat, NEW b \in Nat \ {0}
  PROVE  a \div b \in Nat /\ b * (a \div b) \in Nat /\ b * (a \div b) <= a
<1>1. a \div b \in Int /\ a = b * (a \div b) + (a % b) /\ a % b \in 0..(b - 1)
  OBVIOUS
<1>2. a \div b \in Nat
  BY <1>1
<1> QED BY <1>1, <1>2

\* DoMsg takes from the receive buffer no more than it holds and pushes
\* into the send buffer no more than it has room for.
LEMMA DoMsgSizes ==
  ASSUME TypeOK, NEW c \in Clients
  PROVE  /\ WholeMsgs(c) \in Nat
         /\ recvLast[c] - MsgLen * WholeMsgs(c) \in 0..RecvSize
         /\ \A m \in Nat : /\ Fitting(c, m) \in Nat
                           /\ sendLast[c] + ReplyLen * Fitting(c, m) \in 0..SendSize
<1>1. recvLast[c] \in Nat /\ recvLast[c] <= RecvSize /\ RecvSize \in Nat /\ MsgLen \in Nat \ {0}
  BY LenAssumption DEF TypeOK
<1>2. /\ WholeMsgs(c) \in Nat /\ MsgLen * WholeMsgs(c) \in Nat
      /\ MsgLen * WholeMsgs(c) <= recvLast[c]
  BY <1>1, WholePart DEF WholeMsgs
<1>3. recvLast[c] - MsgLen * WholeMsgs(c) \in 0..RecvSize
  BY <1>1, <1>2
<1>4. ASSUME NEW m \in Nat
      PROVE  /\ Fitting(c, m) \in Nat
             /\ sendLast[c] + ReplyLen * Fitting(c, m) \in 0..SendSize
  <2> DEFINE free == SendSize - sendLast[c]
             room == free \div ReplyLen
  <2>1. /\ SendSize \in Nat /\ ReplyLen \in Nat \ {0} /\ free \in Nat
        /\ sendLast[c] \in Nat /\ sendLast[c] + free = SendSize
    BY LenAssumption DEF TypeOK
  <2>2. room \in Nat /\ ReplyLen * room \in Nat /\ ReplyLen * room <= free
    <3> HIDE DEF free
    <3> QED BY <2>1, WholePart
  <2>3. Fitting(c, m) \in Nat /\ Fitting(c, m) <= room
    BY <2>2 DEF Fitting
  <2>4. ReplyLen * Fitting(c, m) \in Nat /\ ReplyLen * Fitting(c, m) <= ReplyLen * room
    <3> HIDE DEF room
    <3> QED BY <2>1, <2>2, <2>3
  <2> QED BY <2>1, <2>2, <2>3, <2>4
<1> QED BY <1>2, <1>3, <1>4

-----------------------------------------------------------------------------
IoRec == [st : {"idle", "posted", "done"}, at : Nat, n : Nat]

\* Changing one operation of one client.
LEMMA IoExcept ==
  ASSUME NEW R, NEW f \in [Clients -> [IoType -> R]],
         NEW c \in Clients, NEW t \in IoType, NEW e \in R
  PROVE  [f EXCEPT ![c][t] = e] \in [Clients -> [IoType -> R]]
OBVIOUS

\* makeRecvIoData and makeSendIoData describe a part of the buffer.
LEMMA PostedType ==
  ASSUME TypeOK, NEW R, NEW S
  PROVE  Posted(R, S) \in [Clients -> [IoType -> IoRec]]
<1>1. \A c \in Clients : RecvData(c) \in IoRec /\ SendData(c) \in IoRec
  BY LenAssumption DEF RecvData, SendData, TypeOK, IoRec
<1>2. io \in [Clients -> [IoType -> IoRec]]
  BY DEF TypeOK, IoRec
<1> HIDE DEF IoRec
<1> QED BY <1>1, <1>2 DEF Posted

\* The completion that DoIocpNetEvents takes leaves the types of the queue
\* and of the operations as they are.
LEMMA DequeueType ==
  ASSUME TypeOK, NEW c \in Clients, NEW t \in IoType, NEW n, Dequeue(c, t, n)
  PROVE  cq' \in Seq(Clients \X IoType) /\ io' \in [Clients -> [IoType -> IoRec]]
<1>1. cq \in Seq(Clients \X IoType) /\ cq # <<>> /\ cq' = Tail(cq)
  BY DEF TypeOK, Dequeue
<1>2. cq' \in Seq(Clients \X IoType)
  BY <1>1
<1>3. IdleIo \in IoRec /\ io \in [Clients -> [IoType -> IoRec]]
  BY DEF IdleIo, IoRec, TypeOK
<1>4. io' \in [Clients -> [IoType -> IoRec]]
  BY <1>3, IoExcept DEF Dequeue
<1> QED BY <1>2, <1>4

\* So does a completion that the system adds to the queue of the port.
LEMMA CompleteType ==
  ASSUME TypeOK, NEW c \in Clients, NEW t \in IoType, NEW n \in Nat, Complete(c, t, n)
  PROVE  cq' \in Seq(Clients \X IoType) /\ io' \in [Clients -> [IoType -> IoRec]]
<1>1. cq \in Seq(Clients \X IoType) /\ <<c, t>> \in Clients \X IoType /\ cq' = Append(cq, <<c, t>>)
  BY DEF TypeOK, Complete
<1>2. cq' \in Seq(Clients \X IoType)
  BY <1>1
<1>3. io \in [Clients -> [IoType -> IoRec]]
  BY DEF IoRec, TypeOK
<1>4. [io[c][t] EXCEPT !.st = "done", !.n = n] \in IoRec
  <2>1. io[c][t] \in IoRec
    BY <1>3
  <2> QED BY <2>1 DEF IoRec
<1>5. io' = [io EXCEPT ![c][t] = [io[c][t] EXCEPT !.st = "done", !.n = n]]
  BY DEF Complete
<1>6. io' \in [Clients -> [IoType -> IoRec]]
  BY <1>3, <1>4, <1>5, IoExcept
<1> QED BY <1>2, <1>6

\* One step keeps the types: the lengths stay within the buffers because
\* read4iocp and write2iocp check them and DoMsg takes whole messages only.
LEMMA TypeStep == TypeOK /\ [Next]_vars => TypeOK'
<1> SUFFICES ASSUME TypeOK, [Next]_vars PROVE TypeOK'
  OBVIOUS
<1> USE LenAssumption
<1>1. CASE Idle
  BY <1>1 DEF Idle, TypeOK, vars, netVars, objVars, flagVars, buffVars, appVars
<1>2. CASE Join
  <2>1. io' \in [Clients -> [IoType -> IoRec]]
    BY <1>2, PostedType DEF Join
  <2>2. isPostRecv' \in [Clients -> BOOLEAN] /\ clients' \subseteq Clients
    BY <1>2 DEF Join, TypeOK
  <2> QED BY <1>2, <2>1, <2>2 DEF Join, TypeOK, IoRec, netVars, objVars, buffVars, appVars
<1>3. CASE Begin
  BY <1>3 DEF Begin, TypeOK, netVars, objVars, flagVars, buffVars, appVars
<1>4. CASE CheckTime
  BY <1>4 DEF CheckTime, TypeOK, netVars, flagVars, buffVars, appVars
<1>5. CASE PostEvents
  <2>1. io' \in [Clients -> [IoType -> IoRec]]
    BY <1>5, PostedType DEF PostEvents
  <2>2. isPostRecv' \in [Clients -> BOOLEAN] /\ isPostSend' \in [Clients -> BOOLEAN]
    BY <1>5 DEF PostEvents, TypeOK
  <2>3. /\ obj' \in [Clients -> {"none", "live", "freed"}]
        /\ open' \in [Clients -> BOOLEAN] /\ clients' \subseteq Clients
    BY <1>5 DEF PostEvents, Leave, TypeOK
  <2> QED BY <1>5, <2>1, <2>2, <2>3 DEF PostEvents, TypeOK, IoRec, netVars, buffVars, appVars
<1>6. CASE RmClient
  <2> PICK c \in Clients, t \in IoType :
             /\ Dequeue(c, t, 0) /\ clients' = clients \ {c} /\ Leave({c})
             /\ UNCHANGED <<flagVars, buffVars>>
    BY <1>6 DEF RmClient
  <2>1. cq' \in Seq(Clients \X IoType) /\ io' \in [Clients -> [IoType -> IoRec]]
    BY DequeueType
  <2> QED BY <2>1 DEF Dequeue, Leave, TypeOK, IoRec, netVars, flagVars, buffVars, appVars
<1>7. CASE RecvEvent
  <2> PICK c \in Clients, n \in 1..RecvSize :
             Dequeue(c, "RECV", n) /\ Recv4iocp(c, n) /\ UNCHANGED <<objVars, clients>>
    BY <1>7 DEF RecvEvent
  <2>1. cq' \in Seq(Clients \X IoType) /\ io' \in [Clients -> [IoType -> IoRec]]
    BY DequeueType DEF IoType
  <2>2. recvLast' \in [Clients -> 0..RecvSize]
    BY DEF Recv4iocp, Read4iocp, TypeOK
  <2> QED BY <2>1, <2>2 DEF Dequeue, Recv4iocp, TypeOK, IoRec, netVars, objVars, appVars
<1>8. CASE SendEvent
  <2> PICK c \in Clients, n \in 1..SendSize :
             Dequeue(c, "SEND", n) /\ Send2iocp(c, n) /\ UNCHANGED <<objVars, clients>>
    BY <1>8 DEF SendEvent
  <2>1. cq' \in Seq(Clients \X IoType) /\ io' \in [Clients -> [IoType -> IoRec]]
    BY DequeueType DEF IoType
  <2>2. sendLast' \in [Clients -> 0..SendSize]
    BY DEF Send2iocp, Write2iocp, TypeOK
  <2> QED BY <2>1, <2>2 DEF Dequeue, Send2iocp, TypeOK, IoRec, netVars, objVars, appVars
<1>9. CASE NoEvent
  BY <1>9 DEF NoEvent, TypeOK, netVars, objVars, flagVars, buffVars, appVars
<1>10. CASE WaitFails
  BY <1>10 DEF WaitFails, TypeOK, netVars, objVars, flagVars, buffVars, appVars
<1>11. CASE DoMsg
  <2> DEFINE m == [c \in Clients |-> IF c \in clients THEN WholeMsgs(c) ELSE 0]
             r == [c \in Clients |-> Fitting(c, m[c])]
  <2>1. /\ handled' = [c \in Clients |-> handled[c] + m[c]]
        /\ recvLast' = [c \in Clients |-> recvLast[c] - MsgLen * m[c]]
        /\ replied' = [c \in Clients |-> replied[c] + r[c]]
        /\ sendLast' = [c \in Clients |-> sendLast[c] + ReplyLen * r[c]]
    BY <1>11 DEF DoMsg
  <2>2. ASSUME NEW c \in Clients
        PROVE  m[c] \in Nat /\ recvLast[c] - MsgLen * m[c] \in 0..RecvSize
    <3>1. CASE c \in clients
      BY <3>1, DoMsgSizes
    <3>2. CASE c \notin clients
      BY <3>2 DEF TypeOK
    <3> QED BY <3>1, <3>2
  <2>3. ASSUME NEW c \in Clients
        PROVE  r[c] \in Nat /\ sendLast[c] + ReplyLen * r[c] \in 0..SendSize
    <3>1. m[c] \in Nat /\ r[c] = Fitting(c, m[c])
      BY <2>2
    <3> HIDE DEF m, r
    <3> QED BY <3>1, DoMsgSizes
  <2> HIDE DEF m, r
  <2>4. handled' \in [Clients -> Nat] /\ replied' \in [Clients -> Nat]
    <3>1. \A c \in Clients : /\ handled[c] \in Nat /\ m[c] \in Nat
                             /\ replied[c] \in Nat /\ r[c] \in Nat
      BY <2>2, <2>3 DEF TypeOK
    <3>2. \A c \in Clients : handled[c] + m[c] \in Nat /\ replied[c] + r[c] \in Nat
      BY <3>1
    <3> QED BY <2>1, <3>2, Zenon
  <2>5. recvLast' \in [Clients -> 0..RecvSize] /\ sendLast' \in [Clients -> 0..SendSize]
    BY <2>1, <2>2, <2>3, Zenon
  <2> QED BY <1>11, <2>4, <2>5 DEF DoMsg, TypeOK, netVars, objVars, flagVars
<1>12. CASE ClearClients
  BY <1>12 DEF ClearClients, Leave, TypeOK, netVars, flagVars, buffVars, appVars
<1>13. CASE Stop
  BY <1>13 DEF Stop, TypeOK, netVars, objVars, flagVars, buffVars, appVars
<1>14. ASSUME NEW c \in Clients, AddClient(c) PROVE TypeOK'
  BY <1>14 DEF AddClient, TypeOK, netVars, flagVars, buffVars, appVars
<1>15. ASSUME NEW c \in Clients, Peer(c) PROVE TypeOK'
  <2>1. CASE PeerSend(c)
    <3>1. sent' \in [Clients -> Nat]
      BY <2>1 DEF PeerSend, TypeOK
    <3>2. inbound' \in [Clients -> Nat]
      BY <2>1 DEF PeerSend, TypeOK
    <3> QED BY <2>1, <3>1, <3>2 DEF PeerSend, TypeOK, objVars, flagVars, buffVars, appVars
  <2>2. CASE PeerClose(c)
    BY <2>2 DEF PeerClose, TypeOK, objVars, flagVars, buffVars, appVars
  <2>3. CASE PeerReset(c)
    BY <2>3 DEF PeerReset, TypeOK, objVars, flagVars, buffVars, appVars
  <2> QED BY <1>15, <2>1, <2>2, <2>3 DEF Peer
<1>16. ASSUME NEW c \in Clients, NEW t \in IoType, NEW n \in Nat, Complete(c, t, n),
              inbound' \in [Clients -> Nat], delivered' \in [Clients -> Nat]
       PROVE  TypeOK'
  BY <1>16, CompleteType DEF Complete, TypeOK, IoRec, objVars, flagVars, buffVars, appVars
<1>17. ASSUME NEW c \in Clients, System(c) PROVE TypeOK'
  <2>1. CASE RecvDone(c)
    <3> PICK n \in 1..RecvSize : /\ n <= inbound[c] /\ Complete(c, "RECV", n)
                                 /\ inbound' = [inbound EXCEPT ![c] = @ - n]
                                 /\ UNCHANGED delivered
      BY <2>1 DEF RecvDone
    <3>1. inbound' \in [Clients -> Nat] /\ delivered' \in [Clients -> Nat]
      BY DEF TypeOK
    <3> QED BY <3>1, <1>16 DEF IoType
  <2>2. CASE SendDone(c)
    <3> PICK n \in 1..SendSize : /\ Complete(c, "SEND", n)
                                 /\ delivered' = [delivered EXCEPT ![c] = @ + n]
                                 /\ UNCHANGED inbound
      BY <2>2 DEF SendDone
    <3>1. inbound' \in [Clients -> Nat] /\ delivered' \in [Clients -> Nat]
      BY DEF TypeOK
    <3> QED BY <3>1, <1>16 DEF IoType
  <2>3. CASE RecvEof(c)
    BY <2>3, <1>16 DEF RecvEof, IoType, TypeOK
  <2>4. ASSUME NEW t \in IoType, Abort(c, t) PROVE TypeOK'
    BY <2>4, <1>16 DEF Abort, TypeOK
  <2> QED BY <1>17, <2>1, <2>2, <2>3, <2>4 DEF System
<1>18. CASE UNCHANGED vars
  BY <1>18 DEF TypeOK, vars, netVars, objVars, flagVars, buffVars, appVars
<1> QED BY <1>1, <1>2, <1>3, <1>4, <1>5, <1>6, <1>7, <1>8, <1>9, <1>10, <1>11, <1>12, <1>13,
           <1>14, <1>15, <1>17, <1>18 DEF Next, Worker

\* A worker that has just been started has the right types.
LEMMA TypeInit == Init => TypeOK
BY LenAssumption DEF Init, TypeOK, IoType, IdleIo

\* The lengths of both buffers stay within their capacities and every
\* operation describes an area, whatever arrives and in whatever sizes.
THEOREM TypeCorrect == Spec => []TypeOK
BY TypeInit, TypeStep, PTL DEF Spec

-----------------------------------------------------------------------------
(* The flags of Client cover the operations of the system.  The invariant  *)
(* holds of deleted clients too, because deleting one leaves both alone.   *)
AllFlagsCoverIo ==
  \A c \in Clients : /\ Outstanding(c, "RECV") => isPostRecv[c]
                     /\ Outstanding(c, "SEND") => isPostSend[c]

\* Which operations are outstanding after the three steps that change io.
LEMMA PostedIo ==
  ASSUME TypeOK, NEW R, NEW S, io' = Posted(R, S)
  PROVE  \A d \in Clients :
           /\ Outstanding(d, "RECV")' <=> Outstanding(d, "RECV") \/ d \in R
           /\ Outstanding(d, "SEND")' <=> Outstanding(d, "SEND") \/ d \in S
BY DEF Posted, Outstanding, RecvData, SendData, IoType

\* DoIocpNetEvents ends exactly the operation it takes.
LEMMA DequeueIo ==
  ASSUME TypeOK, NEW c \in Clients, NEW t \in IoType, NEW n, Dequeue(c, t, n)
  PROVE  \A d \in Clients, u \in IoType :
           Outstanding(d, u)' <=> Outstanding(d, u) /\ ~(d = c /\ u = t)
<1>1. io' = [io EXCEPT ![c][t] = IdleIo] /\ io \in [Clients -> [IoType -> IoRec]]
  BY DEF Dequeue, TypeOK, IoRec
<1>2. \A d \in Clients, u \in IoType :
        io'[d][u] = IF d = c /\ u = t THEN IdleIo ELSE io[d][u]
  BY <1>1
<1> QED BY <1>2 DEF Outstanding, IdleIo

\* A completion leaves exactly the same operations outstanding.
LEMMA CompleteIo ==
  ASSUME TypeOK, NEW c \in Clients, NEW t \in IoType, NEW n, Complete(c, t, n)
  PROVE  /\ Outstanding(c, t)
         /\ \A d \in Clients, u \in IoType : Outstanding(d, u)' <=> Outstanding(d, u)
<1>1. /\ io' = [io EXCEPT ![c][t] = [io[c][t] EXCEPT !.st = "done", !.n = n]]
      /\ io[c][t].st = "posted" /\ io \in [Clients -> [IoType -> IoRec]]
  BY DEF Complete, TypeOK, IoRec
<1>2. \A d \in Clients, u \in IoType :
        io'[d][u] = IF d = c /\ u = t THEN [io[c][t] EXCEPT !.st = "done", !.n = n] ELSE io[d][u]
  BY <1>1
<1>3. [io[c][t] EXCEPT !.st = "done", !.n = n].st = "done"
  <2>1. io[c][t] \in IoRec
    BY <1>1
  <2> QED BY <2>1 DEF IoRec
<1> QED BY <1>1, <1>2, <1>3 DEF Outstanding

\* Every step of the system completes an operation.
LEMMA SystemCompletes ==
  ASSUME NEW c \in Clients, System(c)
  PROVE  \E t \in IoType, n \in Nat : Complete(c, t, n)
<1>1. CASE RecvDone(c) \/ SendDone(c)
  BY <1>1, LenAssumption DEF RecvDone, SendDone, IoType
<1>2. CASE RecvEof(c)
  BY <1>2 DEF RecvEof, IoType
<1>3. CASE \E t \in IoType : Abort(c, t)
  BY <1>3 DEF Abort
<1> QED BY <1>1, <1>2, <1>3 DEF System

\* A flag of Client is set with the post of its operation and cleared only
\* by the handler of its completion.
LEMMA FlagsStep == TypeOK /\ AllFlagsCoverIo /\ [Next]_vars => AllFlagsCoverIo'
<1> SUFFICES ASSUME TypeOK, AllFlagsCoverIo, [Next]_vars PROVE AllFlagsCoverIo'
  OBVIOUS
<1> USE DEF AllFlagsCoverIo
<1>1. CASE Join
  <2> DEFINE want == WantRecv(clientsBuff)
  <2>1. PICK R \in SUBSET want : io' = Posted(R, {})
    <3>1. PICK bad \in SUBSET (want \cap Broken) :
                 io' = Posted({c \in want \ bad : HasRoom(c)}, {})
      BY <1>1 DEF Join
    <3> QED BY <3>1
  <2>2. /\ isPostRecv' = [c \in Clients |-> isPostRecv[c] \/ c \in want]
        /\ isPostSend' = isPostSend
    BY <1>1 DEF Join
  <2>3. \A c \in Clients : /\ Outstanding(c, "RECV")' <=> Outstanding(c, "RECV") \/ c \in R
                           /\ Outstanding(c, "SEND")' <=> Outstanding(c, "SEND")
    BY <2>1, PostedIo
  <2>4. \A c \in Clients : /\ c \in R \/ isPostRecv[c] => isPostRecv'[c]
                           /\ isPostSend'[c] = isPostSend[c]
    BY <2>1, <2>2
  <2> QED BY <2>3, <2>4
<1>2. CASE PostEvents
  <2>1. PICK badSend, badRecv :
        LET want == WantRecv(clients \ (WantSend(clients) \cap badSend))
        IN /\ isPostSend' = [c \in Clients |-> isPostSend[c] \/ c \in WantSend(clients)]
           /\ isPostRecv' = [c \in Clients |-> isPostRecv[c] \/ c \in want]
           /\ io' = Posted({c \in want \ badRecv : HasRoom(c)}, WantSend(clients) \ badSend)
    BY <1>2 DEF PostEvents
  <2> DEFINE want == WantRecv(clients \ (WantSend(clients) \cap badSend))
             R == {c \in want \ badRecv : HasRoom(c)}
             S == WantSend(clients) \ badSend
  <2>2. \A c \in Clients : /\ c \in R \/ isPostRecv[c] => isPostRecv'[c]
                           /\ c \in S \/ isPostSend[c] => isPostSend'[c]
    BY <2>1
  <2>3. io' = Posted(R, S)
    BY <2>1
  <2> HIDE DEF R, S
  <2>4. \A c \in Clients : /\ Outstanding(c, "RECV")' <=> Outstanding(c, "RECV") \/ c \in R
                           /\ Outstanding(c, "SEND")' <=> Outstanding(c, "SEND") \/ c \in S
    BY <2>3, PostedIo
  <2> QED BY <2>2, <2>4
<1>3. CASE RmClient
  BY <1>3, DequeueIo DEF RmClient, IoType, flagVars
<1>4. CASE RecvEvent
  BY <1>4, DequeueIo DEF RecvEvent, Recv4iocp, IoType, TypeOK
<1>5. CASE SendEvent
  BY <1>5, DequeueIo DEF SendEvent, Send2iocp, IoType, TypeOK
<1>6. ASSUME NEW c \in Clients, System(c) PROVE AllFlagsCoverIo'
  <2>1. PICK t \in IoType, n \in Nat : Complete(c, t, n)
    BY <1>6, SystemCompletes
  <2> QED BY <2>1, CompleteIo DEF Complete, IoType, flagVars
<1>7. CASE Idle \/ Begin \/ CheckTime \/ NoEvent \/ DoMsg \/ ClearClients \/ WaitFails \/ Stop
  BY <1>7 DEF Idle, Begin, CheckTime, NoEvent, DoMsg, ClearClients, WaitFails, Stop,
              vars, flagVars, Outstanding
<1>8. ASSUME NEW c \in Clients, AddClient(c) \/ Peer(c) PROVE AllFlagsCoverIo'
  BY <1>8 DEF AddClient, Peer, PeerSend, PeerClose, PeerReset, flagVars, Outstanding
<1>9. CASE UNCHANGED vars
  BY <1>9 DEF vars, flagVars, Outstanding
<1> QED BY <1>1, <1>2, <1>3, <1>4, <1>5, <1>6, <1>7, <1>8, <1>9 DEF Next, Worker

\* Neither a RECV nor a SEND is ever posted a second time while the first
\* is outstanding, and the errors of Client.hpp:170 and 186 are unreachable.
THEOREM FlagsCorrect == Spec => []FlagsCoverIo
<1>1. Init => AllFlagsCoverIo
  BY DEF Init, AllFlagsCoverIo, Outstanding, IoType, IdleIo
<1>2. AllFlagsCoverIo => FlagsCoverIo
  BY DEF AllFlagsCoverIo, FlagsCoverIo
<1> QED BY <1>1, <1>2, TypeCorrect, FlagsStep, PTL DEF Spec

-----------------------------------------------------------------------------
(* Deleting clients.  When the application sends nothing the only          *)
(* operation of a client is its RECV, and a client is deleted either when  *)
(* the flag says that there is none or by the completion of that RECV.     *)

NotJoined(c) == obj[c] = "none" \/ c \in clientsBuff

\* A client has no SEND, it has no RECV before it has joined, and it is not
\* deleted while a queue or an operation refers to it.
ClientOk(c) ==
  /\ sendLast[c] = 0 /\ ~Outstanding(c, "SEND")
  /\ NotJoined(c) => ~Outstanding(c, "RECV") /\ c \notin clients
  /\ c \in clients \cup clientsBuff => obj[c] = "live"
  /\ pc # "done" /\ Outstanding(c, "RECV") => obj[c] = "live"

\* A completion in the queue is that of a RECV of a client that has joined.
CompletionOk(e) == e \in Clients \X IoType /\ e[2] = "RECV" /\ ~NotJoined(e[1])

SafeInv ==
  /\ TypeOK /\ AllFlagsCoverIo
  /\ \A c \in Clients : ClientOk(c)
  /\ \A i \in 1..Len(cq) : CompletionOk(cq[i])

\* The invariant holds when the worker starts: it has no client.
LEMMA SafeInit == Init => SafeInv
BY TypeInit DEF Init, SafeInv, AllFlagsCoverIo, ClientOk, CompletionOk, NotJoined,
                Outstanding, IoType, IdleIo

\* What taking a completion from the queue means for the invariant.
LEMMA DequeueOk ==
  ASSUME SafeInv, NEW c \in Clients, NEW t \in IoType, NEW n, Dequeue(c, t, n)
  PROVE  /\ t = "RECV" /\ ~NotJoined(c) /\ pc # "done" /\ pc' = pc
         /\ \A d \in Clients : /\ Outstanding(d, "SEND")' <=> Outstanding(d, "SEND")
                               /\ Outstanding(d, "RECV")' <=> Outstanding(d, "RECV") /\ d # c
         /\ \A i \in 1..Len(cq') : CompletionOk(cq'[i])
         /\ clientsBuff' = clientsBuff
<1>1. cq \in Seq(Clients \X IoType) /\ cq # <<>> /\ Head(cq) = <<c, t>> /\ cq' = Tail(cq)
  BY DEF SafeInv, TypeOK, Dequeue
<1>2. 1 \in 1..Len(cq) /\ cq[1] = <<c, t>>
  BY <1>1
<1>3. t = "RECV" /\ ~NotJoined(c)
  BY <1>2 DEF SafeInv, CompletionOk
<1>4. \A i \in 1..Len(cq') : i + 1 \in 1..Len(cq) /\ cq'[i] = cq[i + 1]
  BY <1>1
<1>5. \A i \in 1..Len(cq') : CompletionOk(cq'[i])
  BY <1>4 DEF SafeInv
<1>6. TypeOK
  BY DEF SafeInv
<1> QED BY <1>3, <1>5, <1>6, DequeueIo DEF Dequeue, IoType

\* Every step of the worker, of the accept thread, of the peers and of the
\* system keeps it, if no SEND is ever posted.
LEMMA SafeStep == ASSUME ~SendBack PROVE SafeInv /\ [Next]_vars => SafeInv'
<1> SUFFICES ASSUME SafeInv, [Next]_vars PROVE SafeInv'
  OBVIOUS
<1>t. TypeOK /\ TypeOK' /\ AllFlagsCoverIo /\ AllFlagsCoverIo'
  BY TypeStep, FlagsStep DEF SafeInv
<1>c. \A c \in Clients : ClientOk(c)
  BY DEF SafeInv
<1>q. \A i \in 1..Len(cq) : CompletionOk(cq[i])
  BY DEF SafeInv
<1> SUFFICES (\A c \in Clients : ClientOk(c))' /\ (\A i \in 1..Len(cq) : CompletionOk(cq[i]))'
  BY <1>t DEF SafeInv
<1> DEFINE Goal == (\A c \in Clients : ClientOk(c))' /\ (\A i \in 1..Len(cq) : CompletionOk(cq[i]))'
<1> USE <1>t
<1>1. CASE Join
  <2>1. PICK R \in SUBSET clientsBuff : io' = Posted(R, {})
    <3>1. PICK bad : io' = Posted({c \in WantRecv(clientsBuff) \ bad : HasRoom(c)}, {})
      BY <1>1 DEF Join
    <3> QED BY <3>1 DEF WantRecv
  <2>2. \A c \in Clients : /\ Outstanding(c, "RECV")' <=> Outstanding(c, "RECV") \/ c \in R
                           /\ Outstanding(c, "SEND")' <=> Outstanding(c, "SEND")
    BY <2>1, PostedIo
  <2>3. /\ clients' = clients \cup clientsBuff /\ clientsBuff' = {} /\ pc # "done"
        /\ obj' = obj /\ cq' = cq /\ sendLast' = sendLast
    BY <1>1 DEF Join, objVars, buffVars
  <2>4. \A c \in Clients : ClientOk(c)'
    BY <2>2, <2>3, <1>c DEF ClientOk, NotJoined
  <2> QED BY <2>3, <2>4, <1>q DEF CompletionOk, NotJoined
<1>2. CASE CheckTime
  <2>1. PICK dead \in SUBSET clients :
          /\ obj' = [c \in Clients |-> IF c \in Deletable(dead) THEN "freed" ELSE obj[c]]
          /\ clients' = clients \ dead
    BY <1>2 DEF CheckTime
  <2>2. /\ io' = io /\ cq' = cq /\ clientsBuff' = clientsBuff /\ sendLast' = sendLast
        /\ pc = "check"
    BY <1>2 DEF CheckTime, buffVars
  <2>3. \A c \in Clients : obj'[c] = obj[c] \/ (obj'[c] = "freed" /\ c \in dead /\ ~Outstanding(c, "RECV"))
    BY <2>1 DEF Deletable, IsPostIoAction, AllFlagsCoverIo
  <2>4. \A c \in Clients : c \in dead => ~NotJoined(c)
    BY <2>1, <1>c DEF ClientOk
  <2>5. \A c \in Clients : NotJoined(c)' => NotJoined(c)
    BY <2>2, <2>3 DEF NotJoined
  <2>6. \A c \in Clients : ClientOk(c)'
    BY <2>1, <2>2, <2>3, <2>4, <2>5, <1>c DEF ClientOk, NotJoined, Outstanding
  <2> QED BY <2>2, <2>5, <2>6, <1>q DEF CompletionOk
<1>3. CASE PostEvents
  <2>1. PICK badSend, badRecv :
        LET failSend == WantSend(clients) \cap badSend
            okSend   == WantSend(clients) \ badSend
            want     == WantRecv(clients \ failSend)
            failRecv == {c \in want \cap badRecv : HasRoom(c)}
            okRecv   == {c \in want \ badRecv : HasRoom(c)}
        IN /\ io' = Posted(okRecv, okSend)
           /\ Leave(failSend \cup failRecv)
           /\ clients' = clients \ (failSend \cup failRecv)
    BY <1>3 DEF PostEvents
  <2>2. WantSend(clients) = {}
    BY <1>c DEF WantSend, TypeOK, ClientOk
  <2> DEFINE R == {c \in WantRecv(clients) \ badRecv : HasRoom(c)}
             gone == {c \in WantRecv(clients) \cap badRecv : HasRoom(c)}
  <2>3. io' = Posted(R, {}) /\ Leave(gone) /\ clients' = clients \ gone
    BY <2>1, <2>2
  <2>4. /\ R \subseteq clients /\ gone \subseteq clients /\ R \cap gone = {}
        /\ \A c \in gone : c \in Clients /\ ~isPostRecv[c]
    BY DEF WantRecv, TypeOK
  <2>5. /\ cq' = cq /\ clientsBuff' = clientsBuff /\ sendLast' = sendLast /\ pc # "done"
    BY <1>3 DEF PostEvents, buffVars
  <2> HIDE DEF R, gone
  <2>6. \A c \in Clients : /\ Outstanding(c, "RECV")' <=> Outstanding(c, "RECV") \/ c \in R
                           /\ Outstanding(c, "SEND")' <=> Outstanding(c, "SEND")
    BY <2>3, PostedIo
  <2>7. \A c \in Clients : obj'[c] = IF c \in gone THEN "freed" ELSE obj[c]
    BY <2>3 DEF Leave
  <2>8. \A c \in Clients : NotJoined(c)' => NotJoined(c)
    BY <2>5, <2>7 DEF NotJoined
  <2>9. \A c \in Clients : c \in gone => ~Outstanding(c, "RECV") /\ ~NotJoined(c)
    BY <2>4, <1>c DEF AllFlagsCoverIo, ClientOk
  <2>10. ASSUME NEW c \in Clients PROVE ClientOk(c)'
    BY <2>3, <2>4, <2>5, <2>6, <2>7, <2>8, <2>9, <1>c DEF ClientOk, NotJoined
  <2> QED BY <2>5, <2>8, <2>10, <1>q DEF CompletionOk
<1>4. CASE RmClient
  <2>1. PICK c \in Clients, t \in IoType : /\ Dequeue(c, t, 0) /\ clients' = clients \ {c}
                                           /\ Leave({c}) /\ UNCHANGED buffVars
    BY <1>4 DEF RmClient
  <2>2. \A d \in Clients : obj'[d] = IF d = c THEN "freed" ELSE obj[d]
    BY <2>1 DEF Leave
  <2>3. \A d \in Clients : NotJoined(d)' => NotJoined(d)
    BY <2>1, <2>2, DequeueOk DEF NotJoined
  <2>4. /\ ~NotJoined(c) /\ clientsBuff' = clientsBuff /\ sendLast' = sendLast /\ pc # "done"
        /\ \A d \in Clients : /\ Outstanding(d, "SEND")' <=> Outstanding(d, "SEND")
                              /\ Outstanding(d, "RECV")' <=> Outstanding(d, "RECV") /\ d # c
        /\ \A i \in 1..Len(cq') : CompletionOk(cq'[i])
    BY <2>1, DequeueOk DEF buffVars
  <2>5. \A d \in Clients : ClientOk(d)'
    BY <2>1, <2>2, <2>3, <2>4, <1>c DEF ClientOk, NotJoined
  <2> QED BY <2>3, <2>4, <2>5 DEF CompletionOk
<1>5. CASE RecvEvent \/ SendEvent
  <2>1. PICK c \in Clients, t \in IoType, n \in Nat : /\ Dequeue(c, t, n)
                                                      /\ t = "RECV" => UNCHANGED sendLast
                                                      /\ UNCHANGED <<obj, clients>>
    BY <1>5 DEF RecvEvent, SendEvent, Recv4iocp, IoType, objVars
  <2>2. /\ clientsBuff' = clientsBuff /\ sendLast' = sendLast /\ pc' = pc
        /\ \A d \in Clients : /\ Outstanding(d, "SEND")' <=> Outstanding(d, "SEND")
                              /\ Outstanding(d, "RECV")' => Outstanding(d, "RECV")
        /\ \A i \in 1..Len(cq') : CompletionOk(cq'[i])
    BY <2>1, DequeueOk
  <2>3. \A d \in Clients : NotJoined(d)' <=> NotJoined(d)
    BY <2>1, <2>2 DEF NotJoined
  <2>4. \A d \in Clients : ClientOk(d)'
    BY <2>1, <2>2, <2>3, <1>c DEF ClientOk
  <2> QED BY <2>2, <2>3, <2>4 DEF CompletionOk
<1>6. CASE ClearClients
  <2>1. /\ \A c \in Clients : obj'[c] = IF c \in clients \cup clientsBuff THEN "freed" ELSE obj[c]
        /\ clients' = {} /\ clientsBuff' = {} /\ pc' = "done"
        /\ UNCHANGED <<io, cq, sendLast>>
    BY <1>6 DEF ClearClients, Leave, buffVars
  <2>2. \A c \in Clients : NotJoined(c)' => NotJoined(c)
    BY <2>1 DEF NotJoined
  <2>3. \A c \in Clients : ClientOk(c)'
    BY <2>1, <2>2, <1>c DEF ClientOk, Outstanding
  <2> QED BY <2>1, <2>2, <2>3, <1>q DEF CompletionOk
<1>7. ASSUME NEW c \in Clients, AddClient(c) PROVE Goal
  <2>1. /\ obj[c] = "none" /\ obj' = [obj EXCEPT ![c] = "live"]
        /\ clientsBuff' = clientsBuff \cup {c}
        /\ UNCHANGED <<clients, io, cq, pc, sendLast>>
    BY <1>7 DEF AddClient, buffVars
  <2>2. \A d \in Clients : obj'[d] = IF d = c THEN "live" ELSE obj[d]
    BY <2>1 DEF TypeOK
  <2>3. \A d \in Clients : NotJoined(d)' <=> NotJoined(d)
    BY <2>1, <2>2 DEF NotJoined
  <2>4. \A d \in Clients : ClientOk(d)'
    BY <2>1, <2>2, <2>3, <1>c DEF ClientOk, Outstanding
  <2> QED BY <2>1, <2>3, <2>4, <1>q DEF CompletionOk
<1>8. ASSUME NEW c \in Clients, System(c) PROVE Goal
  <2>1. PICK t \in IoType, n \in Nat : Complete(c, t, n)
    BY <1>8, SystemCompletes
  <2>2. /\ Outstanding(c, t) /\ cq' = Append(cq, <<c, t>>) /\ cq \in Seq(Clients \X IoType)
        /\ UNCHANGED <<obj, clients, clientsBuff, pc, sendLast>>
        /\ \A d \in Clients, u \in IoType : Outstanding(d, u)' <=> Outstanding(d, u)
    BY <2>1, CompleteIo DEF Complete, objVars, buffVars, TypeOK
  <2>3. t = "RECV" /\ ~NotJoined(c)
    BY <2>2, <1>c DEF IoType, ClientOk
  <2>4. \A i \in 1..Len(cq') : (i \in 1..Len(cq) /\ cq'[i] = cq[i]) \/ cq'[i] = <<c, "RECV">>
    BY <2>2, <2>3
  <2>5. \A d : NotJoined(d)' <=> NotJoined(d)
    BY <2>2 DEF NotJoined
  <2>6. \A d \in Clients : ClientOk(d)'
    BY <2>2, <2>5, <1>c DEF ClientOk, IoType
  <2>7. CompletionOk(<<c, "RECV">>)
    BY <2>3 DEF CompletionOk, IoType
  <2> QED BY <2>4, <2>5, <2>6, <2>7, <1>q DEF CompletionOk
<1>9. ASSUME UNCHANGED <<obj, clients, clientsBuff, io, cq>>,
             \A c \in Clients : sendLast'[c] = sendLast[c],
             pc' = "done" <=> pc = "done"
      PROVE  Goal
  BY <1>9, <1>c, <1>q DEF ClientOk, CompletionOk, NotJoined, Outstanding
<1>10. CASE DoMsg
  <2>1. sendLast' = [c \in Clients |-> sendLast[c] + ReplyLen * 0]
    BY <1>10 DEF DoMsg, Fitting
  <2>2. \A c \in Clients : sendLast'[c] = sendLast[c]
    BY <2>1, LenAssumption DEF TypeOK
  <2> QED BY <1>9, <1>10, <2>2 DEF DoMsg, objVars
<1>11. CASE Idle \/ Begin \/ NoEvent \/ WaitFails \/ Stop \/ UNCHANGED vars
  BY <1>9, <1>11 DEF Idle, Begin, NoEvent, WaitFails, Stop, vars, objVars, buffVars
<1>12. ASSUME NEW c \in Clients, Peer(c) PROVE Goal
  BY <1>9, <1>12 DEF Peer, PeerSend, PeerClose, PeerReset, objVars, buffVars
<1> QED BY <1>1, <1>2, <1>3, <1>4, <1>5, <1>6, <1>7, <1>8, <1>10, <1>11, <1>12 DEF Next, Worker

\* Without replies a worker never uses a deleted client and never deletes
\* one under an outstanding operation, for any number of clients and under
\* every fault of the model.  With replies it does: TLC shows how.
THEOREM NoDanglingHolds == ASSUME ~SendBack PROVE Spec => []NoDangling
<1>1. SafeInv => NoDangling
  BY DEF SafeInv, ClientOk, NoDangling, IoType, TypeOK
<1>2. SafeInv /\ [Next]_vars => SafeInv'
  BY SafeStep
<1> QED BY <1>1, <1>2, SafeInit, PTL DEF Spec

-----------------------------------------------------------------------------
(* The area of an outstanding operation.  The receive buffer of a client   *)
(* with a RECV is shorter than a message, so DoMsg leaves it alone; that   *)
(* it is so when the RECV is posted depends on where OnRun is.             *)

Region(c) ==
  /\ Outstanding(c, "RECV") => /\ io[c]["RECV"].at = recvLast[c]
                               /\ recvLast[c] + io[c]["RECV"].n <= RecvSize
                               /\ recvLast[c] < MsgLen
  /\ Outstanding(c, "SEND") => io[c]["SEND"].n <= sendLast[c]

\* A client that has not joined yet: nothing was posted for it.
Fresh(c) ==
  NotJoined(c) => /\ ~Outstanding(c, "RECV") /\ ~Outstanding(c, "SEND")
                  /\ c \notin clients /\ recvLast[c] < MsgLen
                  /\ c \in clientsBuff => obj[c] # "none"

\* Between DoMsg and the posts there is no whole message in any buffer.
BeforePosts == pc \in {"check", "post"} \/ (pc = "top" /\ isRun)
MsgsTaken == BeforePosts => \A c \in clients : recvLast[c] < MsgLen

JoinedOnly == \A i \in 1..Len(cq) : cq[i][1] \in Clients /\ ~NotJoined(cq[i][1])

RegionInv ==
  /\ TypeOK /\ AllFlagsCoverIo
  /\ \A c \in Clients : Region(c) /\ Fresh(c)
  /\ MsgsTaken /\ JoinedOnly

\* The worker starts without clients.
LEMMA RegionInit == Init => RegionInv
BY TypeInit, LenAssumption DEF Init, RegionInv, AllFlagsCoverIo, Region, Fresh, MsgsTaken, JoinedOnly,
                NotJoined, Outstanding, IoType, IdleIo

\* The area that the two functions of Buffer describe.
LEMMA PostedRegions ==
  ASSUME TypeOK, NEW R, NEW S, io' = Posted(R, S), UNCHANGED buffVars,
         NEW c \in Clients, Region(c), c \in R => recvLast[c] < MsgLen
  PROVE  Region(c)'
<1>1. /\ io'[c]["RECV"] = IF c \in R THEN RecvData(c) ELSE io[c]["RECV"]
      /\ io'[c]["SEND"] = IF c \in S THEN SendData(c) ELSE io[c]["SEND"]
  BY DEF Posted, IoType
<1>2. recvLast[c] \in Nat /\ sendLast[c] \in Nat /\ RecvSize \in Nat
  BY LenAssumption DEF TypeOK
<1>3. RecvData(c).at = recvLast[c] /\ recvLast[c] + RecvData(c).n <= RecvSize
  BY <1>2 DEF RecvData
<1>4. SendData(c).n <= sendLast[c]
  BY <1>2 DEF SendData
<1>5. recvLast' = recvLast /\ sendLast' = sendLast
  BY DEF buffVars
<1> QED BY <1>1, <1>3, <1>4, <1>5 DEF Region, Outstanding

\* The operation at the head of the queue ends and no other changes.
LEMMA DequeueRegion ==
  ASSUME RegionInv, NEW c \in Clients, NEW t \in IoType, NEW n, Dequeue(c, t, n)
  PROVE  /\ ~NotJoined(c) /\ pc = "wait" /\ pc' = "wait" /\ clientsBuff' = clientsBuff
         /\ \A d \in Clients, u \in IoType : io'[d][u] = IF d = c /\ u = t THEN IdleIo ELSE io[d][u]
         /\ \A i \in 1..Len(cq') : cq'[i][1] \in Clients /\ ~NotJoined(cq'[i][1])
<1>1. cq \in Seq(Clients \X IoType) /\ cq # <<>> /\ Head(cq) = <<c, t>> /\ cq' = Tail(cq)
  BY DEF RegionInv, TypeOK, Dequeue
<1>2. 1 \in 1..Len(cq) /\ cq[1] = <<c, t>>
  BY <1>1
<1>3. \A i \in 1..Len(cq') : i + 1 \in 1..Len(cq) /\ cq'[i] = cq[i + 1]
  BY <1>1
<1>4. io' = [io EXCEPT ![c][t] = IdleIo] /\ io \in [Clients -> [IoType -> IoRec]]
  BY DEF Dequeue, RegionInv, TypeOK, IoRec
<1>5. \A d \in Clients, u \in IoType : io'[d][u] = IF d = c /\ u = t THEN IdleIo ELSE io[d][u]
  BY <1>4
<1> QED BY <1>2, <1>3, <1>5 DEF RegionInv, JoinedOnly, Dequeue

\* A completion moves no more than the operation was posted for.
LEMMA SystemRegion ==
  ASSUME TypeOK, NEW c \in Clients, System(c)
  PROVE  \E t \in IoType, n \in Nat : /\ Complete(c, t, n) /\ Outstanding(c, t)
                                      /\ n <= io[c][t].n
                                      /\ \A d \in Clients, u \in IoType :
                                           /\ io'[d][u].at = io[d][u].at
                                           /\ io'[d][u].n = IF d = c /\ u = t THEN n ELSE io[d][u].n
<1>1. PICK t \in IoType, n \in Nat : Complete(c, t, n) /\ n <= io[c][t].n
  <2>1. \A t \in IoType : io[c][t].n \in Nat
    BY DEF TypeOK
  <2>2. CASE RecvDone(c) \/ SendDone(c)
    BY <2>2, LenAssumption DEF RecvDone, SendDone, IoType
  <2>3. CASE RecvEof(c)
    BY <2>1, <2>3 DEF RecvEof, IoType
  <2>4. CASE \E t \in IoType : Abort(c, t)
    BY <2>1, <2>4 DEF Abort
  <2> QED BY <2>2, <2>3, <2>4 DEF System
<1>2. /\ io' = [io EXCEPT ![c][t] = [io[c][t] EXCEPT !.st = "done", !.n = n]]
      /\ io \in [Clients -> [IoType -> IoRec]]
  BY <1>1 DEF Complete, TypeOK, IoRec
<1>3. \A d \in Clients, u \in IoType :
        io'[d][u] = IF d = c /\ u = t THEN [io[c][t] EXCEPT !.st = "done", !.n = n] ELSE io[d][u]
  BY <1>2
<1>4. /\ [io[c][t] EXCEPT !.st = "done", !.n = n].at = io[c][t].at
      /\ [io[c][t] EXCEPT !.st = "done", !.n = n].n = n
  <2>1. io[c][t] \in IoRec
    BY <1>2
  <2> QED BY <2>1 DEF IoRec
<1>5. \A d \in Clients, u \in IoType :
        /\ io'[d][u].at = io[d][u].at
        /\ io'[d][u].n = IF d = c /\ u = t THEN n ELSE io[d][u].n
  BY <1>3, <1>4
<1>6. Outstanding(c, t)
  BY <1>1, CompleteIo
<1> QED BY <1>1, <1>5, <1>6

\* What is left after DoMsg is shorter than a message, and a buffer that was
\* shorter before is left alone; replies are pushed behind what is there.
LEMMA DoMsgRegion ==
  ASSUME TypeOK, DoMsg, NEW c \in Clients
  PROVE  /\ c \in clients => recvLast'[c] < MsgLen
         /\ c \notin clients \/ recvLast[c] < MsgLen => recvLast'[c] = recvLast[c]
         /\ sendLast'[c] >= sendLast[c]
<1> DEFINE m == [d \in Clients |-> IF d \in clients THEN WholeMsgs(d) ELSE 0]
           r == [d \in Clients |-> Fitting(d, m[d])]
<1>1. /\ recvLast' = [d \in Clients |-> recvLast[d] - MsgLen * m[d]]
      /\ sendLast' = [d \in Clients |-> sendLast[d] + ReplyLen * r[d]]
  BY DEF DoMsg
<1>2. recvLast[c] \in Nat /\ sendLast[c] \in Nat /\ MsgLen \in Nat \ {0} /\ ReplyLen \in Nat
  BY LenAssumption DEF TypeOK
<1>3. recvLast[c] = MsgLen * WholeMsgs(c) + (recvLast[c] % MsgLen) /\ recvLast[c] % MsgLen \in 0..(MsgLen - 1)
  BY <1>2 DEF WholeMsgs
<1>4. m[c] = (IF c \in clients THEN WholeMsgs(c) ELSE 0) /\ r[c] = Fitting(c, m[c])
  OBVIOUS
<1> HIDE DEF m, r
<1>5. recvLast'[c] = recvLast[c] - MsgLen * m[c] /\ sendLast'[c] = sendLast[c] + ReplyLen * r[c]
  BY <1>1
<1>6. c \in clients => recvLast'[c] = recvLast[c] % MsgLen
  BY <1>2, <1>3, <1>4, <1>5, DoMsgSizes
<1>7. recvLast[c] < MsgLen => WholeMsgs(c) = 0
  <2>1. \A a \in Nat, b \in Nat \ {0} : a < b => a \div b = 0
    OBVIOUS
  <2> QED BY <1>2, <2>1 DEF WholeMsgs
<1>8. c \notin clients \/ recvLast[c] < MsgLen => recvLast'[c] = recvLast[c]
  BY <1>2, <1>4, <1>5, <1>7
<1>9. m[c] \in Nat
  BY <1>4, DoMsgSizes
<1>10. r[c] \in Nat
  BY <1>4, <1>9, DoMsgSizes
<1>11. ReplyLen * r[c] \in Nat
  BY <1>2, <1>10
<1> QED BY <1>2, <1>3, <1>5, <1>6, <1>8, <1>11

\* Every step keeps the areas: posts describe the buffer as it is, and what
\* moves its end later either has no operation outstanding or ends it.
LEMMA RegionStep == RegionInv /\ [Next]_vars => RegionInv'
<1> SUFFICES ASSUME RegionInv, [Next]_vars PROVE RegionInv'
  OBVIOUS
<1>t. TypeOK /\ TypeOK' /\ AllFlagsCoverIo /\ AllFlagsCoverIo'
  BY TypeStep, FlagsStep DEF RegionInv
<1>r. \A c \in Clients : Region(c) /\ Fresh(c)
  BY DEF RegionInv
<1>m. MsgsTaken /\ JoinedOnly
  BY DEF RegionInv
<1>n. \A c \in Clients, t \in IoType : io[c][t].n \in Nat /\ io'[c][t].n \in Nat
  <2>1. \A c \in Clients, t \in IoType : io[c][t] \in IoRec /\ io'[c][t] \in IoRec
    BY <1>t DEF TypeOK, IoRec
  <2> QED BY <2>1 DEF IoRec
<1> DEFINE Goal == (\A c \in Clients : Region(c) /\ Fresh(c))' /\ MsgsTaken' /\ JoinedOnly'
<1> SUFFICES Goal
  BY <1>t DEF RegionInv
<1> USE <1>t
<1>1. CASE Join
  <2>1. PICK R \in SUBSET clientsBuff : io' = Posted(R, {})
    <3>1. PICK bad : io' = Posted({c \in WantRecv(clientsBuff) \ bad : HasRoom(c)}, {})
      BY <1>1 DEF Join
    <3> QED BY <3>1 DEF WantRecv
  <2>2. /\ clients' = clients \cup clientsBuff /\ clientsBuff' = {} /\ pc = "top" /\ isRun
        /\ obj' = obj /\ cq' = cq /\ UNCHANGED buffVars /\ recvLast' = recvLast
    BY <1>1 DEF Join, objVars, buffVars
  <2>3. \A c \in clientsBuff : c \in Clients /\ NotJoined(c) /\ recvLast[c] < MsgLen
    BY <1>r DEF NotJoined, Fresh, TypeOK
  <2>4. \A c \in Clients : Region(c)'
    BY <2>1, <2>2, <2>3, <1>r, PostedRegions
  <2>5. \A c \in Clients : NotJoined(c)' => NotJoined(c) /\ c \notin clientsBuff
    BY <2>2, <1>r DEF NotJoined, Fresh
  <2>6. \A c \in Clients : /\ Outstanding(c, "RECV")' <=> Outstanding(c, "RECV") \/ c \in R
                           /\ Outstanding(c, "SEND")' <=> Outstanding(c, "SEND")
    BY <2>1, PostedIo
  <2>7. \A c \in Clients : Fresh(c)'
    BY <2>1, <2>2, <2>5, <2>6, <1>r DEF Fresh
  <2>8. MsgsTaken'
    BY <2>2, <2>3, <1>m DEF MsgsTaken, BeforePosts
  <2>9. JoinedOnly'
    BY <2>2, <2>5, <1>m DEF JoinedOnly
  <2> QED BY <2>4, <2>7, <2>8, <2>9
<1>2. CASE PostEvents
  <2>1. PICK badSend, badRecv :
        LET failSend == WantSend(clients) \cap badSend
            okSend   == WantSend(clients) \ badSend
            want     == WantRecv(clients \ failSend)
            failRecv == {c \in want \cap badRecv : HasRoom(c)}
            okRecv   == {c \in want \ badRecv : HasRoom(c)}
        IN /\ io' = Posted(okRecv, okSend)
           /\ Leave(failSend \cup failRecv)
           /\ clients' = clients \ (failSend \cup failRecv)
    BY <1>2 DEF PostEvents
  <2>2. PICK R \in SUBSET clients, S \in SUBSET clients, gone \in SUBSET clients :
             io' = Posted(R, S) /\ Leave(gone) /\ clients' = clients \ gone
    <3> DEFINE failSend == WantSend(clients) \cap badSend
               okSend   == WantSend(clients) \ badSend
               want     == WantRecv(clients \ failSend)
               failRecv == {c \in want \cap badRecv : HasRoom(c)}
               okRecv   == {c \in want \ badRecv : HasRoom(c)}
    <3>1. /\ okRecv \in SUBSET clients /\ okSend \in SUBSET clients
          /\ failSend \cup failRecv \in SUBSET clients
      BY DEF WantRecv, WantSend
    <3>2. io' = Posted(okRecv, okSend) /\ Leave(failSend \cup failRecv)
          /\ clients' = clients \ (failSend \cup failRecv)
      BY <2>1
    <3> HIDE DEF failSend, okSend, want, failRecv, okRecv
    <3> QED BY <3>1, <3>2
  <2>3. /\ cq' = cq /\ clientsBuff' = clientsBuff /\ pc = "post" /\ pc' = "wait"
        /\ UNCHANGED buffVars /\ recvLast' = recvLast
    BY <1>2 DEF PostEvents, buffVars
  <2>4. \A c \in clients : c \in Clients /\ recvLast[c] < MsgLen
    BY <2>3, <1>m DEF MsgsTaken, BeforePosts, TypeOK
  <2>5. \A c \in Clients : Region(c)'
    BY <2>2, <2>3, <2>4, <1>r, PostedRegions
  <2>6. \A c \in Clients : obj'[c] = IF c \in gone THEN "freed" ELSE obj[c]
    BY <2>2 DEF Leave
  <2>7. \A c \in Clients : NotJoined(c)' => NotJoined(c)
    BY <2>3, <2>6 DEF NotJoined
  <2>8. \A c \in Clients : /\ Outstanding(c, "RECV")' <=> Outstanding(c, "RECV") \/ c \in R
                           /\ Outstanding(c, "SEND")' <=> Outstanding(c, "SEND") \/ c \in S
    BY <2>2, PostedIo
  <2>9. \A c \in Clients : Fresh(c)'
    BY <2>2, <2>3, <2>6, <2>7, <2>8, <1>r DEF Fresh
  <2>10. MsgsTaken' /\ JoinedOnly'
    BY <2>3, <2>7, <1>m DEF MsgsTaken, BeforePosts, JoinedOnly
  <2> QED BY <2>5, <2>9, <2>10
<1>3. ASSUME NEW c \in Clients, NEW t \in IoType, NEW n \in Nat, Dequeue(c, t, n),
             \A d \in Clients : obj'[d] = obj[d] \/ (d = c /\ obj'[d] = "freed"),
             clients' \subseteq clients,
             \A d \in Clients : recvLast'[d] = recvLast[d] \/ (d = c /\ t = "RECV"),
             \A d \in Clients : sendLast'[d] = sendLast[d] \/ (d = c /\ t = "SEND")
      PROVE  Goal
  <2>1. /\ ~NotJoined(c) /\ pc' = "wait" /\ clientsBuff' = clientsBuff
        /\ \A d \in Clients, u \in IoType : io'[d][u] = IF d = c /\ u = t THEN IdleIo ELSE io[d][u]
        /\ \A i \in 1..Len(cq') : cq'[i][1] \in Clients /\ ~NotJoined(cq'[i][1])
    BY <1>3, DequeueRegion DEF RegionInv
  <2>2. \A d \in Clients, u \in IoType :
          /\ Outstanding(d, u)' <=> Outstanding(d, u) /\ ~(d = c /\ u = t)
          /\ Outstanding(d, u)' => io'[d][u] = io[d][u]
    BY <2>1 DEF Outstanding, IdleIo
  <2>3. \A d \in Clients : Region(d)'
    BY <2>2, <1>3, <1>r DEF Region, IoType
  <2>4. \A d \in Clients : NotJoined(d)' <=> NotJoined(d)
    BY <2>1, <1>3 DEF NotJoined
  <2>5. \A d \in Clients : NotJoined(d)' => d # c
    BY <2>1, <2>4
  <2>6. \A d \in Clients : Fresh(d)'
    BY <2>1, <2>2, <2>4, <2>5, <1>3, <1>r DEF Fresh, IoType
  <2> QED BY <2>1, <2>3, <2>4, <2>6 DEF MsgsTaken, BeforePosts, JoinedOnly
<1>4. CASE RmClient
  <2>1. PICK c \in Clients, t \in IoType : /\ Dequeue(c, t, 0) /\ clients' = clients \ {c}
                                           /\ Leave({c}) /\ UNCHANGED buffVars
    BY <1>4 DEF RmClient
  <2>2. \A d \in Clients : obj'[d] = obj[d] \/ (d = c /\ obj'[d] = "freed")
    BY <2>1 DEF Leave
  <2> QED BY <2>1, <2>2, <1>3 DEF buffVars
<1>5. CASE RecvEvent
  <2>1. PICK c \in Clients, n \in 1..RecvSize : /\ Dequeue(c, "RECV", n) /\ Read4iocp(c, n)
                                                /\ UNCHANGED <<sendLast, objVars, clients>>
    BY <1>5 DEF RecvEvent, Recv4iocp
  <2>2. \A d \in Clients : recvLast'[d] = recvLast[d] \/ d = c
    BY <2>1 DEF Read4iocp, TypeOK
  <2> QED BY <2>1, <2>2, <1>3, LenAssumption DEF objVars, IoType
<1>6. CASE SendEvent
  <2>1. PICK c \in Clients, n \in 1..SendSize : /\ Dequeue(c, "SEND", n) /\ Write2iocp(c, n)
                                                /\ UNCHANGED <<recvLast, objVars, clients>>
    BY <1>6 DEF SendEvent, Send2iocp
  <2>2. \A d \in Clients : sendLast'[d] = sendLast[d] \/ d = c
    BY <2>1 DEF Write2iocp, TypeOK
  <2> QED BY <2>1, <2>2, <1>3, LenAssumption DEF objVars, IoType
<1>7. CASE DoMsg
  <2>1. \A c \in Clients : /\ c \in clients => recvLast'[c] < MsgLen
                           /\ c \notin clients \/ recvLast[c] < MsgLen => recvLast'[c] = recvLast[c]
                           /\ sendLast'[c] >= sendLast[c]
    BY <1>7, DoMsgRegion
  <2>2. UNCHANGED <<obj, io, cq, clientsBuff, clients>>
    BY <1>7 DEF DoMsg, objVars
  <2>3. \A c \in Clients : /\ io[c]["SEND"].n \in Nat /\ sendLast[c] \in Nat /\ sendLast'[c] \in Nat
    BY <1>n DEF TypeOK, IoType
  <2>4. \A c \in Clients : Region(c)'
    BY <2>1, <2>2, <2>3, <1>r DEF Region, Outstanding
  <2>5. \A c \in Clients : Fresh(c)'
    BY <2>1, <2>2, <1>r DEF Fresh, NotJoined, Outstanding
  <2>6. clients \subseteq Clients
    BY DEF TypeOK
  <2>7. MsgsTaken'
    BY <2>1, <2>2, <2>6 DEF MsgsTaken
  <2>8. JoinedOnly'
    BY <2>2, <1>m DEF JoinedOnly, NotJoined
  <2> QED BY <2>4, <2>5, <2>7, <2>8
<1>8. CASE ClearClients
  <2>1. /\ \A c \in Clients : obj'[c] = IF c \in clients \cup clientsBuff THEN "freed" ELSE obj[c]
        /\ clients' = {} /\ clientsBuff' = {} /\ pc' = "done"
        /\ UNCHANGED <<io, cq, recvLast, sendLast>>
    BY <1>8 DEF ClearClients, Leave, buffVars
  <2>2. \A c \in Clients : NotJoined(c)' => NotJoined(c)
    BY <2>1 DEF NotJoined
  <2>3. \A c \in Clients : Region(c)' /\ Fresh(c)'
    BY <2>1, <2>2, <1>r DEF Region, Fresh, Outstanding
  <2> QED BY <2>1, <2>2, <2>3, <1>m DEF MsgsTaken, JoinedOnly
<1>9. ASSUME NEW c \in Clients, AddClient(c) PROVE Goal
  <2>1. /\ obj[c] = "none" /\ obj' = [obj EXCEPT ![c] = "live"]
        /\ clientsBuff' = clientsBuff \cup {c}
        /\ UNCHANGED <<clients, io, cq, pc, isRun, recvLast, sendLast>>
    BY <1>9 DEF AddClient, buffVars
  <2>2. \A d \in Clients : obj'[d] = IF d = c THEN "live" ELSE obj[d]
    BY <2>1 DEF TypeOK
  <2>3. \A d \in Clients : NotJoined(d)' <=> NotJoined(d)
    BY <2>1, <2>2 DEF NotJoined
  <2>4. \A d \in Clients : Region(d)' /\ Fresh(d)'
    BY <2>1, <2>2, <2>3, <1>r DEF Region, Fresh, Outstanding
  <2> QED BY <2>1, <2>3, <2>4, <1>m DEF MsgsTaken, BeforePosts, JoinedOnly
<1>10. ASSUME NEW c \in Clients, System(c) PROVE Goal
  <2>1. PICK t \in IoType, n \in Nat : /\ Complete(c, t, n) /\ Outstanding(c, t)
                                       /\ n <= io[c][t].n
                                       /\ \A d \in Clients, u \in IoType :
                                            /\ io'[d][u].at = io[d][u].at
                                            /\ io'[d][u].n = IF d = c /\ u = t THEN n ELSE io[d][u].n
    BY <1>10, SystemRegion
  <2>2. /\ cq' = Append(cq, <<c, t>>) /\ cq \in Seq(Clients \X IoType)
        /\ UNCHANGED <<obj, clients, clientsBuff, pc, isRun, recvLast, sendLast>>
        /\ \A d \in Clients, u \in IoType : Outstanding(d, u)' <=> Outstanding(d, u)
    BY <2>1, CompleteIo DEF Complete, objVars, buffVars, TypeOK
  <2>3. \A d \in Clients, u \in IoType : io'[d][u].n <= io[d][u].n /\ io[d][u].n \in Nat /\ io'[d][u].n \in Nat
    BY <2>1, <1>n
  <2>4. \A d \in Clients : recvLast[d] \in Nat /\ sendLast[d] \in Nat
    BY DEF TypeOK
  <2>5. \A d \in Clients : Region(d)'
    <3> TAKE d \in Clients
    <3>1. "RECV" \in IoType /\ "SEND" \in IoType /\ RecvSize \in Nat
      BY LenAssumption DEF IoType
    <3>2. Outstanding(d, "RECV")' => /\ io'[d]["RECV"].at = recvLast'[d]
                                     /\ recvLast'[d] + io'[d]["RECV"].n <= RecvSize
                                     /\ recvLast'[d] < MsgLen
      <4>1. Outstanding(d, "RECV")' => /\ io[d]["RECV"].at = recvLast[d]
                                       /\ recvLast[d] + io[d]["RECV"].n <= RecvSize
                                       /\ recvLast[d] < MsgLen
        BY <2>2, <3>1, <1>r DEF Region
      <4>2. recvLast[d] + io[d]["RECV"].n <= RecvSize => recvLast[d] + io'[d]["RECV"].n <= RecvSize
        BY <2>3, <2>4, <3>1
      <4> QED BY <2>1, <2>2, <3>1, <4>1, <4>2
    <3>3. Outstanding(d, "SEND")' => io'[d]["SEND"].n <= sendLast'[d]
      BY <2>2, <2>3, <2>4, <3>1, <1>r DEF Region
    <3> QED BY <3>2, <3>3 DEF Region
  <2>6. \A d : NotJoined(d)' <=> NotJoined(d)
    BY <2>2 DEF NotJoined
  <2>7. \A d \in Clients : Fresh(d)'
    BY <2>2, <2>6, <1>r DEF Fresh, IoType
  <2>8. ~NotJoined(c)
    BY <2>1, <1>r DEF Fresh, IoType
  <2>9. \A i \in 1..Len(cq') : (i \in 1..Len(cq) /\ cq'[i] = cq[i]) \/ cq'[i] = <<c, t>>
    BY <2>2
  <2>10. JoinedOnly'
    BY <2>6, <2>8, <2>9, <1>m DEF JoinedOnly
  <2> QED BY <2>2, <2>5, <2>7, <2>10, <1>m DEF MsgsTaken, BeforePosts
<1>11. ASSUME UNCHANGED <<clientsBuff, io, cq, recvLast, sendLast>>, clients' \subseteq clients,
              \A c \in Clients : obj'[c] = obj[c] \/ (obj[c] # "none" /\ obj'[c] = "freed"),
              BeforePosts' => BeforePosts
       PROVE  Goal
  <2>1. \A c \in Clients : NotJoined(c)' <=> NotJoined(c)
    BY <1>11 DEF NotJoined
  <2>2. \A c \in Clients : Region(c)' /\ Fresh(c)'
    BY <1>11, <2>1, <1>r DEF Region, Fresh, Outstanding
  <2> QED BY <1>11, <2>1, <2>2, <1>m DEF MsgsTaken, JoinedOnly
<1>12. CASE CheckTime
  <2>1. PICK dead \in SUBSET clients :
          /\ obj' = [c \in Clients |-> IF c \in Deletable(dead) THEN "freed" ELSE obj[c]]
          /\ clients' = clients \ dead
    BY <1>12 DEF CheckTime
  <2>2. \A c \in dead : c \in Clients /\ obj[c] # "none"
    BY <2>1, <1>r DEF Fresh, NotJoined, TypeOK
  <2>3. \A c \in Clients : obj'[c] = obj[c] \/ (obj[c] # "none" /\ obj'[c] = "freed")
    BY <2>1, <2>2 DEF Deletable
  <2> QED BY <1>11, <1>12, <2>1, <2>3 DEF CheckTime, buffVars, BeforePosts
<1>13. CASE Idle \/ Begin \/ NoEvent \/ WaitFails \/ Stop \/ UNCHANGED vars
  BY <1>11, <1>13 DEF Idle, Begin, NoEvent, WaitFails, Stop, vars, objVars, buffVars, BeforePosts
<1>14. ASSUME NEW c \in Clients, Peer(c) PROVE Goal
  BY <1>11, <1>14 DEF Peer, PeerSend, PeerClose, PeerReset, objVars, buffVars, BeforePosts
<1> QED BY <1>1, <1>2, <1>4, <1>5, <1>6, <1>7, <1>8, <1>9, <1>10, <1>12, <1>13, <1>14 DEF Next, Worker

\* The system writes where the program will look for the data and reads what
\* is still there, for every client that is not deleted.
THEOREM RegionsHold == Spec => []PostedRegion
<1>1. RegionInv => PostedRegion
  BY DEF RegionInv, Region, PostedRegion
<1> QED BY <1>1, RegionInit, RegionStep, PTL DEF Spec

-----------------------------------------------------------------------------
(* The bytes.  Every completion in the queue belongs to an operation that  *)
(* is done and to no other, so what it carries is counted once.            *)

QueueOk ==
  /\ \A i \in 1..Len(cq) : /\ cq[i][1] \in Clients /\ cq[i][2] \in IoType
                           /\ io[cq[i][1]][cq[i][2]].st = "done"
  /\ \A i, j \in 1..Len(cq) : i # j => cq[i][1] # cq[j][1] \/ cq[i][2] # cq[j][2]

InOk(c) ==
  obj[c] # "freed" /\ peer[c] # "reset" =>
    MsgLen * sent[c] = inbound[c] + InQueue(c, "RECV") + recvLast[c] + MsgLen * handled[c]

OutOk(c) ==
  obj[c] # "freed" => ReplyLen * replied[c] + InQueue(c, "SEND") = delivered[c] + sendLast[c]

BytesInv == RegionInv /\ QueueOk /\ \A c \in Clients : InOk(c) /\ OutOk(c)

\* Nothing was sent to a worker that starts.
LEMMA BytesInit == Init => BytesInv
BY RegionInit, LenAssumption DEF Init, BytesInv, QueueOk, InOk, OutOk, InQueue, IoType, IdleIo

\* A post needs a flag that is not set and so replaces no operation.
LEMMA PostedBytes ==
  ASSUME TypeOK, AllFlagsCoverIo, QueueOk, cq' = cq,
         NEW R \in SUBSET Clients, NEW S \in SUBSET Clients, io' = Posted(R, S),
         \A c \in R : ~isPostRecv[c], \A c \in S : ~isPostSend[c]
  PROVE  QueueOk' /\ \A c \in Clients, t \in IoType : InQueue(c, t)' = InQueue(c, t)
<1>1. \A c \in Clients, t \in IoType :
        io'[c][t] = IF t = "RECV" /\ c \in R THEN RecvData(c)
                    ELSE IF t = "SEND" /\ c \in S THEN SendData(c) ELSE io[c][t]
  BY DEF Posted
<1>2. \A c \in Clients : RecvData(c).st = "posted" /\ SendData(c).st = "posted"
  BY DEF RecvData, SendData
<1>3. \A c \in Clients : /\ c \in R => io[c]["RECV"].st = "idle"
                         /\ c \in S => io[c]["SEND"].st = "idle"
  BY DEF AllFlagsCoverIo, Outstanding
<1>4. \A c \in Clients, t \in IoType :
        \/ io'[c][t] = io[c][t]
        \/ io'[c][t].st = "posted" /\ io[c][t].st = "idle"
  BY <1>1, <1>2, <1>3 DEF IoType
<1>5. \A c \in Clients, t \in IoType : InQueue(c, t)' = InQueue(c, t)
  BY <1>4 DEF InQueue
<1>6. QueueOk'
  BY <1>4 DEF QueueOk
<1> QED BY <1>5, <1>6

\* The completion that is taken carries what its operation moved.
LEMMA DequeueBytes ==
  ASSUME TypeOK, QueueOk, NEW c \in Clients, NEW t \in IoType, NEW n \in Nat, Dequeue(c, t, n)
  PROVE  /\ QueueOk' /\ InQueue(c, t) = n /\ Outstanding(c, t) /\ io[c][t].n = n
         /\ \A d \in Clients, u \in IoType :
              InQueue(d, u)' = IF d = c /\ u = t THEN 0 ELSE InQueue(d, u)
<1>1. cq \in Seq(Clients \X IoType) /\ cq # <<>> /\ Head(cq) = <<c, t>> /\ cq' = Tail(cq)
  BY DEF TypeOK, Dequeue
<1>2. 1 \in 1..Len(cq) /\ cq[1] = <<c, t>>
  BY <1>1
<1>3. \A i \in 1..Len(cq') : i + 1 \in 1..Len(cq) /\ cq'[i] = cq[i + 1] /\ i + 1 # 1
  BY <1>1
<1>4. io' = [io EXCEPT ![c][t] = IdleIo] /\ io \in [Clients -> [IoType -> IoRec]]
  BY DEF Dequeue, TypeOK, IoRec
<1>5. \A d \in Clients, u \in IoType : io'[d][u] = IF d = c /\ u = t THEN IdleIo ELSE io[d][u]
  BY <1>4
<1>6. io[c][t].st = "done" /\ io[c][t].n = n
  BY <1>2 DEF QueueOk, Dequeue
<1>7. \A d \in Clients, u \in IoType :
        InQueue(d, u)' = IF d = c /\ u = t THEN 0 ELSE InQueue(d, u)
  BY <1>5 DEF InQueue, IdleIo
<1>8. \A i \in 1..Len(cq') : /\ cq'[i][1] \in Clients /\ cq'[i][2] \in IoType
                             /\ cq'[i][1] # c \/ cq'[i][2] # t
                             /\ io[cq'[i][1]][cq'[i][2]].st = "done"
  <2> TAKE i \in 1..Len(cq')
  <2>1. i + 1 \in 1..Len(cq) /\ cq'[i] = cq[i + 1] /\ i + 1 # 1
    BY <1>3
  <2>2. cq[i + 1][1] # cq[1][1] \/ cq[i + 1][2] # cq[1][2]
    BY <1>2, <2>1 DEF QueueOk
  <2>3. cq[1][1] = c /\ cq[1][2] = t
    BY <1>2
  <2> QED BY <2>1, <2>2, <2>3 DEF QueueOk
<1>9. \A i \in 1..Len(cq') : io'[cq'[i][1]][cq'[i][2]].st = "done"
  BY <1>5, <1>8
<1>10. \A i, j \in 1..Len(cq') : i # j => cq'[i][1] # cq'[j][1] \/ cq'[i][2] # cq'[j][2]
  <2> TAKE i, j \in 1..Len(cq')
  <2>1. i # j => i + 1 # j + 1
    OBVIOUS
  <2> QED BY <1>3, <2>1 DEF QueueOk
<1>11. QueueOk'
  BY <1>8, <1>9, <1>10 DEF QueueOk
<1> QED BY <1>6, <1>7, <1>11 DEF InQueue, Outstanding

\* A completion is new in the queue, for its operation was not done.
LEMMA CompleteBytes ==
  ASSUME TypeOK, QueueOk, NEW c \in Clients, NEW t \in IoType, NEW n \in Nat, Complete(c, t, n)
  PROVE  /\ QueueOk' /\ InQueue(c, t) = 0
         /\ \A d \in Clients, u \in IoType :
              InQueue(d, u)' = IF d = c /\ u = t THEN n ELSE InQueue(d, u)
<1>1. cq \in Seq(Clients \X IoType) /\ cq' = Append(cq, <<c, t>>) /\ io[c][t].st = "posted"
  BY DEF TypeOK, Complete
<1>2. \A i \in 1..Len(cq') : (i \in 1..Len(cq) /\ cq'[i] = cq[i]) \/ (i = Len(cq) + 1 /\ cq'[i] = <<c, t>>)
  BY <1>1
<1>3. /\ io' = [io EXCEPT ![c][t] = [io[c][t] EXCEPT !.st = "done", !.n = n]]
      /\ io \in [Clients -> [IoType -> IoRec]]
  BY DEF Complete, TypeOK, IoRec
<1>4. \A d \in Clients, u \in IoType :
        io'[d][u] = IF d = c /\ u = t THEN [io[c][t] EXCEPT !.st = "done", !.n = n] ELSE io[d][u]
  BY <1>3
<1>5. [io[c][t] EXCEPT !.st = "done", !.n = n].st = "done" /\ [io[c][t] EXCEPT !.st = "done", !.n = n].n = n
  <2>1. io[c][t] \in IoRec
    BY <1>3
  <2> QED BY <2>1 DEF IoRec
<1>6. \A d \in Clients, u \in IoType :
        InQueue(d, u)' = IF d = c /\ u = t THEN n ELSE InQueue(d, u)
  BY <1>4, <1>5 DEF InQueue
<1>7. \A i \in 1..Len(cq) : cq[i][1] # c \/ cq[i][2] # t
  BY <1>1 DEF QueueOk
<1>8. \A i \in 1..Len(cq') : /\ cq'[i][1] \in Clients /\ cq'[i][2] \in IoType
                             /\ io'[cq'[i][1]][cq'[i][2]].st = "done"
  <2> TAKE i \in 1..Len(cq')
  <2>1. io'[c][t].st = "done"
    BY <1>4, <1>5
  <2>2. \A d \in Clients, u \in IoType : io[d][u].st = "done" => io'[d][u].st = "done"
    BY <1>4, <2>1
  <2>3. CASE i \in 1..Len(cq) /\ cq'[i] = cq[i]
    BY <2>2, <2>3 DEF QueueOk
  <2>4. CASE cq'[i] = <<c, t>>
    <3>1. cq'[i][1] = c /\ cq'[i][2] = t
      BY <2>4
    <3> QED BY <2>1, <3>1
  <2> QED BY <1>2, <2>3, <2>4
<1>9. \A i, j \in 1..Len(cq') : i # j => cq'[i][1] # cq'[j][1] \/ cq'[i][2] # cq'[j][2]
  BY <1>2, <1>7 DEF QueueOk
<1>10. QueueOk'
  BY <1>8, <1>9 DEF QueueOk
<1> QED BY <1>1, <1>6, <1>10 DEF InQueue

\* DoMsg counts what it takes out of the receive buffer and what it puts
\* into the send buffer.
LEMMA DoMsgBytes ==
  ASSUME TypeOK, DoMsg, NEW c \in Clients
  PROVE  /\ MsgLen * handled'[c] + recvLast'[c] = MsgLen * handled[c] + recvLast[c]
         /\ ReplyLen * replied'[c] + sendLast[c] = ReplyLen * replied[c] + sendLast'[c]
<1> DEFINE m == [d \in Clients |-> IF d \in clients THEN WholeMsgs(d) ELSE 0]
           r == [d \in Clients |-> Fitting(d, m[d])]
<1>1. /\ handled' = [d \in Clients |-> handled[d] + m[d]]
      /\ recvLast' = [d \in Clients |-> recvLast[d] - MsgLen * m[d]]
      /\ replied' = [d \in Clients |-> replied[d] + r[d]]
      /\ sendLast' = [d \in Clients |-> sendLast[d] + ReplyLen * r[d]]
  BY DEF DoMsg
<1>2. m[c] \in Nat
  BY DoMsgSizes
<1>3. r[c] \in Nat
  <2>1. r[c] = Fitting(c, m[c])
    OBVIOUS
  <2> HIDE DEF m, r
  <2> QED BY <1>2, <2>1, DoMsgSizes
<1> HIDE DEF m, r
<1>4. /\ handled'[c] = handled[c] + m[c] /\ recvLast'[c] = recvLast[c] - MsgLen * m[c]
      /\ replied'[c] = replied[c] + r[c] /\ sendLast'[c] = sendLast[c] + ReplyLen * r[c]
  BY <1>1
<1>5. \A a, b, k \in Nat : k * (a + b) = k * a + k * b /\ k * b \in Nat /\ k * a \in Nat
  OBVIOUS
<1>6. /\ handled[c] \in Nat /\ recvLast[c] \in Nat /\ replied[c] \in Nat /\ sendLast[c] \in Nat
      /\ MsgLen \in Nat /\ ReplyLen \in Nat
  BY LenAssumption DEF TypeOK
<1>7. /\ MsgLen * handled'[c] = MsgLen * handled[c] + MsgLen * m[c]
      /\ ReplyLen * replied'[c] = ReplyLen * replied[c] + ReplyLen * r[c]
      /\ {MsgLen * handled[c], MsgLen * m[c], ReplyLen * replied[c], ReplyLen * r[c]} \subseteq Nat
  BY <1>2, <1>3, <1>4, <1>5, <1>6
<1> QED BY <1>4, <1>6, <1>7

\* Every step keeps the accounts of every client that is not deleted.
LEMMA BytesStep == BytesInv /\ [Next]_vars => BytesInv'
<1> SUFFICES ASSUME BytesInv, [Next]_vars PROVE BytesInv'
  OBVIOUS
<1>t. TypeOK /\ TypeOK' /\ AllFlagsCoverIo /\ RegionInv /\ RegionInv' /\ QueueOk
  BY RegionStep DEF BytesInv, RegionInv
<1>b. \A c \in Clients : InOk(c) /\ OutOk(c) /\ Region(c)
  BY DEF BytesInv, RegionInv
<1>n. \A c \in Clients :
        /\ {inbound[c], sent[c], handled[c], replied[c], delivered[c], recvLast[c], sendLast[c]} \subseteq Nat
        /\ MsgLen * handled[c] \in Nat /\ MsgLen * sent[c] \in Nat /\ ReplyLen * replied[c] \in Nat
        /\ InQueue(c, "RECV") \in Nat /\ InQueue(c, "SEND") \in Nat
  <2>1. \A a, b \in Nat : a * b \in Nat
    OBVIOUS
  <2>2. \A c \in Clients, t \in IoType : io[c][t] \in IoRec
    BY <1>t DEF TypeOK, IoRec
  <2>3. \A c \in Clients, t \in IoType : InQueue(c, t) \in Nat
    BY <2>2 DEF IoRec, InQueue
  <2>4. \A c \in Clients :
          {inbound[c], sent[c], handled[c], replied[c], delivered[c], recvLast[c], sendLast[c]} \subseteq Nat
    BY <1>t, LenAssumption DEF TypeOK
  <2> QED BY <2>1, <2>3, <2>4, LenAssumption DEF IoType
<1> DEFINE Goal == (\A c \in Clients : InOk(c) /\ OutOk(c))' /\ QueueOk'
<1> SUFFICES Goal
  BY <1>t DEF BytesInv
<1>1. ASSUME QueueOk', \A c \in Clients, t \in IoType : InQueue(c, t)' = InQueue(c, t),
             UNCHANGED <<inbound, sent, handled, replied, delivered, recvLast, sendLast>>,
             \A c \in Clients : /\ obj'[c] # "freed" => obj[c] # "freed"
                                /\ peer'[c] # "reset" => peer[c] # "reset"
      PROVE  Goal
  BY <1>1, <1>b DEF InOk, OutOk, IoType
<1>2. ASSUME UNCHANGED <<io, cq>> PROVE QueueOk' /\ \A c \in Clients, t \in IoType : InQueue(c, t)' = InQueue(c, t)
  BY <1>2, <1>t DEF QueueOk, InQueue
<1>3. CASE Join
  <2>1. PICK bad : io' = Posted({c \in WantRecv(clientsBuff) \ bad : HasRoom(c)}, {})
    BY <1>3 DEF Join
  <2> DEFINE R == {c \in WantRecv(clientsBuff) \ bad : HasRoom(c)}
  <2>2. R \in SUBSET Clients /\ \A c \in R : ~isPostRecv[c]
    BY <1>t DEF WantRecv, TypeOK
  <2>3. io' = Posted(R, {})
    BY <2>1
  <2>4. cq' = cq
    BY <1>3 DEF Join
  <2> HIDE DEF R
  <2>5. QueueOk' /\ \A c \in Clients, t \in IoType : InQueue(c, t)' = InQueue(c, t)
    BY <1>t, <2>2, <2>3, <2>4, PostedBytes
  <2> QED BY <1>1, <1>3, <2>5 DEF Join, netVars, objVars, buffVars, appVars
<1>4. CASE PostEvents
  <2>1. PICK badSend, badRecv :
        LET failSend == WantSend(clients) \cap badSend
            okSend   == WantSend(clients) \ badSend
            want     == WantRecv(clients \ failSend)
            failRecv == {c \in want \cap badRecv : HasRoom(c)}
            okRecv   == {c \in want \ badRecv : HasRoom(c)}
        IN io' = Posted(okRecv, okSend) /\ Leave(failSend \cup failRecv)
    BY <1>4 DEF PostEvents
  <2> DEFINE R == {c \in WantRecv(clients \ (WantSend(clients) \cap badSend)) \ badRecv : HasRoom(c)}
             S == WantSend(clients) \ badSend
  <2>2. /\ R \in SUBSET Clients /\ \A c \in R : ~isPostRecv[c]
        /\ S \in SUBSET Clients /\ \A c \in S : ~isPostSend[c]
    BY <1>t DEF WantRecv, WantSend, TypeOK
  <2>3. io' = Posted(R, S)
    BY <2>1
  <2>4. cq' = cq
    BY <1>4 DEF PostEvents
  <2>5. \A c \in Clients : obj'[c] # "freed" => obj[c] # "freed"
    BY <2>1 DEF Leave
  <2> HIDE DEF R, S
  <2>6. QueueOk' /\ \A c \in Clients, t \in IoType : InQueue(c, t)' = InQueue(c, t)
    BY <1>t, <2>2, <2>3, <2>4, PostedBytes
  <2> QED BY <1>1, <1>4, <2>5, <2>6 DEF PostEvents, netVars, buffVars, appVars
<1>5. CASE RmClient
  <2>1. PICK c \in Clients, t \in IoType : Dequeue(c, t, 0) /\ Leave({c}) /\ UNCHANGED buffVars
    BY <1>5 DEF RmClient
  <2>2. /\ QueueOk'
        /\ \A d \in Clients, u \in IoType : InQueue(d, u)' = IF d = c /\ u = t THEN 0 ELSE InQueue(d, u)
    BY <1>t, <2>1, DequeueBytes
  <2>3. \A d \in Clients : obj'[d] = IF d = c THEN "freed" ELSE obj[d]
    BY <2>1 DEF Leave
  <2>4. UNCHANGED <<inbound, sent, peer, handled, replied, delivered, recvLast, sendLast>>
    BY <2>1 DEF Dequeue, netVars, appVars, buffVars
  <2> QED BY <2>2, <2>3, <2>4, <1>b DEF InOk, OutOk, IoType
<1>6. CASE RecvEvent
  <2>1. PICK c \in Clients, n \in 1..RecvSize : /\ Dequeue(c, "RECV", n) /\ Read4iocp(c, n)
                                                /\ UNCHANGED <<sendLast, objVars>>
    BY <1>6 DEF RecvEvent, Recv4iocp
  <2>2. n \in Nat /\ "RECV" \in IoType /\ "SEND" \in IoType
    BY LenAssumption DEF IoType
  <2>3. /\ QueueOk' /\ InQueue(c, "RECV") = n /\ Outstanding(c, "RECV") /\ io[c]["RECV"].n = n
        /\ \A d \in Clients : /\ InQueue(d, "RECV")' = IF d = c THEN 0 ELSE InQueue(d, "RECV")
                              /\ InQueue(d, "SEND")' = InQueue(d, "SEND")
    BY <1>t, <2>1, <2>2, DequeueBytes
  <2>4. recvLast[c] + n <= RecvSize
    BY <2>3, <1>b DEF Region
  <2>5. recvLast' = [recvLast EXCEPT ![c] = recvLast[c] + n]
    BY <2>1, <2>2, <2>4, <1>n, LenAssumption DEF Read4iocp
  <2>6. \A d \in Clients : recvLast'[d] = IF d = c THEN recvLast[c] + n ELSE recvLast[d]
    BY <2>5, <1>t DEF TypeOK
  <2>7. UNCHANGED <<inbound, sent, peer, obj, handled, replied, delivered, sendLast>>
    BY <2>1 DEF Dequeue, netVars, appVars, objVars
  <2>8. \A d \in Clients : InOk(d)'
    BY <2>2, <2>3, <2>6, <2>7, <1>b, <1>n DEF InOk
  <2>9. \A d \in Clients : OutOk(d)'
    BY <2>3, <2>7, <1>b DEF OutOk
  <2> QED BY <2>3, <2>8, <2>9
<1>7. CASE SendEvent
  <2>1. PICK c \in Clients, n \in 1..SendSize : /\ Dequeue(c, "SEND", n) /\ Write2iocp(c, n)
                                                /\ UNCHANGED <<recvLast, objVars>>
    BY <1>7 DEF SendEvent, Send2iocp
  <2>2. n \in Nat /\ "RECV" \in IoType /\ "SEND" \in IoType
    BY LenAssumption DEF IoType
  <2>3. /\ QueueOk' /\ InQueue(c, "SEND") = n /\ Outstanding(c, "SEND") /\ io[c]["SEND"].n = n
        /\ \A d \in Clients : /\ InQueue(d, "SEND")' = IF d = c THEN 0 ELSE InQueue(d, "SEND")
                              /\ InQueue(d, "RECV")' = InQueue(d, "RECV")
    BY <1>t, <2>1, <2>2, DequeueBytes
  <2>4. n <= sendLast[c]
    BY <2>3, <1>b DEF Region
  <2>5. sendLast' = [sendLast EXCEPT ![c] = sendLast[c] - n]
    BY <2>1, <2>2, <2>4, <1>n DEF Write2iocp
  <2>6. \A d \in Clients : sendLast'[d] = IF d = c THEN sendLast[c] - n ELSE sendLast[d]
    BY <2>5, <1>t DEF TypeOK
  <2>7. UNCHANGED <<inbound, sent, peer, obj, handled, replied, delivered, recvLast>>
    BY <2>1 DEF Dequeue, netVars, appVars, objVars
  <2>8. \A d \in Clients : OutOk(d)'
    BY <2>2, <2>3, <2>6, <2>7, <1>b, <1>n DEF OutOk
  <2>9. \A d \in Clients : InOk(d)'
    BY <2>3, <2>7, <1>b DEF InOk
  <2> QED BY <2>3, <2>8, <2>9
<1>8. CASE DoMsg
  <2>1. \A c \in Clients :
          /\ MsgLen * handled'[c] + recvLast'[c] = MsgLen * handled[c] + recvLast[c]
          /\ ReplyLen * replied'[c] + sendLast[c] = ReplyLen * replied[c] + sendLast'[c]
    BY <1>8, <1>t, DoMsgBytes
  <2>2. UNCHANGED <<inbound, sent, peer, obj, delivered, io, cq>>
    BY <1>8 DEF DoMsg, netVars, objVars
  <2>3. QueueOk' /\ \A c \in Clients : /\ InQueue(c, "RECV")' = InQueue(c, "RECV")
                                       /\ InQueue(c, "SEND")' = InQueue(c, "SEND")
    BY <1>2, <2>2 DEF IoType
  <2>4. \A c \in Clients : /\ handled'[c] \in Nat /\ recvLast'[c] \in Nat
                           /\ replied'[c] \in Nat /\ sendLast'[c] \in Nat
    BY <1>t, LenAssumption DEF TypeOK
  <2>5. \A c \in Clients : MsgLen * handled'[c] \in Nat /\ ReplyLen * replied'[c] \in Nat
    <3>1. \A a, b \in Nat : a * b \in Nat
      OBVIOUS
    <3> QED BY <2>4, <3>1, LenAssumption
  <2>6. \A c \in Clients : InOk(c)'
    <3> TAKE c \in Clients
    <3> DEFINE old == MsgLen * handled[c]
               new == MsgLen * handled'[c]
    <3>1. /\ new + recvLast'[c] = old + recvLast[c]
          /\ {old, new, recvLast[c], recvLast'[c], inbound[c], InQueue(c, "RECV")} \subseteq Nat
      BY <2>1, <2>4, <2>5, <1>n
    <3>2. obj[c] # "freed" /\ peer[c] # "reset" =>
            MsgLen * sent[c] = inbound[c] + InQueue(c, "RECV") + recvLast[c] + old
      BY <1>b DEF InOk
    <3> HIDE DEF old, new
    <3>3. inbound[c] + InQueue(c, "RECV") + recvLast[c] + old
            = inbound[c] + InQueue(c, "RECV") + recvLast'[c] + new
      BY <3>1
    <3> QED BY <2>2, <2>3, <3>2, <3>3 DEF InOk, new
  <2>7. \A c \in Clients : OutOk(c)'
    BY <2>1, <2>2, <2>3, <2>4, <2>5, <1>b, <1>n DEF OutOk
  <2> QED BY <2>3, <2>6, <2>7
<1>9. ASSUME NEW c \in Clients, NEW t \in IoType, NEW n \in Nat, Complete(c, t, n),
             \A d \in Clients : inbound'[d] = IF d = c /\ t = "RECV" THEN inbound[d] - n ELSE inbound[d],
             \A d \in Clients : delivered'[d] = IF d = c /\ t = "SEND" THEN delivered[d] + n ELSE delivered[d]
      PROVE  Goal
  <2>1. /\ QueueOk' /\ InQueue(c, t) = 0
        /\ \A d \in Clients, u \in IoType : InQueue(d, u)' = IF d = c /\ u = t THEN n ELSE InQueue(d, u)
    BY <1>9, <1>t, CompleteBytes
  <2>2. UNCHANGED <<peer, sent, obj, handled, replied, recvLast, sendLast>>
    BY <1>9 DEF Complete, objVars, appVars, buffVars
  <2>3. \A d \in Clients : InOk(d)'
    BY <2>1, <2>2, <1>9, <1>b, <1>n DEF InOk, IoType
  <2>4. \A d \in Clients : OutOk(d)'
    BY <2>1, <2>2, <1>9, <1>b, <1>n DEF OutOk, IoType
  <2> QED BY <2>1, <2>3, <2>4
<1>10. ASSUME NEW c \in Clients, System(c) PROVE Goal
  <2>1. CASE RecvDone(c)
    <3>1. PICK n \in 1..RecvSize : /\ Complete(c, "RECV", n) /\ UNCHANGED delivered
                                   /\ inbound' = [inbound EXCEPT ![c] = inbound[c] - n]
      BY <2>1 DEF RecvDone
    <3>2. n \in Nat /\ \A d \in Clients : inbound'[d] = IF d = c THEN inbound[d] - n ELSE inbound[d]
      BY <3>1, <1>t, LenAssumption DEF TypeOK
    <3> QED BY <3>1, <3>2, <1>9 DEF IoType
  <2>2. CASE SendDone(c)
    <3>1. PICK n \in 1..SendSize : /\ Complete(c, "SEND", n) /\ UNCHANGED inbound
                                   /\ delivered' = [delivered EXCEPT ![c] = delivered[c] + n]
      BY <2>2 DEF SendDone
    <3>2. n \in Nat /\ \A d \in Clients : delivered'[d] = IF d = c THEN delivered[d] + n ELSE delivered[d]
      BY <3>1, <1>t, LenAssumption DEF TypeOK
    <3> QED BY <3>1, <3>2, <1>9 DEF IoType
  <2>3. ASSUME NEW t \in IoType, Complete(c, t, 0), UNCHANGED <<inbound, delivered>> PROVE Goal
    <3>1. \A d \in Clients : inbound[d] = inbound[d] - 0 /\ delivered[d] = delivered[d] + 0
      BY <1>n
    <3> QED BY <2>3, <3>1, <1>9
  <2>4. CASE RecvEof(c)
    BY <2>3, <2>4 DEF RecvEof, IoType
  <2>5. CASE \E t \in IoType : Abort(c, t)
    BY <2>3, <2>5 DEF Abort
  <2> QED BY <1>10, <2>1, <2>2, <2>4, <2>5 DEF System
<1>11. ASSUME NEW c \in Clients, Peer(c) PROVE Goal
  <2>1. UNCHANGED <<io, cq, obj, handled, replied, delivered, recvLast, sendLast>>
    BY <1>11 DEF Peer, PeerSend, PeerClose, PeerReset, objVars, appVars, buffVars
  <2>2. QueueOk' /\ \A d \in Clients : /\ InQueue(d, "RECV")' = InQueue(d, "RECV")
                                       /\ InQueue(d, "SEND")' = InQueue(d, "SEND")
    BY <1>2, <2>1 DEF IoType
  <2>3. \A d \in Clients : OutOk(d)'
    BY <2>1, <2>2, <1>b DEF OutOk
  <2>4. CASE PeerSend(c)
    <3>1. /\ \A d \in Clients : /\ sent'[d] = IF d = c THEN sent[d] + 1 ELSE sent[d]
                                /\ inbound'[d] = IF d = c THEN inbound[d] + MsgLen ELSE inbound[d]
          /\ peer' = peer
      BY <2>4, <1>t DEF PeerSend, TypeOK
    <3>2. MsgLen * (sent[c] + 1) = MsgLen * sent[c] + MsgLen
      BY <1>n, LenAssumption
    <3> QED BY <2>1, <2>2, <2>3, <3>1, <3>2, <1>b, <1>n, LenAssumption DEF InOk
  <2>5. CASE PeerClose(c)
    <3>1. /\ \A d \in Clients : peer'[d] # "reset" => peer[d] # "reset"
          /\ UNCHANGED <<inbound, sent>>
      BY <2>5, <1>t DEF PeerClose, TypeOK
    <3> QED BY <2>1, <2>2, <2>3, <3>1, <1>b DEF InOk
  <2>6. CASE PeerReset(c)
    <3>1. /\ \A d \in Clients : /\ peer'[d] = IF d = c THEN "reset" ELSE peer[d]
                                /\ d # c => inbound'[d] = inbound[d]
          /\ sent' = sent
      BY <2>6, <1>t DEF PeerReset, TypeOK
    <3> QED BY <2>1, <2>2, <2>3, <3>1, <1>b DEF InOk
  <2> QED BY <1>11, <2>4, <2>5, <2>6 DEF Peer
<1>12. CASE CheckTime
  <2>1. \A c \in Clients : obj'[c] # "freed" => obj[c] # "freed"
    BY <1>12 DEF CheckTime, Deletable
  <2> QED BY <1>1, <1>2, <1>12, <2>1 DEF CheckTime, netVars, appVars, buffVars
<1>13. CASE ClearClients
  <2>1. \A c \in Clients : obj'[c] # "freed" => obj[c] # "freed"
    BY <1>13 DEF ClearClients, Leave
  <2> QED BY <1>1, <1>2, <1>13, <2>1 DEF ClearClients, netVars, appVars, buffVars
<1>14. ASSUME NEW c \in Clients, AddClient(c) PROVE Goal
  <2>1. \A d \in Clients : obj'[d] # "freed" => obj[d] # "freed"
    BY <1>14, <1>t DEF AddClient, TypeOK
  <2> QED BY <1>1, <1>2, <1>14, <2>1 DEF AddClient, netVars, appVars, buffVars
<1>15. CASE Idle \/ Begin \/ NoEvent \/ WaitFails \/ Stop \/ UNCHANGED vars
  BY <1>1, <1>2, <1>15 DEF Idle, Begin, NoEvent, WaitFails, Stop, vars, netVars, objVars, appVars, buffVars
<1> QED BY <1>3, <1>4, <1>5, <1>6, <1>7, <1>8, <1>10, <1>11, <1>12, <1>13, <1>14, <1>15 DEF Next, Worker

\* Nothing a peer sends is lost or handled twice before its connection is
\* reset or its client deleted, whatever the sizes in which it arrives.
THEOREM BytesInHold == Spec => []BytesIn
<1>1. BytesInv => BytesIn
  BY DEF BytesInv, InOk, BytesIn
<1> QED BY <1>1, BytesInit, BytesStep, PTL DEF Spec

\* No reply that was accepted is lost or sent twice, also when the system
\* takes only a part of what a SEND was given.
THEOREM BytesOutHold == Spec => []BytesOut
<1>1. BytesInv => BytesOut
  BY DEF BytesInv, OutOk, BytesOut
<1> QED BY <1>1, BytesInit, BytesStep, PTL DEF Spec

-----------------------------------------------------------------------------
\* A client leaves the queues of the worker only when it is deleted or when
\* CheckTime closes its socket.
LEMMA OrphanStep == TypeOK /\ NoOrphan /\ [Next]_vars => NoOrphan'
<1> SUFFICES ASSUME TypeOK, NoOrphan, [Next]_vars PROVE NoOrphan'
  OBVIOUS
<1>1. ASSUME NEW S \in SUBSET Clients,
             \A c \in Clients : obj'[c] = (IF c \in S THEN "freed" ELSE obj[c]) /\ (open'[c] => open[c]),
             \A c \in Clients : c \in clients \cup clientsBuff => c \in clients' \cup clientsBuff' \/ c \in S
      PROVE  NoOrphan'
  BY <1>1 DEF NoOrphan
<1>2. CASE Join \/ RecvEvent \/ SendEvent \/ Idle \/ Begin \/ NoEvent \/ WaitFails \/ DoMsg \/ Stop
           \/ UNCHANGED vars
  BY <1>2 DEF Join, RecvEvent, SendEvent, Dequeue, Idle, Begin, NoEvent, WaitFails, DoMsg, Stop,
              vars, objVars, NoOrphan
<1>3. ASSUME NEW c \in Clients, Peer(c) \/ System(c) PROVE NoOrphan'
  BY <1>3 DEF Peer, PeerSend, PeerClose, PeerReset, System, RecvDone, SendDone, RecvEof, Abort, Complete,
              objVars, NoOrphan
<1>4. CASE CheckTime
  BY <1>4 DEF CheckTime, Deletable, NoOrphan, TypeOK
<1>5. CASE PostEvents
  <2>1. PICK gone : Leave(gone) /\ clients' = clients \ gone
    <3>1. PICK badSend, badRecv :
          LET failSend == WantSend(clients) \cap badSend
              want     == WantRecv(clients \ failSend)
              failRecv == {c \in want \cap badRecv : HasRoom(c)}
          IN Leave(failSend \cup failRecv) /\ clients' = clients \ (failSend \cup failRecv)
      BY <1>5 DEF PostEvents
    <3> QED BY <3>1
  <2>2. \A c \in Clients : /\ obj'[c] = IF c \in gone THEN "freed" ELSE obj[c]
                           /\ open'[c] = (open[c] /\ c \notin gone)
    BY <2>1 DEF Leave
  <2>3. clientsBuff' = clientsBuff
    BY <1>5 DEF PostEvents
  <2> QED BY <2>1, <2>2, <2>3 DEF NoOrphan, TypeOK
<1>6. CASE RmClient
  <2>1. PICK c \in Clients : clients' = clients \ {c} /\ Leave({c}) /\ clientsBuff' = clientsBuff
    BY <1>6 DEF RmClient, Dequeue
  <2> QED BY <1>1, <2>1 DEF Leave
<1>7. CASE ClearClients
  <2>1. Leave(clients \cup clientsBuff)
    BY <1>7 DEF ClearClients
  <2>2. clients \cup clientsBuff \in SUBSET Clients
    BY DEF TypeOK
  <2> QED BY <1>1, <2>1, <2>2 DEF Leave
<1>8. ASSUME NEW c \in Clients, AddClient(c) PROVE NoOrphan'
  BY <1>8 DEF AddClient, NoOrphan, TypeOK
<1> QED BY <1>2, <1>3, <1>4, <1>5, <1>6, <1>7, <1>8 DEF Next, Worker

\* Only CheckTime ever loses a client that is not deleted.
THEOREM NoOrphanHolds == Spec => []NoOrphan
<1>1. Init => NoOrphan
  BY DEF Init, NoOrphan
<1> QED BY <1>1, TypeInit, TypeStep, OrphanStep, PTL DEF Spec
=============================================================================
