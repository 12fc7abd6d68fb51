----------------------------- MODULE IocpServer -----------------------------
(***************************************************************************)
(* One worker of the IOCP server: Server::OnRun of Server.hpp driving      *)
(* IocpServer::DoNetEvents of IocpServer.hpp, over the Client and Buffer   *)
(* objects it owns, the completion port of Iocp.hpp and the peers at the   *)
(* other end of the sockets.                                               *)
(*                                                                         *)
(* A client owns two buffers and each buffer owns one IO_DATA_BASE, so at  *)
(* most one RECV and one SEND of a client can be outstanding.  The system  *)
(* writes through the IO_DATA_BASE until the operation completes, and the  *)
(* completion carries the Client pointer back: the whole difficulty is to  *)
(* free a client exactly once and never under an outstanding operation.    *)
(*                                                                         *)
(* The contents of the buffers are abstracted to lengths in units of data; *)
(* every message of a peer has MsgLen units, every reply ReplyLen.         *)
(* A loop over _clients that touches only the client it is at is one       *)
(* action: what the system does for one client commutes with what the      *)
(* loop does for another.                                                  *)
(***************************************************************************)
EXTENDS Integers, Sequences, FiniteSets

CONSTANTS
  Clients,   \* Client objects the accept thread may ever create
  MsgLen,    \* length of a peer's message
  RecvSize,  \* capacity of Client::_recvBuff
  ReplyLen,  \* length of a reply of the application
  SendSize,  \* capacity of Client::_sendBuff
  MaxMsgs,   \* bound: messages the peers send altogether
  SendBack,  \* does the application answer the messages (nSendBack)?
  Faults     \* which of FaultKinds can happen

FaultKinds == {"close", "reset", "expire", "iocp", "stop"}

ASSUME LenAssumption ==
  /\ MsgLen \in Nat \ {0} /\ ReplyLen \in Nat \ {0} /\ MaxMsgs \in Nat
  /\ RecvSize \in Nat /\ MsgLen <= RecvSize
  /\ SendSize \in Nat /\ ReplyLen <= SendSize
ASSUME FaultAssumption == SendBack \in BOOLEAN /\ Faults \subseteq FaultKinds

VARIABLES
  obj,          \* the Client object: "none" (not allocated), "live", "freed"
  open,         \* Client::_sockfd is a socket
  peer,         \* the remote end: "open", "closed" (FIN sent), "reset"
  inbound,      \* units sent by the peer and not yet taken by a RECV
  sent,         \* messages the peer sent
  handled,      \* messages given to OnNetMsg
  replied,      \* replies that fitted in _sendBuff
  delivered,    \* units the system took from completed SENDs
  isPostRecv, isPostSend,  \* the flags of Client
  recvLast, sendLast,      \* Buffer::_nLast of the two buffers
  io,           \* the two operations of a client, as the system knows them
  cq,           \* completions queued at the port: <<client, iotype>>
  clientsBuff,  \* Server::_clientsBuff
  clients,      \* Server::_clients
  isRun,        \* Thread::_isRun
  pc            \* where OnRun is

netVars  == <<peer, inbound, sent>>
objVars  == <<obj, open>>
flagVars == <<isPostRecv, isPostSend>>
buffVars == <<recvLast, sendLast>>
appVars  == <<handled, replied>>
vars == <<netVars, objVars, flagVars, buffVars, appVars, delivered,
          io, cq, clientsBuff, clients, isRun, pc>>

IoType == {"RECV", "SEND"}
IdleIo == [st |-> "idle", at |-> 0, n |-> 0]

Outstanding(c, t) == io[c][t].st # "idle"
Broken == {c \in Clients : peer[c] = "reset"}

TypeOK ==
  /\ obj \in [Clients -> {"none", "live", "freed"}]
  /\ open \in [Clients -> BOOLEAN]
  /\ peer \in [Clients -> {"open", "closed", "reset"}]
  /\ inbound \in [Clients -> Nat] /\ sent \in [Clients -> Nat]
  /\ handled \in [Clients -> Nat] /\ replied \in [Clients -> Nat]
  /\ delivered \in [Clients -> Nat]
  /\ isPostRecv \in [Clients -> BOOLEAN] /\ isPostSend \in [Clients -> BOOLEAN]
  /\ recvLast \in [Clients -> 0..RecvSize] /\ sendLast \in [Clients -> 0..SendSize]
  /\ io \in [Clients -> [IoType -> [st : {"idle", "posted", "done"}, at : Nat, n : Nat]]]
  /\ cq \in Seq(Clients \X IoType)
  /\ clientsBuff \subseteq Clients /\ clients \subseteq Clients
  /\ isRun \in BOOLEAN
  /\ pc \in {"top", "check", "post", "wait", "msg", "done"}

Init ==
  /\ obj = [c \in Clients |-> "none"] /\ open = [c \in Clients |-> FALSE]
  /\ peer = [c \in Clients |-> "open"]
  /\ inbound = [c \in Clients |-> 0] /\ sent = [c \in Clients |-> 0]
  /\ handled = [c \in Clients |-> 0] /\ replied = [c \in Clients |-> 0]
  /\ delivered = [c \in Clients |-> 0]
  /\ isPostRecv = [c \in Clients |-> FALSE] /\ isPostSend = [c \in Clients |-> FALSE]
  /\ recvLast = [c \in Clients |-> 0] /\ sendLast = [c \in Clients |-> 0]
  /\ io = [c \in Clients |-> [t \in IoType |-> IdleIo]]
  /\ cq = <<>>
  /\ clientsBuff = {} /\ clients = {}
  /\ isRun = TRUE /\ pc = "top"

-----------------------------------------------------------------------------
(* Buffer and Client                                                       *)

RecvData_WholeBuffer(c) == [st |-> "posted", at |-> 0, n |-> RecvSize]

\* Buffer::makeRecvIoData: the free tail of the buffer, if there is one.
RecvData(c) == [st |-> "posted", at |-> recvLast[c], n |-> RecvSize - recvLast[c]]

\* Buffer::makeSendIoData: everything that is in the buffer.
SendData(c) == [st |-> "posted", at |-> 0, n |-> sendLast[c]]

\* Client::makeRecvIoData sets the flag before it knows whether the buffer
\* has room, makeSendIoData is only called when needWrite().
WantRecv(S) == {c \in S : ~isPostRecv[c]}
WantSend(S) == {c \in S : sendLast[c] > 0 /\ ~isPostSend[c]}
HasRoom(c)  == recvLast[c] < RecvSize

Read4iocp_Overwrite(c, n) ==
  recvLast' = IF RecvSize - recvLast[c] >= n
              THEN [recvLast EXCEPT ![c] = n] ELSE recvLast

\* Buffer::read4iocp
Read4iocp(c, n) ==
  recvLast' = IF RecvSize - recvLast[c] >= n
              THEN [recvLast EXCEPT ![c] = @ + n] ELSE recvLast

Write2iocp_Clear(c, n) ==
  sendLast' = IF sendLast[c] < n THEN sendLast ELSE [sendLast EXCEPT ![c] = 0]

\* Buffer::write2iocp
Write2iocp(c, n) ==
  sendLast' = IF sendLast[c] < n THEN sendLast ELSE [sendLast EXCEPT ![c] = @ - n]

Recv4iocp_KeepFlag(c, n) ==
  /\ Read4iocp(c, n)
  /\ UNCHANGED <<isPostRecv, isPostSend, sendLast>>

Recv4iocp_BothFlags(c, n) ==
  /\ isPostRecv' = [isPostRecv EXCEPT ![c] = FALSE]
  /\ isPostSend' = [isPostSend EXCEPT ![c] = FALSE]
  /\ Read4iocp(c, n)
  /\ UNCHANGED sendLast

\* Client::recv4iocp and Client::send2iocp
Recv4iocp(c, n) ==
  /\ isPostRecv' = [isPostRecv EXCEPT ![c] = FALSE]
  /\ Read4iocp(c, n)
  /\ UNCHANGED <<isPostSend, sendLast>>

Send2iocp(c, n) ==
  /\ isPostSend' = [isPostSend EXCEPT ![c] = FALSE]
  /\ Write2iocp(c, n)
  /\ UNCHANGED <<isPostRecv, recvLast>>

\* Client::isPostIoAction
IsPostIoAction(c) == isPostRecv[c] \/ isPostSend[c]

\* Server::OnClientLeave deletes the object; ~Client and destory() close
\* the socket.
Leave(S) ==
  /\ obj' = [c \in Clients |-> IF c \in S THEN "freed" ELSE obj[c]]
  /\ open' = [c \in Clients |-> open[c] /\ c \notin S]

\* The operations after the recvs of R and the sends of S were posted.
Posted(R, S) ==
  [c \in Clients |->
    [t \in IoType |-> IF t = "RECV" /\ c \in R THEN RecvData(c)
                      ELSE IF t = "SEND" /\ c \in S THEN SendData(c)
                      ELSE io[c][t]]]

-----------------------------------------------------------------------------
(* The worker: Server::OnRun                                               *)

\* Nothing to do: the loop sleeps and starts again.
Idle ==
  /\ pc = "top" /\ isRun /\ clientsBuff = {} /\ clients = {}
  /\ UNCHANGED vars

\* The buffered clients join.  IocpServer::OnClientJoin registers the
\* socket and posts the first RECV; it does not look at the result of
\* postRecv, which fails for some of the connections that were reset.
Join ==
  /\ pc = "top" /\ isRun /\ clientsBuff # {}
  /\ clients' = clients \cup clientsBuff
  /\ clientsBuff' = {}
  /\ LET want == WantRecv(clientsBuff) IN
       /\ isPostRecv' = [c \in Clients |-> isPostRecv[c] \/ c \in want]
       /\ \E bad \in SUBSET (want \cap Broken) :
            io' = Posted({c \in want \ bad : HasRoom(c)}, {})
  /\ pc' = "check"
  /\ UNCHANGED <<netVars, objVars, isPostSend, buffVars, appVars, delivered, cq, isRun>>

Begin ==
  /\ pc = "top" /\ isRun /\ clientsBuff = {} /\ clients # {}
  /\ pc' = "check"
  /\ UNCHANGED <<netVars, objVars, flagVars, buffVars, appVars, delivered,
                 io, cq, clientsBuff, clients, isRun>>

Deletable_All(S) == S

\* Those of the clients whose heartbeat expired that CheckTime deletes; of
\* the others it only closes the socket, and leaves it to the completion of
\* the outstanding operation to delete them.
Deletable(S) == {c \in S : ~IsPostIoAction(c)}

CheckTime ==
  /\ pc = "check"
  /\ \E dead \in SUBSET clients :
       /\ "expire" \notin Faults => dead = {}
       /\ obj' = [c \in Clients |-> IF c \in Deletable(dead) THEN "freed" ELSE obj[c]]
       /\ open' = [c \in Clients |-> open[c] /\ c \notin dead]
       /\ clients' = clients \ dead
  /\ pc' = "post"
  /\ UNCHANGED <<netVars, flagVars, buffVars, appVars, delivered,
                 io, cq, clientsBuff, isRun>>

\* The first half of DoNetEvents: a SEND for every client with something to
\* write, then a RECV, and a client for which one of them fails leaves.
PostEvents ==
  /\ pc = "post"
  /\ \E badSend \in SUBSET (clients \cap Broken), badRecv \in SUBSET (clients \cap Broken) :
       LET failSend == WantSend(clients) \cap badSend
           okSend   == WantSend(clients) \ badSend
           want     == WantRecv(clients \ failSend)
           failRecv == {c \in want \cap badRecv : HasRoom(c)}
           okRecv   == {c \in want \ badRecv : HasRoom(c)}
       IN /\ isPostSend' = [c \in Clients |-> isPostSend[c] \/ c \in WantSend(clients)]
          /\ isPostRecv' = [c \in Clients |-> isPostRecv[c] \/ c \in want]
          /\ io' = Posted(okRecv, okSend)
          /\ Leave(failSend \cup failRecv)
          /\ clients' = clients \ (failSend \cup failRecv)
  /\ pc' = "wait"
  /\ UNCHANGED <<netVars, buffVars, appVars, delivered, cq, clientsBuff, isRun>>

\* DoIocpNetEvents takes the completion of operation t of client c, which
\* moved n units.  Both the IO_DATA_BASE and the Client are read, so a
\* completion for a freed client has no defined successor.
Dequeue(c, t, n) ==
  /\ pc = "wait" /\ cq # <<>> /\ Head(cq) = <<c, t>>
  /\ obj[c] = "live" /\ n = io[c][t].n
  /\ cq' = Tail(cq)
  /\ io' = [io EXCEPT ![c][t] = IdleIo]
  /\ UNCHANGED <<netVars, appVars, delivered, clientsBuff, isRun, pc>>

RmClient_NoLeave ==
  \E c \in Clients, t \in IoType :
    /\ Dequeue(c, t, 0)
    /\ clients' = clients \ {c}
    /\ UNCHANGED <<objVars, flagVars, buffVars>>

\* rmClient: the connection is gone.
RmClient ==
  \E c \in Clients, t \in IoType :
    /\ Dequeue(c, t, 0)
    /\ clients' = clients \ {c}
    /\ Leave({c})
    /\ UNCHANGED <<flagVars, buffVars>>

RecvEvent ==
  \E c \in Clients, n \in 1..RecvSize :
    /\ Dequeue(c, "RECV", n)
    /\ Recv4iocp(c, n)
    /\ UNCHANGED <<objVars, clients>>

SendEvent ==
  \E c \in Clients, n \in 1..SendSize :
    /\ Dequeue(c, "SEND", n)
    /\ Send2iocp(c, n)
    /\ UNCHANGED <<objVars, clients>>

\* wait() timed out: DoIocpNetEvents returns 0, DoNetEvents returns true.
NoEvent ==
  /\ pc = "wait" /\ cq = <<>>
  /\ pc' = "msg"
  /\ UNCHANGED <<netVars, objVars, flagVars, buffVars, appVars, delivered,
                 io, cq, clientsBuff, clients, isRun>>

\* wait() failed: DoNetEvents returns false, OnRun calls Thread::Exit and
\* leaves the loop.
WaitFails ==
  /\ pc = "wait" /\ "iocp" \in Faults
  /\ isRun' = FALSE
  /\ pc' = "top"
  /\ UNCHANGED <<netVars, objVars, flagVars, buffVars, appVars, delivered,
                 io, cq, clientsBuff, clients>>

\* Whole messages in the receive buffer, and the replies to m messages that
\* Client::SendData finds room for.
WholeMsgs_Strict(c) == (recvLast[c] - 1) \div MsgLen
WholeMsgs_HeaderOnly(c) == (recvLast[c] + MsgLen - 1) \div MsgLen
WholeMsgs(c) == recvLast[c] \div MsgLen
Fitting(c, m) == LET room == (SendSize - sendLast[c]) \div ReplyLen
                 IN IF ~SendBack THEN 0 ELSE IF m <= room THEN m ELSE room

\* DoMsg: every whole message of every client is handled and popped.
DoMsg ==
  /\ pc = "msg"
  /\ LET m == [c \in Clients |-> IF c \in clients THEN WholeMsgs(c) ELSE 0]
         r == [c \in Clients |-> Fitting(c, m[c])]
     IN /\ handled' = [c \in Clients |-> handled[c] + m[c]]
        /\ recvLast' = [c \in Clients |-> recvLast[c] - MsgLen * m[c]]
        /\ replied' = [c \in Clients |-> replied[c] + r[c]]
        /\ sendLast' = [c \in Clients |-> sendLast[c] + ReplyLen * r[c]]
  /\ pc' = "top"
  /\ UNCHANGED <<netVars, objVars, flagVars, delivered, io, cq, clientsBuff, clients, isRun>>

\* The loop ended: the thread runs onDestory, which is ClearClients.
ClearClients ==
  /\ pc = "top" /\ ~isRun
  /\ Leave(clients \cup clientsBuff)
  /\ clients' = {} /\ clientsBuff' = {}
  /\ pc' = "done"
  /\ UNCHANGED <<netVars, flagVars, buffVars, appVars, delivered, io, cq, isRun>>

-----------------------------------------------------------------------------
(* The accept thread and the closing thread                                *)

\* A new connection is given to this worker: new Client, addClient.
AddClient(c) ==
  /\ obj[c] = "none"
  /\ obj' = [obj EXCEPT ![c] = "live"]
  /\ open' = [open EXCEPT ![c] = TRUE]
  /\ clientsBuff' = clientsBuff \cup {c}
  /\ UNCHANGED <<netVars, flagVars, buffVars, appVars, delivered, io, cq, clients, isRun, pc>>

\* Thread::Close clears _isRun and waits.
Stop ==
  /\ "stop" \in Faults /\ isRun
  /\ isRun' = FALSE
  /\ UNCHANGED <<netVars, objVars, flagVars, buffVars, appVars, delivered,
                 io, cq, clientsBuff, clients, pc>>

-----------------------------------------------------------------------------
(* The peers and the system                                                *)

Traffic == {m \in Clients \X (1..MaxMsgs) : m[2] <= sent[m[1]]}

PeerSend(c) ==
  /\ obj[c] # "none" /\ peer[c] = "open" /\ Cardinality(Traffic) < MaxMsgs
  /\ sent' = [sent EXCEPT ![c] = @ + 1]
  /\ inbound' = [inbound EXCEPT ![c] = @ + MsgLen]
  /\ UNCHANGED <<peer, objVars, flagVars, buffVars, appVars, delivered,
                 io, cq, clientsBuff, clients, isRun, pc>>

PeerClose(c) ==
  /\ "close" \in Faults /\ obj[c] # "none" /\ peer[c] = "open"
  /\ peer' = [peer EXCEPT ![c] = "closed"]
  /\ UNCHANGED <<inbound, sent, objVars, flagVars, buffVars, appVars, delivered,
                 io, cq, clientsBuff, clients, isRun, pc>>

\* What was not received is lost.
PeerReset(c) ==
  /\ "reset" \in Faults /\ obj[c] # "none" /\ peer[c] # "reset"
  /\ peer' = [peer EXCEPT ![c] = "reset"]
  /\ inbound' = [inbound EXCEPT ![c] = 0]
  /\ UNCHANGED <<sent, objVars, flagVars, buffVars, appVars, delivered,
                 io, cq, clientsBuff, clients, isRun, pc>>

\* Operation t of client c completes having moved n units.
Complete(c, t, n) ==
  /\ io[c][t].st = "posted"
  /\ io' = [io EXCEPT ![c][t] = [@ EXCEPT !.st = "done", !.n = n]]
  /\ cq' = Append(cq, <<c, t>>)
  /\ UNCHANGED <<peer, sent, objVars, flagVars, buffVars, appVars,
                 clientsBuff, clients, isRun, pc>>

RecvDone(c) ==
  \E n \in 1..RecvSize :
    /\ open[c] /\ n <= io[c]["RECV"].n /\ n <= inbound[c]
    /\ Complete(c, "RECV", n)
    /\ inbound' = [inbound EXCEPT ![c] = @ - n]
    /\ UNCHANGED delivered

SendDone(c) ==
  \E n \in 1..SendSize :
    /\ open[c] /\ n <= io[c]["SEND"].n /\ peer[c] # "reset"
    /\ Complete(c, "SEND", n)
    /\ delivered' = [delivered EXCEPT ![c] = @ + n]
    /\ UNCHANGED inbound

\* The peer closed and everything it sent was received.
RecvEof(c) ==
  /\ open[c] /\ peer[c] = "closed" /\ inbound[c] = 0
  /\ Complete(c, "RECV", 0)
  /\ UNCHANGED <<inbound, delivered>>

\* A reset, or closing the socket under it, aborts an operation.
Abort(c, t) ==
  /\ ~open[c] \/ peer[c] = "reset"
  /\ Complete(c, t, 0)
  /\ UNCHANGED <<inbound, delivered>>

-----------------------------------------------------------------------------
Worker ==
  \/ Idle \/ Join \/ Begin \/ CheckTime \/ PostEvents
  \/ RmClient \/ RecvEvent \/ SendEvent \/ NoEvent
  \/ DoMsg \/ ClearClients

System(c) == RecvDone(c) \/ SendDone(c) \/ RecvEof(c) \/ (\E t \in IoType : Abort(c, t))

Peer(c) == PeerSend(c) \/ PeerClose(c) \/ PeerReset(c)

Next ==
  \/ Worker \/ WaitFails
  \/ Stop
  \/ \E c \in Clients : AddClient(c) \/ Peer(c) \/ System(c)

Spec == Init /\ [][Next]_vars

\* The worker thread keeps running and the system completes what it can;
\* nothing is assumed of the peers, of the accept thread or of the errors.
Fairness ==
  /\ WF_vars(Worker)
  /\ \A c \in Clients : /\ WF_vars(RecvDone(c)) /\ WF_vars(SendDone(c))
                        /\ WF_vars(RecvEof(c))
                        /\ \A t \in IoType : WF_vars(Abort(c, t))

FairSpec == Spec /\ Fairness
-----------------------------------------------------------------------------
(* Properties                                                              *)

\* As long as the worker runs, its maps hold no deleted client and the
\* system has no operation outstanding whose IO_DATA_BASE or Client was
\* deleted: CheckTime (Server.hpp:106) and the failed posts and completions
\* of DoNetEvents delete a client only when nothing refers to it any more.
NoDangling ==
  /\ \A c \in clients \cup clientsBuff : obj[c] = "live"
  /\ pc # "done" =>
       \A c \in Clients, t \in IoType : Outstanding(c, t) => obj[c] = "live"

\* The system writes where the program will look for the data: while a RECV
\* is outstanding the end of the receive buffer does not move, so read4iocp
\* appends exactly what was written, and what a SEND was given is still in
\* the send buffer although replies may be pushed behind it.
PostedRegion ==
  \A c \in Clients : obj[c] = "live" =>
    /\ Outstanding(c, "RECV") => /\ io[c]["RECV"].at = recvLast[c]
                                 /\ recvLast[c] + io[c]["RECV"].n <= RecvSize
    /\ Outstanding(c, "SEND") => io[c]["SEND"].n <= sendLast[c]

\* The flag of an outstanding operation is set, so neither is ever posted
\* twice and the two errors recv4iocp and send2iocp can log (Client.hpp:170
\* and 186) are never logged.
FlagsCoverIo ==
  \A c \in Clients : obj[c] = "live" =>
    /\ Outstanding(c, "RECV") => isPostRecv[c]
    /\ Outstanding(c, "SEND") => isPostSend[c]

\* Units of an operation that has completed and is still in the queue.
InQueue(c, t) == IF io[c][t].st = "done" THEN io[c][t].n ELSE 0

\* Until a connection is reset, everything its peer sent is on its way, in
\* a completion, in the receive buffer or was handled, whatever the sizes
\* in which it arrives: nothing is lost or handled twice.
BytesIn ==
  \A c \in Clients : obj[c] = "live" /\ peer[c] # "reset" =>
    MsgLen * sent[c] =
      inbound[c] + InQueue(c, "RECV") + recvLast[c] + MsgLen * handled[c]

\* The same for the replies that were accepted: they are in the send buffer
\* or were taken by the system, also when it takes only a part of a SEND.
BytesOut ==
  \A c \in Clients : obj[c] = "live" =>
    ReplyLen * replied[c] + InQueue(c, "SEND") = delivered[c] + sendLast[c]

\* Only CheckTime ever loses a client: one that is in neither queue of the
\* worker had its socket closed by it, whatever fails.  Of a client whose flag
\* is set CheckTime only closes the socket and counts on the completion; it is
\* lost if no operation is outstanding (a first post that failed leaves the
\* flag set) or if the completion was queued before and carries data.
NoOrphan ==
  \A c \in Clients : obj[c] = "live" => c \in clients \cup clientsBuff \/ ~open[c]

\* What ends the claims below: the client was deleted or its socket closed
\* by CheckTime, its connection was reset, the worker ended, or the worker
\* is at a completion of a deleted client (see NoDangling).
FreedEvent == pc = "wait" /\ cq # <<>> /\ obj[Head(cq)[1]] = "freed"
Over(c) == obj[c] = "freed" \/ ~open[c] \/ peer[c] = "reset" \/ pc = "done" \/ FreedEvent

\* Every message a peer sends is handled and every accepted reply is taken
\* by the system, whatever fails for other clients.
Served ==
  \A c \in Clients :
    /\ \A k \in 1..MaxMsgs : sent[c] = k ~> (handled[c] >= k \/ Over(c))
    /\ sendLast[c] > 0 ~> (sendLast[c] = 0 \/ Over(c))

\* A client whose peer has closed the connection is deleted.
Disconnects == \A c \in Clients : peer[c] = "closed" ~> Over(c)

\* A client whose connection was reset is deleted.  Does not hold: when the
\* first post of OnClientJoin fails, the flag it set keeps DoNetEvents from
\* ever posting another RECV.
ResetNoticed ==
  \A c \in Clients : peer[c] = "reset" ~> obj[c] = "freed"
=============================================================================
