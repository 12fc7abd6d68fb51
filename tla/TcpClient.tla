------------------------------ MODULE TcpClient ------------------------------
(***************************************************************************)
(* TcpClient.hpp with its three variants, TcpSelectClient, TcpEpollClient  *)
(* and TcpIocpClient.  The owner of an object calls InitSocket, Connect,   *)
(* SendData and Close, and OnRun as often as it can; between the steps of  *)
(* OnRun the system and the server go on.                                  *)
(*                                                                         *)
(* Data is counted: a message of the server has MsgLen units.  A           *)
(* connection is <<c, n>>, the n-th socket of object c, and what has       *)
(* become of it is link, which the server's side changes too.              *)
(***************************************************************************)
EXTENDS Integers, Sequences, FiniteSets, SequencesExt

CONSTANTS
  Clients,    \* TcpClient objects
  Variants,   \* which of the three classes the program may use
  FaultSets,  \* which faults may happen together
  MsgLen,     \* length of a message of the server
  RecvSize, SendSize,   \* capacities of the buffers
  MaxInits,   \* bound: calls of InitSocket per object
  MaxPushed,  \* bound: units given to SendData per connection
  MaxSent     \* bound: messages of the server per connection

ASSUME ClientAssumption ==
  /\ Variants \subseteq {"select", "epoll", "iocp"} /\ FaultSets \subseteq SUBSET {"wait", "post"}
  /\ {MsgLen, SendSize, MaxInits} \subseteq Nat \ {0} /\ {MaxPushed, MaxSent} \subseteq Nat
  /\ RecvSize \in Nat /\ RecvSize >= MsgLen

Conns == Clients \X (1..MaxInits)

VARIABLES
  variant, faults,  \* the class and the faults of this execution; never change
  client,           \* the members of the objects
  net,              \* what the system keeps for the socket of each object
  link              \* a connection: "none" (not made), "queued" at the listening
                    \* socket, "taken" by its AcceptEx, "served", and at the end
                    \* "refused" or "left" (the server closed it) or "reset"

vars == <<variant, faults, client, net, link>>

\* _pClient is a Client, with its two buffers and flags; todo is what OnRun has
\* still to do and lost that it closed and returned false.
NoObject == [pClient |-> FALSE, isConnect |-> FALSE, sendBuff |-> 0, recvBuff |-> 0,
             posted |-> {}, todo |-> {}, lost |-> FALSE, inits |-> 0, pushed |-> 0, handled |-> 0]

\* Units the system took (up) and has for the client (down), messages the
\* server sent, the outstanding operations, the length of the SEND and the
\* completions at the port.
NoSocket == [up |-> 0, down |-> 0, sent |-> 0, io |-> {}, len |-> 0, cq |-> <<>>]

Completions == [op : {"recv", "send"}, bytes : Nat]

Init ==
  /\ variant \in Variants /\ faults \in FaultSets
  /\ client = [c \in Clients |-> NoObject]
  /\ net = [c \in Clients |-> NoSocket]
  /\ link = [k \in Conns |-> "none"]

Conn(c) == <<c, client[c].inits>>
State(c) == IF client[c].inits = 0 THEN "none" ELSE link[Conn(c)]
IsRun(c) == client[c].pClient /\ client[c].isConnect
Idle(c) == client[c].todo = {}
AtEof(c) == State(c) \in {"refused", "left"}
IsReset(c) == State(c) = "reset"

Same == UNCHANGED <<variant, faults>>
Now(c, object, socket) ==
  /\ client' = [client EXCEPT ![c] = object]
  /\ net' = [net EXCEPT ![c] = socket]
  /\ Same

\* Close: the port or the epoll object goes first and then the Client, its
\* socket and its buffers; no operation of it completes any more.
Closed(object) == [object EXCEPT !.pClient = FALSE, !.isConnect = FALSE, !.posted = {}, !.todo = {}]
Gone(socket) == [socket EXCEPT !.io = {}, !.cq = <<>>]

ReturnFalse(c) == Now(c, [Closed(client[c]) EXCEPT !.lost = TRUE], Gone(net[c])) /\ UNCHANGED link

\* wait() failed and the variant does not close: OnRun returns false.
KeepOpen(object) == [object EXCEPT !.todo = {}]

-----------------------------------------------------------------------------
(* The calls of the owner                                                  *)

\* An old Client is closed before; socket() is taken to succeed, for when it
\* does not InitSocket is a Close.
InitSocket(c) ==
  /\ Idle(c) /\ client[c].inits < MaxInits
  /\ Now(c, [NoObject EXCEPT !.pClient = TRUE, !.inits = client[c].inits + 1], NoSocket)
  /\ UNCHANGED link

\* connect() succeeds; one that fails leaves everything as it is.
Connect(c) ==
  /\ Idle(c) /\ client[c].pClient /\ State(c) = "none"
  /\ Now(c, [client[c] EXCEPT !.isConnect = TRUE], net[c])
  /\ link' = [link EXCEPT ![Conn(c)] = "queued"]

SendData(c) ==
  /\ Idle(c) /\ IsRun(c) /\ client[c].pushed < MaxPushed /\ client[c].sendBuff < SendSize
  /\ Now(c, [client[c] EXCEPT !.sendBuff = @ + 1, !.pushed = @ + 1], net[c])
  /\ UNCHANGED link

Close(c) ==
  /\ Idle(c) /\ client[c].pClient
  /\ Now(c, Closed(client[c]), Gone(net[c]))
  /\ UNCHANGED link

-----------------------------------------------------------------------------
(* Buffers                                                                 *)

WholeMsgs(n) == n \div MsgLen

\* DoMsg: all whole messages are handled and removed.
DoMsg(object) ==
  LET n == WholeMsgs(object.recvBuff)
  IN [object EXCEPT !.recvBuff = @ - n * MsgLen, !.handled = @ + n]

Read(object, n) == [object EXCEPT !.recvBuff = @ + n]

Written_Clear(object, n) == [object EXCEPT !.sendBuff = 0]
Written(object, n) == [object EXCEPT !.sendBuff = @ - n]

-----------------------------------------------------------------------------
(* TcpSelectClient::OnRun and TcpEpollClient::OnRun                        *)

NeedWrite(c) == client[c].sendBuff > 0

\* What the system reports: data, the end or the error of the connection, and
\* room to send if it was asked for.
Asked(c) == IF NeedWrite(c) THEN {"recv", "send"} ELSE {"recv"}
Ready(c) ==
  Asked(c) \cap ((IF net[c].down > 0 \/ AtEof(c) \/ IsReset(c) THEN {"recv"} ELSE {}) \cup {"send"})

Poll(c) ==
  /\ variant # "iocp" /\ Idle(c) /\ IsRun(c) /\ Ready(c) # {}
  /\ Now(c, [client[c] EXCEPT !.todo = Ready(c)], net[c])
  /\ UNCHANGED link

\* select() failed: Close; epoll_wait failed: only false.
PollFails(c) ==
  /\ variant # "iocp" /\ "wait" \in faults /\ Idle(c) /\ IsRun(c)
  /\ \/ variant = "select" /\ ReturnFalse(c)
     \/ variant = "epoll" /\ Now(c, KeepOpen(client[c]), net[c]) /\ UNCHANGED link

\* RecvData and the messages it completes.
Recv(c) ==
  /\ variant # "iocp" /\ "recv" \in client[c].todo /\ ~IsReset(c)
  /\ \E n \in 1..net[c].down :
       /\ n <= RecvSize - client[c].recvBuff
       /\ Now(c, [DoMsg(Read(client[c], n)) EXCEPT !.todo = @ \ {"recv"}], [net[c] EXCEPT !.down = @ - n])
  /\ UNCHANGED link

\* SendDataReal, after the data was received.
Send(c) ==
  /\ variant # "iocp" /\ client[c].todo = {"send"} /\ ~IsReset(c)
  /\ \E n \in 1..client[c].sendBuff :
       Now(c, [Written(client[c], n) EXCEPT !.todo = {}], [net[c] EXCEPT !.up = @ + n])
  /\ UNCHANGED link

\* recv() or send() fails: Close.  TcpSelectClient returns false and
\* TcpEpollClient, which goes on with its loop over the events, true.
RecvFails(c) == "recv" \in client[c].todo /\ (IsReset(c) \/ (AtEof(c) /\ net[c].down = 0))

SendFails(c) == client[c].todo = {"send"} /\ IsReset(c)

CallFails(c) ==
  /\ variant # "iocp" /\ (RecvFails(c) \/ SendFails(c))
  /\ \/ variant = "select" /\ ReturnFalse(c)
     \/ variant = "epoll" /\ Now(c, Closed(client[c]), Gone(net[c])) /\ UNCHANGED link

-----------------------------------------------------------------------------
(* TcpIocpClient::OnRun                                                    *)

ToPost(c) == Asked(c) \ client[c].posted

\* makeRecvIoData sets its flag and gives nothing to post when the receive
\* buffer is full: no completion will clear that flag.
Given(c) == IF client[c].recvBuff < RecvSize THEN ToPost(c) ELSE ToPost(c) \ {"recv"}

\* The operations are posted and the loop over the completions begins.
Post(c) ==
  /\ variant = "iocp" /\ Idle(c) /\ IsRun(c)
  /\ Now(c, [client[c] EXCEPT !.posted = @ \cup ToPost(c), !.todo = {"events"}],
            [net[c] EXCEPT !.io = @ \cup Given(c),
                           !.len = IF "send" \in Given(c) THEN client[c].sendBuff ELSE @])
  /\ UNCHANGED link

\* postSend or postRecv fails, the latter perhaps after the former went well.
PostFails(c) ==
  /\ variant = "iocp" /\ Idle(c) /\ IsRun(c) /\ Given(c) # {}
  /\ IsReset(c) \/ "post" \in faults
  /\ ReturnFalse(c)

InEvents(c) == variant = "iocp" /\ client[c].todo = {"events"}

\* recv4iocp or send2iocp
Completed_KeepFlag(object, op) == [object EXCEPT !.posted = @ \ {"send"}]
Completed(object, op) == [object EXCEPT !.posted = @ \ {op}]

Event(c) ==
  /\ InEvents(c) /\ net[c].cq # <<>>
  /\ LET e == Head(net[c].cq) IN
       /\ e.bytes > 0
       /\ Now(c, Completed(IF e.op = "recv" THEN Read(client[c], e.bytes)
                                            ELSE Written(client[c], e.bytes), e.op),
                 [net[c] EXCEPT !.cq = Tail(@)])
  /\ UNCHANGED link

\* A completion without data: the connection is gone.
EventLost(c) ==
  /\ InEvents(c) /\ net[c].cq # <<>> /\ Head(net[c].cq).bytes = 0
  /\ ReturnFalse(c)

\* Nothing is left: DoMsg, and OnRun returns true.
NoEvent(c) ==
  /\ InEvents(c) /\ net[c].cq = <<>>
  /\ Now(c, [DoMsg(client[c]) EXCEPT !.todo = {}], net[c])
  /\ UNCHANGED link

\* The port reports an error that wait() does not know, with the failed
\* operation or without one: OnRun returns false and the client stays.
WaitFails(c) ==
  /\ InEvents(c) /\ "wait" \in faults
  /\ \/ net[c].cq # <<>> /\ Head(net[c].cq).bytes = 0
        /\ Now(c, KeepOpen(client[c]), [net[c] EXCEPT !.cq = Tail(@)])
     \/ Now(c, KeepOpen(client[c]), net[c])
  /\ UNCHANGED link

-----------------------------------------------------------------------------
(* The system: outstanding operations complete                             *)

Complete(c, op, n) == [net[c] EXCEPT !.io = @ \ {op}, !.cq = Append(@, [op |-> op, bytes |-> n])]

RecvDone(c) ==
  /\ "recv" \in net[c].io /\ ~IsReset(c)
  /\ \E n \in 1..net[c].down :
       /\ n <= RecvSize - client[c].recvBuff
       /\ net' = [net EXCEPT ![c] = [Complete(c, "recv", n) EXCEPT !.down = @ - n]]
  /\ Same /\ UNCHANGED <<client, link>>

SendDone(c) ==
  /\ "send" \in net[c].io /\ ~IsReset(c)
  /\ \E n \in 1..net[c].len :
       net' = [net EXCEPT ![c] = [Complete(c, "send", n) EXCEPT !.up = @ + n]]
  /\ Same /\ UNCHANGED <<client, link>>

\* The end of the connection completes a RECV and its reset everything.
Ended(c) ==
  /\ \E op \in net[c].io :
       /\ IsReset(c) \/ (op = "recv" /\ AtEof(c) /\ net[c].down = 0)
       /\ net' = [net EXCEPT ![c] = Complete(c, op, 0)]
  /\ Same /\ UNCHANGED <<client, link>>

-----------------------------------------------------------------------------
(* The other end of a connection that is served, and the network           *)

ServerSend(c) ==
  /\ State(c) = "served" /\ client[c].pClient /\ net[c].sent < MaxSent
  /\ net' = [net EXCEPT ![c].sent = @ + 1, ![c].down = @ + MsgLen]
  /\ Same /\ UNCHANGED <<client, link>>

Reset(c) ==
  /\ State(c) \notin {"none", "reset"}
  /\ link' = [link EXCEPT ![Conn(c)] = "reset"]
  /\ Same /\ UNCHANGED <<client, net>>

-----------------------------------------------------------------------------
Owner(c) == InitSocket(c) \/ Connect(c) \/ SendData(c) \/ Close(c)

OnRun(c) ==
  \/ Poll(c) \/ PollFails(c) \/ Recv(c) \/ Send(c) \/ CallFails(c)
  \/ Post(c) \/ PostFails(c) \/ Event(c) \/ EventLost(c) \/ NoEvent(c) \/ WaitFails(c)

System(c) == RecvDone(c) \/ SendDone(c) \/ Ended(c)

Peer(c) == ServerSend(c) \/ Reset(c)
=============================================================================
