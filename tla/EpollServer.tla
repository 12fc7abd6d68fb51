------------------------------ MODULE EpollServer ------------------------------
(***************************************************************************)
(* One worker of the epoll server: Server::OnRun of Server.hpp driving     *)
(* EpollServer::DoNetEvents of EpollServer.hpp over its clients and the    *)
(* epoll object of Epoll.hpp.  epoll holds for every registered socket the *)
(* Client pointer it was given and forgets the socket when it is closed;   *)
(* wait() copies pointers and events into an array that the worker goes    *)
(* through one by one, and a client may be deleted on the way.             *)
(*                                                                         *)
(* A message is one unit.  Except for that array, a loop over _clients     *)
(* that touches only the client it is at is one action.                    *)
(***************************************************************************)
EXTENDS Naturals, FiniteSets

CONSTANTS
  Conns,     \* connections the peers may ever make
  Socks,     \* socket numbers
  MaxMsgs,   \* bound: messages the peers send altogether
  SendSize,  \* capacity of Client::_sendBuff
  Faults,    \* which of FaultKinds can happen
  NoConn

FaultKinds == {"close", "reset", "expire", "epoll", "stop"}

ASSUME SockAssumption == Socks # {} /\ IsFiniteSet(Socks)
ASSUME BoundAssumption == MaxMsgs \in Nat /\ SendSize \in Nat
ASSUME FaultAssumption == Faults \subseteq FaultKinds /\ NoConn \notin Conns

VARIABLES
  st,           \* a connection: "none", "live" (its Client exists), "freed"
  sock,         \* its socket
  peer,         \* its remote end: "open", "closed", "reset"
  sent,         \* messages the peer sent
  inbound,      \* of these, the ones the socket still holds
  recvd,        \* the ones in the receive buffer
  handled,      \* the ones given to OnNetMsg
  out,          \* replies in the send buffer
  clientsBuff,  \* Server::_clientsBuff
  clients,      \* Server::_clients, from sockets to clients
  reg,          \* epoll: from registered sockets to the pointer and to
                \* whether EPOLLOUT is asked for
  events,       \* the part of the array not yet gone through
  pc            \* where OnRun is

connVars == <<st, sock>>
peerVars == <<peer, sent, inbound>>
dataVars == <<recvd, handled, out>>
listVars == <<clientsBuff, clients>>
vars == <<connVars, peerVars, dataVars, listVars, reg, events, pc>>

NoReg == [ptr |-> NoConn, write |-> FALSE]
Event == [ptr : Conns, read : BOOLEAN, write : BOOLEAN]

Live == {k \in Conns : st[k] = "live"}
FreeSocks == Socks \ {sock[k] : k \in Live}
Entries == {f \in Socks : clients[f] # NoConn}
Joined == {clients[f] : f \in Entries}

TypeOK ==
  /\ st \in [Conns -> {"none", "live", "freed"}] /\ sock \in [Conns -> Socks]
  /\ peer \in [Conns -> {"open", "closed", "reset"}]
  /\ sent \in [Conns -> 0..MaxMsgs] /\ inbound \in [Conns -> 0..MaxMsgs]
  /\ recvd \in [Conns -> 0..MaxMsgs] /\ handled \in [Conns -> 0..MaxMsgs]
  /\ out \in [Conns -> 0..SendSize]
  /\ clientsBuff \subseteq Conns /\ clients \in [Socks -> Conns \cup {NoConn}]
  /\ reg \in [Socks -> [ptr : Conns \cup {NoConn}, write : BOOLEAN]]
  /\ events \subseteq Event
  /\ pc \in {"top", "check", "ctl", "wait", "events", "msg", "exited", "done"}

Init ==
  /\ st = [k \in Conns |-> "none"] /\ sock = [k \in Conns |-> CHOOSE f \in Socks : TRUE]
  /\ peer = [k \in Conns |-> "open"]
  /\ sent = [k \in Conns |-> 0] /\ inbound = [k \in Conns |-> 0]
  /\ recvd = [k \in Conns |-> 0] /\ handled = [k \in Conns |-> 0]
  /\ out = [k \in Conns |-> 0]
  /\ clientsBuff = {} /\ clients = [f \in Socks |-> NoConn]
  /\ reg = [f \in Socks |-> NoReg]
  /\ events = {} /\ pc = "top"

-----------------------------------------------------------------------------
(* The worker                                                              *)

Registered_First(S) ==
  LET k == CHOOSE c \in S : TRUE
  IN [f \in Socks |-> IF S # {} /\ sock[k] = f THEN [ptr |-> k, write |-> FALSE] ELSE reg[f]]

\* EPOLL_CTL_ADD for the clients of S.
Registered(S) ==
  [f \in Socks |-> IF \E k \in S : sock[k] = f
                   THEN [ptr |-> CHOOSE k \in S : sock[k] = f, write |-> FALSE] ELSE reg[f]]

\* OnRun takes the buffered clients, OnClientJoin registers them, and the
\* turn goes on when there is any client.
Join ==
  /\ pc = "top"
  /\ clients' = [f \in Socks |->
       IF \E k \in clientsBuff : sock[k] = f THEN CHOOSE k \in clientsBuff : sock[k] = f
       ELSE clients[f]]
  /\ reg' = Registered(clientsBuff)
  /\ clientsBuff' = {}
  /\ pc' = (IF clientsBuff = {} /\ Entries = {} THEN "top" ELSE "check")
  /\ UNCHANGED <<connVars, peerVars, dataVars, events>>

Leave_KeepEntry(S) ==
  /\ st' = [k \in Conns |-> IF k \in S THEN "freed" ELSE st[k]]
  /\ reg' = [f \in Socks |-> IF reg[f].ptr \in S THEN NoReg ELSE reg[f]]
  /\ UNCHANGED clients

\* The clients of S leave: their entries are erased, OnClientLeave deletes
\* them, their sockets are closed and epoll forgets them.
Leave(S) ==
  /\ st' = [k \in Conns |-> IF k \in S THEN "freed" ELSE st[k]]
  /\ clients' = [f \in Socks |-> IF clients[f] \in S THEN NoConn ELSE clients[f]]
  /\ reg' = [f \in Socks |-> IF reg[f].ptr \in S THEN NoReg ELSE reg[f]]

CheckTime ==
  /\ pc = "check"
  /\ \E dead \in SUBSET Joined :
       /\ "expire" \notin Faults => dead = {}
       /\ Leave(dead)
  /\ pc' = "ctl"
  /\ UNCHANGED <<sock, peerVars, dataVars, clientsBuff, events>>

\* EPOLL_CTL_MOD for every client: EPOLLOUT while it needs to write.  It
\* fails for a socket that is not registered.
Modified ==
  [f \in Socks |-> IF f \in Entries /\ reg[f] # NoReg
                   THEN [ptr |-> clients[f], write |-> out[clients[f]] > 0] ELSE reg[f]]

Modify ==
  /\ pc = "ctl"
  /\ reg' = Modified
  /\ pc' = "wait"
  /\ UNCHANGED <<connVars, peerVars, dataVars, listVars, events>>

Readable(k) == inbound[k] > 0 \/ peer[k] # "open"
Broken(k) == peer[k] = "reset"

\* epoll_wait: the ready sockets of those registered, at most one event for
\* each; W are the ones that can be written.
WaitWith(W) ==
  /\ pc = "wait"
  /\ events' = {e \in Event :
       \E f \in Socks : /\ reg[f].ptr = e.ptr /\ sock[e.ptr] = f
                        /\ e.read = Readable(e.ptr)
                        /\ e.write = (reg[f].write /\ f \in W)
                        /\ e.read \/ e.write}
  /\ pc' = "events"
  /\ UNCHANGED <<connVars, peerVars, dataVars, listVars, reg>>

Wait == \E W \in SUBSET Socks : WaitWith(W)

\* wait() fails: EINTR and there are no events, or the loop ends.
WaitFails ==
  /\ pc = "wait" /\ "epoll" \in Faults
  /\ pc' \in {"msg", "exited"}
  /\ UNCHANGED <<connVars, peerVars, dataVars, listVars, reg, events>>

\* The Client of the event is read, so that the event of a deleted one has
\* no defined successor.
Current(e) == pc = "events" /\ e \in events /\ st[e.ptr] = "live"

RecvFails_NoContinue(e) ==
  /\ Current(e) /\ e.read /\ inbound[e.ptr] = 0
  /\ Leave({e.ptr})
  /\ events' = (events \ {e}) \cup (IF e.write THEN {[e EXCEPT !.read = FALSE]} ELSE {})
  /\ UNCHANGED <<sock, peerVars, dataVars, clientsBuff, pc>>

\* One event: RecvData and, unless the client left, SendDataReal.
RecvFails(e) ==
  /\ Current(e) /\ e.read /\ inbound[e.ptr] = 0
  /\ Leave({e.ptr})
  /\ events' = events \ {e}
  /\ UNCHANGED <<sock, peerVars, dataVars, clientsBuff, pc>>

Recv(e) ==
  /\ Current(e) /\ e.read
  /\ \E n \in 1..inbound[e.ptr] :
       /\ inbound' = [inbound EXCEPT ![e.ptr] = @ - n]
       /\ recvd' = [recvd EXCEPT ![e.ptr] = @ + n]
  /\ events' = (events \ {e}) \cup (IF e.write THEN {[e EXCEPT !.read = FALSE]} ELSE {})
  /\ UNCHANGED <<connVars, peer, sent, handled, out, listVars, reg, pc>>

Send(e) ==
  /\ Current(e) /\ ~e.read /\ ~Broken(e.ptr)
  /\ \E n \in 0..out[e.ptr] : /\ n = 0 => out[e.ptr] = 0
                              /\ out' = [out EXCEPT ![e.ptr] = @ - n]
  /\ events' = events \ {e}
  /\ UNCHANGED <<connVars, peerVars, recvd, handled, listVars, reg, pc>>

SendFails(e) ==
  /\ Current(e) /\ ~e.read /\ Broken(e.ptr)
  /\ Leave({e.ptr})
  /\ events' = events \ {e}
  /\ UNCHANGED <<sock, peerVars, dataVars, clientsBuff, pc>>

EventsDone ==
  /\ pc = "events" /\ events = {}
  /\ pc' = "msg"
  /\ UNCHANGED <<connVars, peerVars, dataVars, listVars, reg, events>>

\* DoMsg: every message is handled and answered if the reply fits.
DoMsg ==
  /\ pc = "msg"
  /\ handled' = [k \in Conns |-> handled[k] + (IF k \in Joined THEN recvd[k] ELSE 0)]
  /\ out' = [k \in Conns |->
       LET all == out[k] + recvd[k]
       IN IF k \notin Joined THEN out[k] ELSE IF all <= SendSize THEN all ELSE SendSize]
  /\ recvd' = [k \in Conns |-> IF k \in Joined THEN 0 ELSE recvd[k]]
  /\ pc' = "top"
  /\ UNCHANGED <<connVars, peerVars, listVars, reg, events>>

\* Thread::Close cleared _isRun.
Stops ==
  /\ pc = "top" /\ "stop" \in Faults
  /\ pc' = "exited"
  /\ UNCHANGED <<connVars, peerVars, dataVars, listVars, reg, events>>

\* The loop ended: onDestory is ClearClients.
ClearClients ==
  /\ pc = "exited"
  /\ st' = [k \in Conns |-> IF k \in Joined \cup clientsBuff THEN "freed" ELSE st[k]]
  /\ clients' = [f \in Socks |-> NoConn] /\ clientsBuff' = {}
  /\ reg' = [f \in Socks |-> NoReg]
  /\ pc' = "done"
  /\ UNCHANGED <<sock, peerVars, dataVars, events>>

-----------------------------------------------------------------------------
(* The accept thread and the peers                                         *)

AddClient(k, f) ==
  /\ st[k] = "none" /\ f \in FreeSocks
  /\ st' = [st EXCEPT ![k] = "live"] /\ sock' = [sock EXCEPT ![k] = f]
  /\ clientsBuff' = clientsBuff \cup {k}
  /\ UNCHANGED <<peerVars, dataVars, clients, reg, events, pc>>

\* The messages of all the peers so far.
Traffic == {m \in Conns \X (1..MaxMsgs) : m[2] <= sent[m[1]]}

PeerSend(k) ==
  /\ st[k] # "none" /\ peer[k] = "open" /\ Cardinality(Traffic) < MaxMsgs
  /\ sent' = [sent EXCEPT ![k] = @ + 1] /\ inbound' = [inbound EXCEPT ![k] = @ + 1]
  /\ UNCHANGED <<connVars, peer, dataVars, listVars, reg, events, pc>>

PeerClose(k) ==
  /\ "close" \in Faults /\ st[k] # "none" /\ peer[k] = "open"
  /\ peer' = [peer EXCEPT ![k] = "closed"]
  /\ UNCHANGED <<connVars, sent, inbound, dataVars, listVars, reg, events, pc>>

\* What was not received is lost.
PeerReset(k) ==
  /\ "reset" \in Faults /\ st[k] # "none" /\ peer[k] # "reset"
  /\ peer' = [peer EXCEPT ![k] = "reset"] /\ inbound' = [inbound EXCEPT ![k] = 0]
  /\ UNCHANGED <<connVars, sent, dataVars, listVars, reg, events, pc>>

-----------------------------------------------------------------------------
HandleEvent == \E e \in events : RecvFails(e) \/ Recv(e) \/ Send(e) \/ SendFails(e)

Worker ==
  \/ Join \/ CheckTime \/ Modify \/ Wait \/ HandleEvent \/ EventsDone
  \/ DoMsg \/ ClearClients

Next ==
  \/ Worker \/ WaitFails \/ Stops
  \/ \E k \in Conns : \/ \E f \in Socks : AddClient(k, f)
                      \/ PeerSend(k) \/ PeerClose(k) \/ PeerReset(k)

Spec == Init /\ [][Next]_vars

\* The worker keeps running, epoll_wait is not interrupted for ever, and a
\* socket that is asked about again and again can be written some time;
\* nothing is assumed of the peers, of the accept thread or of the errors.
Fairness ==
  /\ WF_vars(Worker) /\ SF_vars(Wait)
  /\ \A f \in Socks : SF_vars(\E W \in SUBSET Socks : f \in W /\ reg[f].write /\ WaitWith(W))
FairSpec == Spec /\ Fairness

-----------------------------------------------------------------------------
(* Properties                                                              *)

\* epoll knows exactly the clients of the worker, each under its own socket
\* and with a pointer that is alive, however sockets are reused.
RegistrationsMatch ==
  pc \notin {"exited", "done"} =>
    /\ \A f \in Socks : reg[f].ptr = clients[f]
    /\ \A k \in Joined : st[k] = "live" /\ clients[sock[k]] = k

\* No event that is still to be handled points to a deleted client: a client
\* is deleted by the handling of its own, only event.
EventsLive == \A e \in events : st[e.ptr] = "live"

\* Connection k is over: its Client was deleted, or the worker has ended.
Over(k) == st[k] = "freed" \/ pc = "done"

\* As long as its connection lasts, every message a peer sends is handled
\* and every reply leaves the send buffer, whatever the other connections do
\* and although waits are interrupted.
Served ==
  \A k \in Conns :
    /\ \A n \in 1..MaxMsgs : sent[k] = n ~> (handled[k] >= n \/ peer[k] # "open" \/ Over(k))
    /\ out[k] > 0 ~> (out[k] = 0 \/ Over(k))

\* A client whose peer is gone is deleted, as long as the worker runs.
Disconnects == \A k \in Conns : peer[k] # "open" ~> Over(k)
=============================================================================
