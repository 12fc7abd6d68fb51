----------------------------- MODULE SelectServer -----------------------------
(***************************************************************************)
(* One worker of the select server: Server::OnRun of Server.hpp driving    *)
(* SelectServer::DoNetEvents of SelectServer.hpp, over its clients and     *)
(* three descriptor sets.  The set of sockets to read is computed only     *)
(* when _clients_change says that _clients is not what it was; sockets are *)
(* numbers that the system gives to the next connection as soon as they    *)
(* are closed.                                                             *)
(*                                                                         *)
(* A message is one unit.  A loop over _clients that touches only the      *)
(* client it is at is one action.  Socket numbers stay below the limit of  *)
(* FDSet::create, 65535.                                                   *)
(***************************************************************************)
EXTENDS Naturals, FiniteSets

CONSTANTS
  Conns,     \* connections the peers may ever make
  Socks,     \* socket numbers
  MaxMsgs,   \* bound: messages the peers send altogether
  SendSize,  \* capacity of Client::_sendBuff
  Faults,    \* which of FaultKinds can happen
  NoConn

FaultKinds == {"close", "reset", "expire", "select", "stop"}

ASSUME SockAssumption == Socks # {} /\ Socks \subseteq Nat \ {0} /\ IsFiniteSet(Socks)
ASSUME BoundAssumption == MaxMsgs \in Nat /\ SendSize \in Nat
ASSUME FaultAssumption == Faults \subseteq FaultKinds /\ NoConn \notin Conns

VARIABLES
  st,           \* a connection: "none", "live" (its Client exists), "freed"
  sock,         \* its socket
  peer,         \* its remote end: "open", "closed", "reset"
  sent,         \* messages the peer sent
  inbound,      \* of these, the ones the socket still holds
  recvd,        \* the ones in the receive buffer
  handled,      \* the ones given to OnNetMsg
  out,          \* replies in the send buffer
  clientsBuff,  \* Server::_clientsBuff
  clients,      \* Server::_clients, from sockets to clients
  change,       \* Server::_clients_change
  fdRead, fdWrite, fdReadBak, maxSock,   \* the members of SelectServer
  pc            \* where OnRun is

connVars == <<st, sock>>
peerVars == <<peer, sent, inbound>>
dataVars == <<recvd, handled, out>>
listVars == <<clientsBuff, clients>>
fdVars   == <<fdRead, fdWrite, fdReadBak, maxSock>>
vars == <<connVars, peerVars, dataVars, listVars, change, fdVars, pc>>

Entries == {f \in Socks : clients[f] # NoConn}
Joined == {clients[f] : f \in Entries}
FreeSocks == Socks \ {sock[k] : k \in {c \in Conns : st[c] = "live"}}

TypeOK ==
  /\ st \in [Conns -> {"none", "live", "freed"}] /\ sock \in [Conns -> Socks]
  /\ peer \in [Conns -> {"open", "closed", "reset"}]
  /\ sent \in [Conns -> 0..MaxMsgs] /\ inbound \in [Conns -> 0..MaxMsgs]
  /\ recvd \in [Conns -> 0..MaxMsgs] /\ handled \in [Conns -> 0..MaxMsgs]
  /\ out \in [Conns -> 0..SendSize]
  /\ clientsBuff \subseteq Conns /\ clients \in [Socks -> Conns \cup {NoConn}]
  /\ change \in BOOLEAN
  /\ fdRead \subseteq Socks /\ fdWrite \subseteq Socks /\ fdReadBak \subseteq Socks
  /\ maxSock \in Socks \cup {0}
  /\ pc \in {"top", "check", "sets", "select", "read", "write", "msg", "exited", "done", "crashed"}

Init ==
  /\ st = [k \in Conns |-> "none"] /\ sock = [k \in Conns |-> CHOOSE f \in Socks : TRUE]
  /\ peer = [k \in Conns |-> "open"]
  /\ sent = [k \in Conns |-> 0] /\ inbound = [k \in Conns |-> 0]
  /\ recvd = [k \in Conns |-> 0] /\ handled = [k \in Conns |-> 0]
  /\ out = [k \in Conns |-> 0]
  /\ clientsBuff = {} /\ clients = [f \in Socks |-> NoConn]
  /\ change = TRUE
  /\ fdRead = {} /\ fdWrite = {} /\ fdReadBak = {} /\ maxSock = 0
  /\ pc = "top"

-----------------------------------------------------------------------------
(* The worker                                                              *)

\* OnRun takes the buffered clients, and goes on when it has any client.
Join_SameSet ==
  /\ pc = "top"
  /\ clients' = [f \in Socks |->
       IF \E k \in clientsBuff : sock[k] = f THEN CHOOSE k \in clientsBuff : sock[k] = f
       ELSE clients[f]]
  /\ clientsBuff' = {}
  /\ pc' = (IF clientsBuff = {} /\ Entries = {} THEN "top" ELSE "check")
  /\ UNCHANGED <<connVars, peerVars, dataVars, change, fdVars>>

Join ==
  /\ pc = "top"
  /\ clients' = [f \in Socks |->
       IF \E k \in clientsBuff : sock[k] = f THEN CHOOSE k \in clientsBuff : sock[k] = f
       ELSE clients[f]]
  /\ clientsBuff' = {}
  /\ change' = (change \/ clientsBuff # {})
  /\ pc' = (IF clientsBuff = {} /\ Entries = {} THEN "top" ELSE "check")
  /\ UNCHANGED <<connVars, peerVars, dataVars, fdVars>>

Leave_SameSet(S) ==
  /\ st' = [k \in Conns |-> IF k \in S THEN "freed" ELSE st[k]]
  /\ clients' = [f \in Socks |-> IF clients[f] \in S THEN NoConn ELSE clients[f]]
  /\ change' = change

\* The clients of S leave: OnClientLeave deletes them, which closes their
\* sockets, and their entries are erased.
Leave(S) ==
  /\ st' = [k \in Conns |-> IF k \in S THEN "freed" ELSE st[k]]
  /\ clients' = [f \in Socks |-> IF clients[f] \in S THEN NoConn ELSE clients[f]]
  /\ change' = (change \/ S # {})

CheckTime ==
  /\ pc = "check"
  /\ \E dead \in SUBSET Joined :
       /\ "expire" \notin Faults => dead = {}
       /\ Leave(dead)
  /\ pc' = "sets"
  /\ UNCHANGED <<sock, peerVars, dataVars, clientsBuff, fdVars>>

\* needWrite()
Writers == {f \in Entries : out[clients[f]] > 0}

\* The sets for select.
ComputeSets ==
  /\ pc = "sets" /\ (change => Entries # {})
  /\ IF change
     THEN /\ fdRead' = Entries /\ fdReadBak' = Entries
          /\ maxSock' \in {f \in Entries : \A g \in Entries : g <= f}
     ELSE fdRead' = fdReadBak /\ UNCHANGED <<fdReadBak, maxSock>>
  /\ fdWrite' = Writers
  /\ change' = FALSE
  /\ pc' = "select"
  /\ UNCHANGED <<connVars, peerVars, dataVars, listVars>>

\* The same without any client: _clients.begin()->second reads what lies
\* behind the end of the map and takes it for a Client.  The program ends,
\* or some number becomes _maxSock.
ComputeSetsOfNone ==
  /\ pc = "sets" /\ change /\ Entries = {}
  /\ change' = FALSE
  /\ fdRead' = {} /\ fdReadBak' = {} /\ fdWrite' = {}
  /\ \/ pc' = "crashed" /\ UNCHANGED maxSock
     \/ pc' = "select" /\ maxSock' \in Socks \cup {0}
  /\ UNCHANGED <<connVars, peerVars, dataVars, listVars>>

Owner(f) == {k \in Conns : st[k] = "live" /\ sock[k] = f}
Readable(f) == \E k \in Owner(f) : inbound[k] > 0 \/ peer[k] # "open"

\* select leaves in the sets the sockets up to nfds that are ready.
Select ==
  /\ pc = "select"
  /\ fdRead' = {f \in fdRead : f <= maxSock /\ Readable(f)}
  /\ fdWrite' \in SUBSET {f \in fdWrite : f <= maxSock}
  /\ pc' = (IF fdRead' \cup fdWrite' = {} THEN "msg" ELSE "read")
  /\ UNCHANGED <<connVars, peerVars, dataVars, listVars, change, fdReadBak, maxSock>>

\* select fails: EINTR and the turn goes on, or the loop ends.
SelectFails ==
  /\ pc = "select" /\ "select" \in Faults
  /\ pc' \in {"msg", "exited"}
  /\ UNCHANGED <<connVars, peerVars, dataVars, listVars, change, fdVars>>

\* Thread::Close cleared _isRun.
Stops ==
  /\ pc = "top" /\ "stop" \in Faults
  /\ pc' = "exited"
  /\ UNCHANGED <<connVars, peerVars, dataVars, listVars, change, fdVars>>

\* The loop ended: onDestory is ClearClients.
ClearClients ==
  /\ pc = "exited"
  /\ st' = [k \in Conns |-> IF k \in Joined \cup clientsBuff THEN "freed" ELSE st[k]]
  /\ clients' = [f \in Socks |-> NoConn] /\ clientsBuff' = {}
  /\ pc' = "done"
  /\ UNCHANGED <<sock, peerVars, dataVars, change, fdVars>>

\* The clients of _clients whose socket is in a set after select.
Selected(set) == {clients[f] : f \in Entries \cap set}
Broken == {k \in Conns : peer[k] = "reset"}

\* ReadData: recv takes some of what there is; nothing with the remote end
\* closed, or an error, and the client leaves.
ReadData ==
  /\ pc = "read"
  /\ LET ready == Selected(fdRead)
         gone  == {k \in ready : inbound[k] = 0}
     IN \E n \in [ready \ gone -> 1..MaxMsgs] :
          /\ \A k \in ready \ gone : n[k] <= inbound[k]
          /\ recvd' = [k \in Conns |-> recvd[k] + (IF k \in ready \ gone THEN n[k] ELSE 0)]
          /\ inbound' = [k \in Conns |-> inbound[k] - (IF k \in ready \ gone THEN n[k] ELSE 0)]
          /\ Leave(gone)
  /\ pc' = "write"
  /\ UNCHANGED <<sock, peer, sent, handled, out, clientsBuff, fdVars>>

\* WriteData: send takes some of the send buffer, or fails.
WriteData ==
  /\ pc = "write"
  /\ LET ready == {k \in Selected(fdWrite) : out[k] > 0}
         gone  == ready \cap Broken
     IN \E n \in [ready \ gone -> 1..SendSize] :
          /\ \A k \in ready \ gone : n[k] <= out[k]
          /\ out' = [k \in Conns |-> out[k] - (IF k \in ready \ gone THEN n[k] ELSE 0)]
          /\ Leave(gone)
  /\ pc' = "msg"
  /\ UNCHANGED <<sock, peerVars, recvd, handled, clientsBuff, fdVars>>

\* DoMsg: every message is handled and answered if the reply fits.
DoMsg ==
  /\ pc = "msg"
  /\ handled' = [k \in Conns |-> handled[k] + (IF k \in Joined THEN recvd[k] ELSE 0)]
  /\ out' = [k \in Conns |->
       LET all == out[k] + recvd[k]
       IN IF k \notin Joined THEN out[k] ELSE IF all <= SendSize THEN all ELSE SendSize]
  /\ recvd' = [k \in Conns |-> IF k \in Joined THEN 0 ELSE recvd[k]]
  /\ pc' = "top"
  /\ UNCHANGED <<connVars, peerVars, listVars, change, fdVars>>

-----------------------------------------------------------------------------
(* The accept thread and the peers                                         *)

AddClient(k, f) ==
  /\ st[k] = "none" /\ f \in FreeSocks
  /\ st' = [st EXCEPT ![k] = "live"] /\ sock' = [sock EXCEPT ![k] = f]
  /\ clientsBuff' = clientsBuff \cup {k}
  /\ UNCHANGED <<peerVars, dataVars, clients, change, fdVars, pc>>

\* The messages of all the peers so far.
Traffic == {m \in Conns \X (1..MaxMsgs) : m[2] <= sent[m[1]]}

PeerSend(k) ==
  /\ st[k] # "none" /\ peer[k] = "open" /\ Cardinality(Traffic) < MaxMsgs
  /\ sent' = [sent EXCEPT ![k] = @ + 1] /\ inbound' = [inbound EXCEPT ![k] = @ + 1]
  /\ UNCHANGED <<connVars, peer, dataVars, listVars, change, fdVars, pc>>

PeerClose(k) ==
  /\ "close" \in Faults /\ st[k] # "none" /\ peer[k] = "open"
  /\ peer' = [peer EXCEPT ![k] = "closed"]
  /\ UNCHANGED <<connVars, sent, inbound, dataVars, listVars, change, fdVars, pc>>

\* What was not received is lost.
PeerReset(k) ==
  /\ "reset" \in Faults /\ st[k] # "none" /\ peer[k] # "reset"
  /\ peer' = [peer EXCEPT ![k] = "reset"] /\ inbound' = [inbound EXCEPT ![k] = 0]
  /\ UNCHANGED <<connVars, sent, dataVars, listVars, change, fdVars, pc>>

-----------------------------------------------------------------------------
Worker ==
  \/ Join \/ CheckTime \/ ComputeSets \/ ComputeSetsOfNone \/ Select
  \/ ReadData \/ WriteData \/ DoMsg \/ ClearClients

Next ==
  \/ Worker \/ SelectFails \/ Stops
  \/ \E k \in Conns : \/ \E f \in Socks : AddClient(k, f)
                      \/ PeerSend(k) \/ PeerClose(k) \/ PeerReset(k)

Spec == Init /\ [][Next]_vars

\* The worker keeps running, select is not interrupted for ever, and a socket
\* that is asked about again and again can be written some time; nothing is
\* assumed of the peers, of the accept thread or of the errors.
Fairness ==
  /\ WF_vars(Worker) /\ SF_vars(Select)
  /\ \A f \in Socks : SF_vars(Select /\ f \in fdWrite')
FairSpec == Spec /\ Fairness

-----------------------------------------------------------------------------
(* Properties                                                              *)

\* What select is asked about is what the worker has: the cached set of
\* sockets is the set of _clients, although clients join, leave and hand
\* their sockets on, nfds covers it, and nobody with something to write is
\* left out.
SetsCurrent ==
  pc = "select" => /\ fdRead = Entries /\ fdWrite = Writers
                   /\ \A f \in Entries : f <= maxSock

\* What ReadData and WriteData find in _clients under a socket that select
\* reported is the connection select reported, alive and readable.
NoStaleReport ==
  /\ \A k \in Joined : st[k] = "live" /\ clients[sock[k]] = k
  /\ pc = "read" => \A f \in fdRead : f \in Entries /\ Readable(f)

\* OnRun computes the sets only when there are clients, as the comment of
\* Server.hpp:69 says: without clients the turn is skipped.  Does not hold:
\* CheckTime, in between, may delete the last client.
NoneSkipped == pc = "sets" => Entries # {}

\* Connection k is over: its Client was deleted, or the worker has ended.
Over(k) == st[k] = "freed" \/ pc \in {"done", "crashed"}

\* As long as its connection lasts, every message a peer sends is handled
\* and every reply leaves the send buffer, whatever the other connections do
\* and although waits are interrupted.
Served ==
  \A k \in Conns :
    /\ \A n \in 1..MaxMsgs : sent[k] = n ~> (handled[k] >= n \/ peer[k] # "open" \/ Over(k))
    /\ out[k] > 0 ~> (out[k] = 0 \/ Over(k))
=============================================================================
