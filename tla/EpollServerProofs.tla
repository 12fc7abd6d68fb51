-------------------------- MODULE EpollServerProofs --------------------------
(* Theorems about EpollServer, for any connections, socket numbers and     *)
(* sizes: the map of the worker, the sockets and epoll agree, and no event *)
(* outlives its client.                                                    *)
EXTENDS EpollServer, TLAPS

Shapes ==
  /\ st \in [Conns -> {"none", "live", "freed"}] /\ sock \in [Conns -> Socks]
  /\ clientsBuff \subseteq Conns /\ clients \in [Socks -> Conns \cup {NoConn}]
  /\ reg \in [Socks -> [ptr : Conns \cup {NoConn}, write : BOOLEAN]]
  /\ events \subseteq Event

\* The system gives a socket number to one open socket at a time.
SocketsDiffer == \A j, k \in Live : sock[j] = sock[k] => j = k

\* A client of the map is alive and entered under its own socket; one that
\* waits in the buffer is alive and in no map yet.
MapOk ==
  /\ \A f \in Socks : clients[f] # NoConn => clients[f] \in Live /\ sock[clients[f]] = f
  /\ clientsBuff \subseteq Live /\ \A k \in clientsBuff : clients[sock[k]] # k

RegOk == \A f \in Socks : reg[f].ptr = clients[f]

\* The events that are left are those of clients of the map, one for each.
EventsOk ==
  /\ \A e \in events : /\ e.ptr \in Live /\ clients[sock[e.ptr]] = e.ptr
                        /\ pc = "events"
  /\ \A d, e \in events : d.ptr = e.ptr => d = e

EpollInv == Shapes /\ SocketsDiffer /\ MapOk /\ RegOk /\ EventsOk

LEMMA EpollInit == Init => EpollInv
<1> SUFFICES ASSUME Init PROVE EpollInv
  OBVIOUS
<1>1. (CHOOSE f \in Socks : TRUE) \in Socks
  BY SockAssumption
<1>2. Shapes
  BY <1>1 DEF Init, Shapes, NoReg
<1>3. Live = {}
  BY DEF Init, Live
<1>4. SocketsDiffer /\ MapOk /\ RegOk /\ EventsOk
  BY <1>3 DEF Init, SocketsDiffer, MapOk, RegOk, EventsOk, NoReg
<1> QED BY <1>2, <1>4 DEF EpollInv

-----------------------------------------------------------------------------
\* The clients of S leave, and those that stay keep all that is said of them.
LEMMA LeaveOk ==
  ASSUME EpollInv, NEW S \in SUBSET Conns, Leave(S),
         UNCHANGED <<sock, clientsBuff>>, S \cap clientsBuff = {},
         events' \subseteq Event, pc' = "events" \/ events' = {},
         \A e \in events' : e.ptr \in Live \ S /\ clients[sock[e.ptr]] = e.ptr,
         \A d, e \in events' : d.ptr = e.ptr => d = e
  PROVE  EpollInv'
<1>1. /\ st' = [k \in Conns |-> IF k \in S THEN "freed" ELSE st[k]]
      /\ clients' = [f \in Socks |-> IF clients[f] \in S THEN NoConn ELSE clients[f]]
      /\ reg' = [f \in Socks |-> IF reg[f].ptr \in S THEN NoReg ELSE reg[f]]
  BY DEF Leave
<1>2. Shapes /\ SocketsDiffer /\ MapOk /\ RegOk /\ EventsOk
  BY DEF EpollInv
<1>3. NoReg \in [ptr : Conns \cup {NoConn}, write : BOOLEAN] /\ NoReg.ptr = NoConn
  BY DEF NoReg
<1>4. Shapes'
  BY <1>1, <1>2, <1>3 DEF Shapes
<1>5. Live' = Live \ S
  BY <1>1 DEF Live
<1>6. SocketsDiffer'
  BY <1>2, <1>5 DEF SocketsDiffer
<1>7. MapOk'
  <2>1. \A k \in clientsBuff : k \in Conns /\ sock[k] \in Socks /\ k \notin S /\ k # NoConn
    BY <1>2, FaultAssumption DEF Shapes
  <2>2. \A k \in clientsBuff : clients'[sock[k]] # k
    BY <1>1, <1>2, <2>1 DEF MapOk
  <2> QED BY <1>1, <1>2, <1>5, <2>1, <2>2 DEF MapOk
<1>8. RegOk'
  BY <1>1, <1>2, <1>3, FaultAssumption DEF RegOk, Shapes
<1>9. EventsOk'
  <2>1. \A e \in events' : e.ptr \in Live' /\ clients'[sock'[e.ptr]] = e.ptr
    BY <1>1, <1>2, <1>5 DEF Shapes, Event
  <2> QED BY <2>1 DEF EventsOk
<1> QED BY <1>4, <1>6, <1>7, <1>8, <1>9 DEF EpollInv

\* A step that changes neither clients nor registrations.
LEMMA QuietOk ==
  ASSUME EpollInv, UNCHANGED <<connVars, listVars, reg>>,
         events' \subseteq Event, pc' = "events" \/ events' = {},
         \A e \in events' : e.ptr \in Live /\ clients[sock[e.ptr]] = e.ptr,
         \A d, e \in events' : d.ptr = e.ptr => d = e
  PROVE  EpollInv'
BY DEF EpollInv, Shapes, SocketsDiffer, MapOk, RegOk, EventsOk, Live, connVars, listVars

LEMMA JoinOk == ASSUME EpollInv, Join PROVE EpollInv'
<1> DEFINE In(f) == CHOOSE k \in clientsBuff : sock[k] = f
           Has(f) == \E k \in clientsBuff : sock[k] = f
<1>1. /\ Shapes /\ SocketsDiffer /\ MapOk /\ RegOk /\ EventsOk
  BY DEF EpollInv
<1>2. /\ UNCHANGED connVars /\ clientsBuff' = {} /\ events' = events /\ pc = "top"
      /\ clients' = [f \in Socks |-> IF Has(f) THEN In(f) ELSE clients[f]]
      /\ reg' = [f \in Socks |-> IF Has(f) THEN [ptr |-> In(f), write |-> FALSE] ELSE reg[f]]
  BY DEF Join, Registered
<1>3. \A f \in Socks : Has(f) => In(f) \in clientsBuff /\ sock[In(f)] = f
  OBVIOUS
<1> HIDE DEF In, Has
<1>4. events = {}
  BY <1>1, <1>2 DEF EventsOk
<1>5. Live' = Live /\ clientsBuff \subseteq Live /\ clientsBuff \subseteq Conns
  BY <1>1, <1>2 DEF connVars, Live, MapOk, Shapes
<1>6. Shapes'
  BY <1>1, <1>2, <1>3, <1>4, <1>5 DEF Shapes, connVars
<1>7. SocketsDiffer' /\ EventsOk'
  BY <1>1, <1>2, <1>4, <1>5 DEF SocketsDiffer, EventsOk, connVars
<1>8. MapOk'
  BY <1>1, <1>2, <1>3, <1>5 DEF MapOk, connVars
<1>9. RegOk'
  BY <1>1, <1>2 DEF RegOk
<1> QED BY <1>6, <1>7, <1>8, <1>9 DEF EpollInv

LEMMA ModifyOk == ASSUME EpollInv, Modify PROVE EpollInv'
<1>1. /\ Shapes /\ SocketsDiffer /\ MapOk /\ RegOk /\ EventsOk
  BY DEF EpollInv
<1>2. /\ UNCHANGED <<connVars, listVars, events>> /\ pc = "ctl"
      /\ reg' = [f \in Socks |-> IF f \in Entries /\ reg[f] # NoReg
                   THEN [ptr |-> clients[f], write |-> out[clients[f]] > 0] ELSE reg[f]]
  BY DEF Modify, Modified
<1>3. events = {}
  BY <1>1, <1>2 DEF EventsOk
<1>4. Live' = Live
  BY <1>2 DEF connVars, Live
<1>5. Shapes'
  BY <1>1, <1>2, <1>3 DEF Shapes, connVars, listVars
<1>6. RegOk'
  BY <1>1, <1>2 DEF RegOk, listVars
<1>7. SocketsDiffer' /\ MapOk' /\ EventsOk'
  BY <1>1, <1>2, <1>3, <1>4 DEF SocketsDiffer, MapOk, EventsOk, connVars, listVars
<1> QED BY <1>5, <1>6, <1>7 DEF EpollInv

\* wait() reports each registered socket once, with the client of its entry.
LEMMA WaitOk == ASSUME EpollInv, NEW W \in SUBSET Socks, WaitWith(W) PROVE EpollInv'
<1>1. ASSUME NEW e \in events'
      PROVE  /\ e \in Event /\ e.ptr \in Live /\ clients[sock[e.ptr]] = e.ptr
             /\ e.read = Readable(e.ptr) /\ e.write = (reg[sock[e.ptr]].write /\ sock[e.ptr] \in W)
  <2>1. /\ e \in Event
        /\ \E f \in Socks : /\ reg[f].ptr = e.ptr /\ sock[e.ptr] = f /\ e.read = Readable(e.ptr)
                            /\ e.write = (reg[f].write /\ f \in W)
    BY <1>1 DEF WaitWith
  <2>2. e.ptr \in Conns
    BY <2>1 DEF Event
  <2>3. \A f \in Socks : reg[f].ptr = clients[f] /\ (clients[f] # NoConn => clients[f] \in Live)
    BY DEF EpollInv, RegOk, MapOk
  <2> QED BY <2>1, <2>2, <2>3, FaultAssumption
<1>2. ASSUME NEW d \in events', NEW e \in events', d.ptr = e.ptr PROVE d = e
  <2>1. d.read = e.read /\ d.write = e.write
    BY <1>1, <1>2
  <2> QED BY <1>1, <1>2, <2>1 DEF Event
<1>3. pc' = "events" /\ UNCHANGED <<connVars, listVars, reg>>
  BY DEF WaitWith
<1> QED BY <1>1, <1>2, <1>3, QuietOk

\* A client that leaves takes its only event with it.
LEMMA EventOk == ASSUME EpollInv, NEW e \in events PROVE
  /\ RecvFails(e) \/ SendFails(e) => EpollInv'
  /\ Recv(e) \/ Send(e) => EpollInv'
<1>1. /\ e \in Event /\ events \subseteq Event /\ e.ptr \in Conns
      /\ \A d \in events : d.ptr \in Live /\ clients[sock[d.ptr]] = d.ptr /\ pc = "events"
      /\ \A d \in events : d.ptr = e.ptr => d = e
      /\ \A c, d \in events : c.ptr = d.ptr => c = d
  BY DEF EpollInv, EventsOk, Shapes, Event
<1>2. ASSUME RecvFails(e) \/ SendFails(e) PROVE EpollInv'
  <2>1. Leave({e.ptr}) /\ events' = events \ {e} /\ pc' = pc /\ UNCHANGED <<sock, clientsBuff>>
    BY <1>2 DEF RecvFails, SendFails
  <2>2. {e.ptr} \cap clientsBuff = {}
    BY <1>1 DEF EpollInv, MapOk
  <2> QED BY <1>1, <2>1, <2>2, LeaveOk
<1>3. ASSUME Recv(e) \/ Send(e) PROVE EpollInv'
  <2> DEFINE f == [e EXCEPT !.read = FALSE]
  <2>1. /\ events' \subseteq (events \ {e}) \cup {f} /\ pc' = pc
        /\ UNCHANGED <<connVars, listVars, reg>>
    BY <1>3 DEF Recv, Send
  <2>2. f \in Event /\ f.ptr = e.ptr
    BY <1>1 DEF Event
  <2> HIDE DEF f
  <2>3. /\ events' \subseteq Event /\ \A d \in events' : d.ptr \in Live /\ clients[sock[d.ptr]] = d.ptr
        /\ \A c, d \in events' : c.ptr = d.ptr => c = d
    BY <1>1, <2>1, <2>2
  <2> QED BY <1>1, <2>1, <2>3, QuietOk
<1> QED BY <1>2, <1>3

LEMMA AddOk ==
  ASSUME EpollInv, NEW k \in Conns, NEW f \in Socks, AddClient(k, f)
  PROVE  EpollInv'
<1>1. /\ Shapes /\ SocketsDiffer /\ MapOk /\ RegOk /\ EventsOk
  BY DEF EpollInv
<1>2. /\ st[k] = "none" /\ f \in FreeSocks
      /\ st' = [st EXCEPT ![k] = "live"] /\ sock' = [sock EXCEPT ![k] = f]
      /\ clientsBuff' = clientsBuff \cup {k} /\ UNCHANGED <<clients, reg, events, pc>>
  BY DEF AddClient
<1>3. Live' = Live \cup {k} /\ k \notin Live
  BY <1>1, <1>2 DEF Live, Shapes
<1>4. /\ \A j \in Live : sock'[j] = sock[j] /\ sock[j] # f
      /\ sock'[k] = f
  BY <1>1, <1>2, <1>3 DEF Live, FreeSocks, Shapes
<1>5. Shapes'
  BY <1>1, <1>2 DEF Shapes
<1>6. SocketsDiffer'
  BY <1>1, <1>3, <1>4 DEF SocketsDiffer
<1>7. MapOk'
  <2>1. \A g \in Socks : clients[g] # NoConn => clients[g] \in Live /\ clients[g] # k
    BY <1>1, <1>3 DEF MapOk
  <2>2. clients[f] # k
    BY <2>1, FaultAssumption
  <2> QED BY <1>1, <1>2, <1>3, <1>4, <2>1, <2>2 DEF MapOk
<1>8. RegOk' /\ EventsOk'
  BY <1>1, <1>2, <1>3, <1>4 DEF RegOk, EventsOk
<1> QED BY <1>5, <1>6, <1>7, <1>8 DEF EpollInv

LEMMA ClearOk == ASSUME EpollInv, ClearClients PROVE EpollInv'
<1>1. /\ Shapes /\ SocketsDiffer /\ MapOk /\ RegOk /\ EventsOk
  BY DEF EpollInv
<1>2. /\ st' = [k \in Conns |-> IF k \in Joined \cup clientsBuff THEN "freed" ELSE st[k]]
      /\ clients' = [f \in Socks |-> NoConn] /\ clientsBuff' = {}
      /\ reg' = [f \in Socks |-> NoReg] /\ UNCHANGED <<sock, events>> /\ pc = "exited"
  BY DEF ClearClients
<1>3. events = {} /\ Live' \subseteq Live
  BY <1>1, <1>2 DEF EventsOk, Live
<1>4. NoReg \in [ptr : Conns \cup {NoConn}, write : BOOLEAN] /\ NoReg.ptr = NoConn
  BY DEF NoReg
<1> QED BY <1>1, <1>2, <1>3, <1>4 DEF EpollInv, Shapes, SocketsDiffer, MapOk, RegOk, EventsOk

LEMMA CheckOk == ASSUME EpollInv, CheckTime PROVE EpollInv'
<1>1. /\ Shapes /\ MapOk /\ EventsOk
  BY DEF EpollInv
<1>2. PICK dead \in SUBSET Joined : Leave(dead)
  BY DEF CheckTime
<1>3. UNCHANGED <<sock, clientsBuff, events>> /\ pc = "check"
  BY DEF CheckTime
<1>4. events = {}
  BY <1>1, <1>3 DEF EventsOk
<1>5. dead \in SUBSET Conns /\ dead \cap clientsBuff = {}
  <2>1. \A k \in dead : \E f \in Socks : clients[f] = k /\ k # NoConn
    BY <1>2 DEF Joined, Entries
  <2>2. \A k \in dead : k \in Conns /\ clients[sock[k]] = k
    BY <1>1, <2>1 DEF Shapes, MapOk, Live
  <2> QED BY <1>1, <2>2 DEF MapOk
<1> QED BY <1>2, <1>3, <1>4, <1>5, LeaveOk

LEMMA EpollStep == ASSUME EpollInv, [Next]_vars PROVE EpollInv'
<1>1. /\ events \subseteq Event /\ \A d, e \in events : d.ptr = e.ptr => d = e
      /\ \A e \in events : e.ptr \in Live /\ clients[sock[e.ptr]] = e.ptr /\ pc = "events"
  BY DEF EpollInv, EventsOk, Shapes
<1>2. CASE Join
  BY <1>2, JoinOk
<1>3. CASE CheckTime
  BY <1>3, CheckOk
<1>4. CASE Modify
  BY <1>4, ModifyOk
<1>5. CASE Wait
  BY <1>5, WaitOk DEF Wait
<1>6. CASE HandleEvent
  BY <1>6, EventOk DEF HandleEvent
<1>7. CASE EventsDone \/ DoMsg \/ WaitFails \/ Stops
  <2>1. events' = {} /\ UNCHANGED <<connVars, listVars, reg>>
    BY <1>1, <1>7 DEF EventsDone, DoMsg, WaitFails, Stops
  <2> QED BY <2>1, QuietOk
<1>8. CASE ClearClients
  BY <1>8, ClearOk
<1>9. ASSUME NEW k \in Conns, NEW f \in Socks, AddClient(k, f) PROVE EpollInv'
  BY <1>9, AddOk
<1>10. CASE UNCHANGED vars \/ \E k \in Conns : PeerSend(k) \/ PeerClose(k) \/ PeerReset(k)
  <2>1. UNCHANGED <<connVars, listVars, reg, events, pc>>
    BY <1>10 DEF PeerSend, PeerClose, PeerReset, vars
  <2>2. events = {} \/ pc = "events"
    BY <1>1
  <2> QED BY <1>1, <2>1, <2>2, QuietOk
<1> QED BY <1>2, <1>3, <1>4, <1>5, <1>6, <1>7, <1>8, <1>9, <1>10 DEF Next, Worker

LEMMA EpollInvHolds == Spec => []EpollInv
<1>1. EpollInv /\ [Next]_vars => EpollInv'
  BY EpollStep
<1> QED BY <1>1, EpollInit, PTL DEF Spec

-----------------------------------------------------------------------------
\* EpollServer::OnClientJoin and OnClientLeave keep epoll, the map of Server
\* and the sockets in agreement, with any number of connections and whenever
\* the system hands out a socket number again.
THEOREM RegistrationsHold == Spec => []RegistrationsMatch
<1>1. EpollInv => RegistrationsMatch
  BY FaultAssumption DEF EpollInv, RegOk, MapOk, Live, RegistrationsMatch, Joined, Entries
<1> QED BY <1>1, EpollInvHolds, PTL

\* The loop of EpollServer::DoNetEvents over the array of events never reaches
\* the pointer of a client that was deleted on the way.
THEOREM EventsLiveHold == Spec => []EventsLive
<1>1. EpollInv => EventsLive
  BY DEF EpollInv, EventsOk, Live, EventsLive
<1> QED BY <1>1, EpollInvHolds, PTL
=============================================================================
