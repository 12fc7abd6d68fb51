-------------------------- MODULE SelectServerProofs -------------------------
(* Theorems about SelectServer, for any connections, socket numbers and    *)
(* sizes: the cached set of sockets is never stale when select uses it, and*)
(* what select reports is still true when ReadData looks at it.            *)
EXTENDS SelectServer, TLAPS

Live == {k \in Conns : st[k] = "live"}

Peers == inbound \in [Conns -> Nat] /\ peer \in [Conns -> {"open", "closed", "reset"}]

Shapes ==
  /\ Peers
  /\ st \in [Conns -> {"none", "live", "freed"}] /\ sock \in [Conns -> Socks]
  /\ change \in BOOLEAN
  /\ clientsBuff \subseteq Conns /\ clients \in [Socks -> Conns \cup {NoConn}]

\* The system gives a socket number to one open socket at a time.
SocketsDiffer == \A j, k \in Live : sock[j] = sock[k] => j = k

\* A client of the map is alive and entered under its own socket; one that
\* waits in the buffer is alive and in no map yet.
MapOk ==
  /\ \A f \in Socks : clients[f] # NoConn => clients[f] \in Live /\ sock[clients[f]] = f
  /\ clientsBuff \subseteq Live /\ \A k \in clientsBuff : clients[sock[k]] # k

\* Unless _clients_change says otherwise, the cache is the set of sockets of
\* the map, between the turns too.
CacheOk == pc # "done" /\ ~change => fdReadBak = Entries /\ \A f \in Entries : f <= maxSock

\* Between the computing of the sets and their use nothing changes them.
SetsOk ==
  /\ pc = "select" => ~change /\ fdRead = Entries /\ fdWrite = Writers
  /\ pc = "read" => \A f \in fdRead : f \in Entries /\ Readable(f)

SelectInv == Shapes /\ SocketsDiffer /\ MapOk /\ CacheOk /\ SetsOk

LEMMA SelectInit == Init => SelectInv
<1> SUFFICES ASSUME Init PROVE SelectInv
  OBVIOUS
<1>1. (CHOOSE f \in Socks : TRUE) \in Socks
  BY SockAssumption
<1>2. Shapes
  BY <1>1 DEF Init, Shapes, Peers
<1>3. Live = {}
  BY DEF Init, Live
<1>4. SocketsDiffer /\ MapOk /\ CacheOk /\ SetsOk
  BY <1>3 DEF Init, SocketsDiffer, MapOk, CacheOk, SetsOk
<1> QED BY <1>2, <1>4 DEF SelectInv

-----------------------------------------------------------------------------
\* The clients of S leave, and the change is remembered.
LEMMA LeaveOk ==
  ASSUME SelectInv, NEW S \in SUBSET Conns, Leave(S), S \cap clientsBuff = {},
         UNCHANGED <<sock, clientsBuff, fdReadBak, maxSock>>,
         Peers', pc # "done", pc' \notin {"select", "read"}
  PROVE  SelectInv'
<1>1. /\ st' = [k \in Conns |-> IF k \in S THEN "freed" ELSE st[k]]
      /\ clients' = [f \in Socks |-> IF clients[f] \in S THEN NoConn ELSE clients[f]]
      /\ change' = (change \/ S # {})
  BY DEF Leave
<1>2. Shapes /\ SocketsDiffer /\ MapOk /\ CacheOk
  BY DEF SelectInv
<1>3. Shapes'
  BY <1>1, <1>2 DEF Shapes
<1>4. Live' = Live \ S
  BY <1>1 DEF Live
<1>5. SocketsDiffer'
  BY <1>2, <1>4 DEF SocketsDiffer
<1>6. MapOk'
  <2>1. \A k \in clientsBuff : k \in Conns /\ sock[k] \in Socks /\ k \notin S /\ k # NoConn
    BY <1>2, FaultAssumption DEF Shapes
  <2>2. \A k \in clientsBuff : clients'[sock[k]] # k
    BY <1>1, <1>2, <2>1 DEF MapOk
  <2> QED BY <1>1, <1>2, <1>4, <2>1, <2>2 DEF MapOk
<1>7. CacheOk'
  <2>1. CASE S = {}
    <3>1. change' = change /\ clients' = clients
      BY <1>1, <1>2, <2>1 DEF Shapes
    <3> QED BY <1>2, <3>1 DEF CacheOk, Entries
  <2>2. CASE S # {}
    BY <1>1, <2>2 DEF CacheOk
  <2> QED BY <2>1, <2>2
<1>8. SetsOk'
  BY DEF SetsOk
<1> QED BY <1>3, <1>5, <1>6, <1>7, <1>8 DEF SelectInv

\* A client of the map is not in the buffer.
LEMMA JoinedOk ==
  ASSUME SelectInv, NEW S \in SUBSET Joined
  PROVE  S \in SUBSET Conns /\ S \cap clientsBuff = {}
<1>1. \A k \in S : \E f \in Socks : clients[f] = k /\ k # NoConn
  BY DEF Joined, Entries
<1>2. \A k \in S : k \in Conns /\ clients[sock[k]] = k
  BY <1>1 DEF SelectInv, MapOk, Live
<1> QED BY <1>2 DEF SelectInv, MapOk

\* A step that changes neither clients nor the cache.
LEMMA QuietOk ==
  ASSUME SelectInv, UNCHANGED <<connVars, listVars, change, fdReadBak, maxSock>>,
         Peers', SetsOk', pc = "done" => pc' = "done"
  PROVE  SelectInv'
BY DEF SelectInv, Shapes, SocketsDiffer, MapOk, CacheOk, Live, Entries, connVars, listVars

LEMMA JoinOk == ASSUME SelectInv, Join PROVE SelectInv'
<1> DEFINE In(f) == CHOOSE k \in clientsBuff : sock[k] = f
           Has(f) == \E k \in clientsBuff : sock[k] = f
<1>1. Shapes /\ SocketsDiffer /\ MapOk /\ CacheOk
  BY DEF SelectInv
<1>2. /\ UNCHANGED <<connVars, peerVars, fdReadBak, maxSock>> /\ clientsBuff' = {}
      /\ change' = (change \/ clientsBuff # {}) /\ pc = "top" /\ pc' \in {"top", "check"}
      /\ clients' = [f \in Socks |-> IF Has(f) THEN In(f) ELSE clients[f]]
  BY DEF Join, fdVars
<1>3. /\ \A f \in Socks : Has(f) => In(f) \in clientsBuff /\ sock[In(f)] = f
      /\ clientsBuff = {} => \A f \in Socks : ~Has(f)
  OBVIOUS
<1> HIDE DEF In, Has
<1>4. Live' = Live /\ clientsBuff \subseteq Live /\ clientsBuff \subseteq Conns
  BY <1>1, <1>2 DEF connVars, Live, MapOk, Shapes
<1>5. Shapes'
  BY <1>1, <1>2, <1>3, <1>4 DEF Shapes, Peers, connVars, peerVars
<1>6. SocketsDiffer'
  BY <1>1, <1>2, <1>4 DEF SocketsDiffer, connVars
<1>7. MapOk'
  BY <1>1, <1>2, <1>3, <1>4 DEF MapOk, connVars
<1>8. CacheOk'
  <2>1. CASE clientsBuff = {}
    <3>1. change' = change /\ clients' = clients
      BY <1>1, <1>2, <1>3, <2>1 DEF Shapes
    <3> QED BY <1>1, <1>2, <3>1 DEF CacheOk, Entries
  <2>2. CASE clientsBuff # {}
    BY <1>2, <2>2 DEF CacheOk
  <2> QED BY <2>1, <2>2
<1>9. SetsOk'
  BY <1>2 DEF SetsOk
<1> QED BY <1>5, <1>6, <1>7, <1>8, <1>9 DEF SelectInv

LEMMA CheckOk == ASSUME SelectInv, CheckTime PROVE SelectInv'
<1>1. PICK dead \in SUBSET Joined : Leave(dead)
  BY DEF CheckTime
<1>2. UNCHANGED <<sock, clientsBuff, fdReadBak, maxSock, peerVars>> /\ pc = "check" /\ pc' = "sets"
  BY DEF CheckTime, fdVars
<1>3. Peers'
  BY <1>2 DEF SelectInv, Shapes, Peers, peerVars
<1> QED BY <1>1, <1>2, <1>3, JoinedOk, LeaveOk

\* The sets are computed from the map, or the cache is used as it is.
LEMMA ComputeOk == ASSUME SelectInv, ComputeSets \/ ComputeSetsOfNone PROVE SelectInv'
<1>1. Shapes /\ SocketsDiffer /\ MapOk /\ CacheOk
  BY DEF SelectInv
<1>2. /\ UNCHANGED <<connVars, peerVars, listVars, out>>
      /\ ~change' /\ fdReadBak' = Entries /\ fdRead' = Entries /\ fdWrite' = Writers
      /\ \A f \in Entries : f <= maxSock'
  <2>1. CASE ComputeSets
    BY <1>1, <2>1 DEF ComputeSets, CacheOk, Shapes, dataVars
  <2>2. CASE ComputeSetsOfNone
    BY <2>2 DEF ComputeSetsOfNone, dataVars, Writers
  <2> QED BY <2>1, <2>2
<1>3. Entries' = Entries /\ Writers' = Writers /\ Live' = Live
  BY <1>2 DEF Entries, Writers, Live, connVars, listVars
<1>4. CacheOk' /\ change' = FALSE
  BY <1>2, <1>3 DEF CacheOk, ComputeSets, ComputeSetsOfNone
<1>5. pc' \in {"select", "crashed"}
  BY DEF ComputeSets, ComputeSetsOfNone
<1>6. SetsOk'
  BY <1>2, <1>3, <1>5 DEF SetsOk
<1> QED BY <1>1, <1>2, <1>3, <1>4, <1>6
        DEF SelectInv, Shapes, Peers, SocketsDiffer, MapOk, connVars, listVars, peerVars

\* Whatever select reports is a socket of the map.
LEMMA SelectOk == ASSUME SelectInv, Select PROVE SelectInv'
<1>1. /\ pc = "select" /\ fdRead' = {f \in fdRead : f <= maxSock /\ Readable(f)}
      /\ UNCHANGED <<connVars, peerVars, listVars, change, fdReadBak, maxSock>>
      /\ pc' \in {"msg", "read"}
  BY DEF Select
<1>2. fdRead = Entries
  BY <1>1 DEF SelectInv, SetsOk
<1>3. Entries' = Entries /\ \A f : Readable(f)' = Readable(f)
  BY <1>1 DEF Entries, Readable, Owner, connVars, peerVars, listVars
<1>4. SetsOk'
  BY <1>1, <1>2, <1>3 DEF SetsOk
<1>5. Peers'
  BY <1>1 DEF SelectInv, Shapes, Peers, peerVars
<1> QED BY <1>1, <1>4, <1>5, QuietOk

LEMMA ReadOk == ASSUME SelectInv, ReadData PROVE SelectInv'
<1> DEFINE ready == Selected(fdRead)
           gone == {k \in ready : inbound[k] = 0}
<1>1. PICK n \in [ready \ gone -> 1..MaxMsgs] :
        /\ \A k \in ready \ gone : n[k] <= inbound[k]
        /\ inbound' = [k \in Conns |-> inbound[k] - (IF k \in ready \ gone THEN n[k] ELSE 0)]
        /\ Leave(gone)
  BY DEF ReadData
<1>2. gone \in SUBSET Joined
  BY DEF Selected, Joined
<1>3. UNCHANGED <<sock, clientsBuff, fdReadBak, maxSock, peer>> /\ pc = "read" /\ pc' = "write"
  BY DEF ReadData, fdVars
<1> HIDE DEF ready, gone
<1>4. Peers'
  <2>1. ASSUME NEW k \in Conns
        PROVE  inbound[k] - (IF k \in ready \ gone THEN n[k] ELSE 0) \in Nat
    <3>1. inbound[k] \in Nat
      BY DEF SelectInv, Shapes, Peers
    <3>2. CASE k \in ready \ gone
      <4>1. n[k] \in Nat /\ n[k] <= inbound[k]
        BY <1>1, <3>2
      <4> QED BY <3>1, <3>2, <4>1
    <3> QED BY <3>1, <3>2
  <2> QED BY <1>1, <1>3, <2>1 DEF SelectInv, Shapes, Peers
<1> QED BY <1>1, <1>2, <1>3, <1>4, JoinedOk, LeaveOk

LEMMA WriteOk == ASSUME SelectInv, WriteData PROVE SelectInv'
<1> DEFINE ready == {k \in Selected(fdWrite) : out[k] > 0}
           gone == ready \cap Broken
<1>1. Leave(gone)
  BY DEF WriteData
<1>2. gone \in SUBSET Joined
  BY DEF Selected, Joined
<1>3. UNCHANGED <<sock, clientsBuff, fdReadBak, maxSock, peerVars>> /\ pc = "write" /\ pc' = "msg"
  BY DEF WriteData, fdVars
<1> HIDE DEF gone
<1>4. Peers'
  BY <1>3 DEF SelectInv, Shapes, Peers, peerVars
<1> QED BY <1>1, <1>2, <1>3, <1>4, JoinedOk, LeaveOk

\* A new connection gets a socket that is nobody's, so that what was asked
\* and reported of the others stays true.
LEMMA AddOk ==
  ASSUME SelectInv, NEW k \in Conns, NEW f \in Socks, AddClient(k, f)
  PROVE  SelectInv'
<1>1. Shapes /\ SocketsDiffer /\ MapOk /\ CacheOk /\ SetsOk
  BY DEF SelectInv
<1>2. /\ st[k] = "none" /\ f \in FreeSocks
      /\ st' = [st EXCEPT ![k] = "live"] /\ sock' = [sock EXCEPT ![k] = f]
      /\ clientsBuff' = clientsBuff \cup {k}
      /\ UNCHANGED <<peerVars, dataVars, clients, change, fdVars, pc>>
  BY DEF AddClient
<1>3. Live' = Live \cup {k} /\ k \notin Live
  BY <1>1, <1>2 DEF Live, Shapes
<1>4. /\ \A j \in Live : sock'[j] = sock[j] /\ sock[j] # f
      /\ sock'[k] = f
  BY <1>1, <1>2, <1>3 DEF Live, FreeSocks, Shapes
<1>5. Shapes'
  BY <1>1, <1>2 DEF Shapes, Peers, peerVars
<1>6. SocketsDiffer'
  BY <1>1, <1>3, <1>4 DEF SocketsDiffer
<1>7. MapOk'
  <2>1. \A g \in Socks : clients[g] # NoConn => clients[g] \in Live /\ clients[g] # k
    BY <1>1, <1>3 DEF MapOk
  <2>2. clients[f] # k
    BY <2>1, FaultAssumption
  <2> QED BY <1>1, <1>2, <1>3, <1>4, <2>1, <2>2 DEF MapOk
<1>8. Entries' = Entries /\ Writers' = Writers
  BY <1>2 DEF Entries, Writers, dataVars
<1>9. \A g : Readable(g) => Readable(g)'
  BY <1>2, <1>3, <1>4 DEF Readable, Owner, Live, peerVars
<1>10. CacheOk' /\ SetsOk'
  BY <1>1, <1>2, <1>8, <1>9 DEF CacheOk, SetsOk, fdVars
<1> QED BY <1>5, <1>6, <1>7, <1>10 DEF SelectInv

\* The peers make sockets readable, never the reverse.
LEMMA PeerOk ==
  ASSUME SelectInv, NEW k \in Conns, PeerSend(k) \/ PeerClose(k) \/ PeerReset(k)
  PROVE  SelectInv'
<1>1. /\ UNCHANGED <<connVars, dataVars, listVars, change, fdVars, pc>>
      /\ \/ inbound' = [inbound EXCEPT ![k] = @ + 1] /\ peer' = peer
         \/ /\ inbound' = inbound \/ inbound' = [inbound EXCEPT ![k] = 0]
            /\ \E p \in {"closed", "reset"} : peer' = [peer EXCEPT ![k] = p]
  BY DEF PeerSend, PeerClose, PeerReset
<1>2. Peers
  BY DEF SelectInv, Shapes
<1>3. Peers'
  BY <1>1, <1>2 DEF Peers
<1>4. Entries' = Entries /\ Writers' = Writers
  BY <1>1 DEF Entries, Writers, connVars, listVars, dataVars
<1>5. \A g : Readable(g) => Readable(g)'
  <2> SUFFICES ASSUME NEW g, NEW j \in Conns, st[j] = "live" /\ sock[j] = g,
                      inbound[j] > 0 \/ peer[j] # "open"
               PROVE  Readable(g)'
    BY DEF Readable, Owner
  <2>1. j \in Owner(g)'
    BY <1>1 DEF Owner, connVars
  <2>2. inbound'[j] > 0 \/ peer'[j] # "open"
    BY <1>1, <1>2 DEF Peers
  <2> QED BY <2>1, <2>2 DEF Readable
<1>6. SetsOk'
  BY <1>1, <1>4, <1>5 DEF SelectInv, SetsOk, fdVars
<1> QED BY <1>1, <1>3, <1>6, QuietOk DEF fdVars

LEMMA ClearOk == ASSUME SelectInv, ClearClients PROVE SelectInv'
<1>1. /\ Shapes /\ SocketsDiffer /\ MapOk
  BY DEF SelectInv
<1>2. /\ st' = [k \in Conns |-> IF k \in Joined \cup clientsBuff THEN "freed" ELSE st[k]]
      /\ clients' = [f \in Socks |-> NoConn] /\ clientsBuff' = {}
      /\ UNCHANGED <<sock, peerVars, change>> /\ pc' = "done"
  BY DEF ClearClients
<1>3. Live' \subseteq Live
  BY <1>2 DEF Live
<1> QED BY <1>1, <1>2, <1>3
        DEF SelectInv, Shapes, Peers, SocketsDiffer, MapOk, CacheOk, SetsOk, peerVars

LEMMA SelectStep == ASSUME SelectInv, [Next]_vars PROVE SelectInv'
<1>1. Peers
  BY DEF SelectInv, Shapes
<1>2. CASE Join
  BY <1>2, JoinOk
<1>3. CASE CheckTime
  BY <1>3, CheckOk
<1>4. CASE ComputeSets \/ ComputeSetsOfNone
  BY <1>4, ComputeOk
<1>5. CASE Select
  BY <1>5, SelectOk
<1>6. CASE ReadData
  BY <1>6, ReadOk
<1>7. CASE WriteData
  BY <1>7, WriteOk
<1>8. CASE DoMsg \/ SelectFails \/ Stops
  <2>1. /\ UNCHANGED <<connVars, peerVars, listVars, change, fdVars>>
        /\ pc # "done" /\ pc' \in {"top", "msg", "exited"}
    BY <1>8 DEF DoMsg, SelectFails, Stops, peerVars
  <2>2. Peers'
    BY <1>1, <2>1 DEF Peers, peerVars
  <2>3. SetsOk'
    BY <2>1 DEF SetsOk
  <2> QED BY <2>1, <2>2, <2>3, QuietOk DEF fdVars
<1>9. CASE ClearClients
  BY <1>9, ClearOk
<1>10. ASSUME NEW k \in Conns, NEW f \in Socks, AddClient(k, f) PROVE SelectInv'
  BY <1>10, AddOk
<1>11. ASSUME NEW k \in Conns, PeerSend(k) \/ PeerClose(k) \/ PeerReset(k) PROVE SelectInv'
  BY <1>11, PeerOk
<1>12. CASE UNCHANGED vars
  <2>1. /\ UNCHANGED <<connVars, peerVars, dataVars, listVars, change, fdVars, pc>>
    BY <1>12 DEF vars
  <2>2. Peers'
    BY <1>1, <2>1 DEF Peers, peerVars
  <2>3. SetsOk'
    BY <2>1 DEF SelectInv, SetsOk, Entries, Writers, Readable, Owner,
                connVars, peerVars, dataVars, listVars, fdVars
  <2> QED BY <2>1, <2>2, <2>3, QuietOk DEF fdVars
<1> QED BY <1>2, <1>3, <1>4, <1>5, <1>6, <1>7, <1>8, <1>9, <1>10, <1>11, <1>12 DEF Next, Worker

LEMMA SelectInvHolds == Spec => []SelectInv
<1>1. SelectInv /\ [Next]_vars => SelectInv'
  BY SelectStep
<1> QED BY <1>1, SelectInit, PTL DEF Spec

-----------------------------------------------------------------------------
\* SelectServer::DoNetEvents never asks about a set that is not the one of
\* _clients, although it computes it only when _clients_change is set and the
\* system hands socket numbers on at once.
THEOREM SetsStayCurrent == Spec => []SetsCurrent
<1>1. SelectInv => SetsCurrent
  BY DEF SelectInv, CacheOk, SetsOk, SetsCurrent
<1> QED BY <1>1, SelectInvHolds, PTL

\* What ReadData finds in _clients under a reported socket is the connection
\* that was reported, alive and readable.
THEOREM ReportsStayTrue == Spec => []NoStaleReport
<1>1. SelectInv => NoStaleReport
  BY FaultAssumption DEF SelectInv, MapOk, SetsOk, Live, NoStaleReport, Joined, Entries
<1> QED BY <1>1, SelectInvHolds, PTL
=============================================================================
