--------------------------- MODULE TcpServerProofs ---------------------------
(* Theorems about TcpServer, for any number of workers, connections and    *)
(* socket numbers, any limit, either way of numbering sockets, and one or  *)
(* two starts.                                                             *)
EXTENDS TcpServer, FiniteSetTheorems, FunctionTheorems, TLAPS

\* TypeOK without the counters, which need an argument of their own.
ObjShapes == /\ st \in [Conns -> {"none", "accepted", "live", "refused", "freed"}]
             /\ sock \in [Conns -> Socks \cup {0}]
QueueShapes == /\ clientsBuff \in [Servers -> Seq(Conns)]
               /\ clients \in [Servers -> [Socks -> Conns \cup {NoConn}]]
WorkShapes == /\ run \in [Servers -> BOOLEAN] /\ pc \in [Servers -> WorkerPlaces]
              /\ cur \in [Servers -> Nat] /\ going \in [Servers -> Conns \cup {NoConn}]
AccShapes ==
  /\ accRun \in BOOLEAN /\ acc \in {"run", "poll", "new", "scan", "add"} \cup Ending
  /\ permits \in Nat /\ old \in {"none"} \cup Ending
  /\ accConn \in Conns \cup {NoConn} /\ accMin \in Servers /\ accIdx \in 1..(N + 1)
  /\ accRead \in 0..3 /\ accDiff \in Int
MainShapes ==
  /\ main \in {"open", "accept", "delete", "closed"} /\ deleting \in 0..N
  /\ waiting \in BOOLEAN /\ rushed \in BOOLEAN
  /\ runs \in 1..2 /\ failing \in Failures
Shapes == ObjShapes /\ QueueShapes /\ WorkShapes /\ AccShapes /\ MainShapes

\* The connections that hold a socket.
Present == {k \in Conns : st[k] \in {"accepted", "live"}}

\* The clients in the hands of a worker.
Held(s) == Joined(s) \cup Buffered(s) \cup ({going[s]} \ {NoConn})

\* The system gives a socket number to one connection at a time.
SocksInv ==
  /\ \A k \in Present : sock[k] \in Socks
  /\ \A j, k \in Present : sock[j] = sock[k] => j = k

\* What a worker holds was accepted, is held by one worker only, and is
\* once in its buffer.
QueueInv ==
  /\ \A s \in Servers : \A k \in Held(s) : st[k] \in {"live", "freed"}
  /\ \A s, t \in Servers : \A k \in Held(s) \cap Held(t) : s = t
  /\ \A s \in Servers : \A i, j \in 1..Len(clientsBuff[s]) :
       clientsBuff[s][i] = clientsBuff[s][j] => i = j

\* The entries that a worker has not removed yet although it deleted their clients.
Stale(s, f) == pc[s] = "cleared" \/ (pc[s] = "erase" /\ f = cur[s])

\* The map of a worker holds living clients under their own sockets, apart
\* from stale entries, and of its buffer what the join loop has passed.
MapInv(s) ==
  /\ \A f \in Entries(s) :
       IF Stale(s, f) THEN st[clients[s][f]] = "freed"
       ELSE st[clients[s][f]] = "live" /\ sock[clients[s][f]] = f
  /\ pc[s] = "stopped" => Entries(s) = {}
  /\ pc[s] \notin {"cleared", "stopped"} => \A k \in Buffered(s) : st[k] = "live"
  /\ pc[s] = "erase" => cur[s] \in Socks
  /\ pc[s] = "join" => cur[s] >= 1
  /\ pc[s] \in {"top", "serve"} => cur[s] = 0
  /\ \A i \in 1..Len(clientsBuff[s]) :
       clientsBuff[s][i] \in Joined(s) <=> pc[s] = "joined" \/ (pc[s] = "join" /\ i < cur[s])

\* The client that leaves still exists; it is in the map unless its entry
\* was erased first.
OutPlaces == {"leaving", "counted", "left"}
GoingInv(s) ==
  /\ pc[s] \in OutPlaces <=> going[s] # NoConn
  /\ going[s] # NoConn =>
       /\ st[going[s]] = "live" /\ going[s] \notin Buffered(s)
       /\ IF cur[s] = 0 THEN going[s] \notin Joined(s)
          ELSE cur[s] \in Entries(s) /\ clients[s][cur[s]] = going[s]

WorkerInv(s) == MapInv(s) /\ GoingInv(s)

\* The client that the accept thread has in its hands is held by no worker.
AccInv ==
  /\ acc \in {"new", "scan", "add"} <=> accConn # NoConn
  /\ accConn # NoConn => /\ st[accConn] = (IF acc = "new" THEN "accepted" ELSE "live")
                         /\ \A s \in Servers : accConn \notin Held(s)
  /\ acc = "scan" => accIdx \in 2..N

\* The workers end one after the other; without failures none ends by itself
\* and Close waits for each.
Dropping == {"clear", "cleared", "stopped"}
MainInv ==
  /\ main = "delete" => deleting \in Servers /\ ~run[deleting]
  /\ main = "delete" /\ ~waiting => pc[deleting] \in Dropping
  /\ \A s \in Servers :
       /\ main = "closed" \/ (main = "delete" /\ s < deleting) => pc[s] \in Dropping
       /\ pc[s] \in Dropping => ~run[s]
       /\ ~run[s] => pc[s] \in Dropping \/ (main = "delete" /\ s = deleting /\ waiting)
  /\ ~failing =>
       /\ main = "delete" => waiting
       /\ \A s \in Servers :
            /\ main = "closed" \/ (main = "delete" /\ s < deleting) => pc[s] = "stopped"
            /\ ~run[s] => main = "closed" \/ (main = "delete" /\ s <= deleting)

\* In the first start the accept thread has left its loop before a worker is
\* deleted.  Without failures Close waits for it, in a second start unless
\* it finds _isRun cleared.
AcceptInv ==
  /\ runs = 1 =>
       /\ old = "none" /\ (permits > 0 => acc \in {"clear", "end"})
       /\ main = "open" => accRun \/ acc \in Ending
       /\ main = "accept" => waiting \/ acc \in Ending
       /\ main \in {"delete", "closed"} => acc \in Ending
  /\ ~failing =>
       /\ old \in {"none", "clear", "end"} /\ (runs = 1 => ~rushed)
       /\ main \in {"open", "accept"} => permits = IF acc \in {"clear", "end"} THEN 1 ELSE 0
       /\ main = "open" => ~rushed /\ (runs = 1 => accRun /\ acc \notin Ending)
       /\ main = "accept" => (waiting <=> ~rushed)
       /\ main \in {"delete", "closed"} /\ ~rushed => permits = 0 /\ acc \in {"clear", "end"}

DataInv == SocksInv /\ QueueInv /\ (\A s \in Servers : WorkerInv(s)) /\ AccInv
OwnInv == Shapes /\ DataInv /\ MainInv /\ AcceptInv

\* No client, no connection and empty queues at the start.
LEMMA OwnInit == Init => OwnInv
<1> SUFFICES ASSUME Init PROVE OwnInv
  OBVIOUS
<1>1. Shapes
  <2>1. ObjShapes /\ QueueShapes
    BY DEF Init, ObjShapes, QueueShapes
  <2>2. WorkShapes
    BY DEF Init, WorkShapes, WorkerPlaces
  <2>3. 1 \in Servers /\ 1 \in 1..(N + 1) /\ 0 \in 0..N
    BY NAssumption DEF Servers
  <2>4. AccShapes
    BY <2>3 DEF Init, AccShapes, Ending
  <2>5. main = "open" /\ deleting = 0 /\ runs = 1
    BY DEF Init
  <2>6. waiting \in BOOLEAN /\ rushed \in BOOLEAN /\ failing \in Failures
    BY DEF Init
  <2> QED BY <2>1, <2>2, <2>3, <2>4, <2>5, <2>6 DEF Shapes, MainShapes
<1>2. \A s \in Servers : /\ Entries(s) = {} /\ Joined(s) = {} /\ Buffered(s) = {} /\ Held(s) = {}
                         /\ Len(clientsBuff[s]) = 0
  BY DEF Init, Entries, Joined, Buffered, Held
<1>3. Present = {}
  BY DEF Init, Present
<1>4. SocksInv /\ QueueInv
  BY <1>2, <1>3 DEF SocksInv, QueueInv
<1>5. \A s \in Servers : WorkerInv(s)
  BY <1>2 DEF WorkerInv, MapInv, GoingInv, OutPlaces, Init
<1>6. AccInv /\ MainInv /\ AcceptInv
  BY DEF Init, AccInv, MainInv, AcceptInv, Dropping, Ending
<1> QED BY <1>1, <1>4, <1>5, <1>6 DEF OwnInv, DataInv

-----------------------------------------------------------------------------
\* A size that the accept thread reads is a number.
LEMMA SizesAreInt ==
  ASSUME Shapes, NEW i \in 1..4, accIdx \in Servers
  PROVE  SizeRead(i) \in Int
<1>1. \A s \in Servers : Cardinality(Entries(s)) \in Nat /\ Len(clientsBuff[s]) \in Nat
  BY ConnAssumption, FS_Subset, FS_CardinalityType DEF Shapes, QueueShapes, Entries
<1>2. accMin \in Servers
  BY DEF Shapes, AccShapes
<1> QED BY <1>1, <1>2 DEF SizeRead

\* Types of what a step leaves alone.
LEMMA ShapesSame ==
  ASSUME Shapes
  PROVE  /\ UNCHANGED objVars => ObjShapes'
         /\ UNCHANGED queues => QueueShapes'
         /\ UNCHANGED workVars => WorkShapes'
         /\ UNCHANGED accVars => AccShapes'
         /\ UNCHANGED mainVars => MainShapes'
BY DEF Shapes, ObjShapes, QueueShapes, WorkShapes, AccShapes, MainShapes, objVars, queues, workVars, accVars,
       scanVars, mainVars

\* Every step of a worker keeps the types.
LEMMA WorkerShapes ==
  ASSUME OwnInv, NEW s \in Servers, Work(s) \/ Leaving(s) \/ WorkerFails(s)
  PROVE  Shapes'
<1> USE DEF Goto
<1>1. Shapes /\ ObjShapes /\ QueueShapes /\ WorkShapes
  BY DEF OwnInv, Shapes
<1>2. UNCHANGED <<accVars, mainVars>>
  BY DEF Work, Leaving, WorkerFails, LockJoin, Join, JoinLoopEnds, UnlockJoin, Serve, Leave, Remove,
         LeaveAccept, LeaveJoin, DeleteClient, Erase, Loop, WorkerStops, DeleteAll, EmptyQueues
<1>3. CASE \/ LockJoin(s) \/ JoinLoopEnds(s) \/ Serve(s) \/ Loop(s) \/ WorkerFails(s) \/ WorkerStops(s)
           \/ LeaveAccept(s) \/ LeaveJoin(s)
  <2>1. UNCHANGED <<objVars, queues>>
    BY <1>3 DEF LockJoin, JoinLoopEnds, Serve, Loop, WorkerFails, WorkerStops, LeaveAccept, LeaveJoin
  <2>2. /\ \E to \in WorkerPlaces : pc' = [pc EXCEPT ![s] = to]
        /\ run' \in {run, [run EXCEPT ![s] = FALSE]} /\ cur' \in {cur, [cur EXCEPT ![s] = 1]}
        /\ going' = going
    BY <1>3 DEF LockJoin, JoinLoopEnds, Serve, Loop, WorkerFails, WorkerStops, LeaveAccept, LeaveJoin,
                WorkerPlaces
  <2>3. pc' \in [Servers -> WorkerPlaces]
    BY <1>1, <2>2 DEF WorkShapes
  <2>4. run' \in [Servers -> BOOLEAN]
    BY <1>1, <2>2 DEF WorkShapes
  <2>5. cur' \in [Servers -> Nat]
    BY <1>1, <2>2 DEF WorkShapes
  <2> QED BY <1>1, <1>2, <2>1, <2>2, <2>3, <2>4, <2>5, ShapesSame DEF Shapes, WorkShapes
<1>4. CASE Join(s)
  <2>1. UNCHANGED objVars /\ clientsBuff' = clientsBuff /\ WorkShapes'
    BY <1>1, <1>4 DEF Join, WorkShapes
  <2>2. cur[s] \in 1..Len(clientsBuff[s])
    BY <1>1, <1>4 DEF OwnInv, DataInv, WorkerInv, MapInv, Join, WorkShapes, QueueShapes
  <2>3. clientsBuff[s][cur[s]] \in Conns
    BY <1>1, <2>2 DEF QueueShapes
  <2>4. QueueShapes'
    BY <1>1, <1>4, <2>1, <2>3 DEF Join, QueueShapes
  <2> QED BY <1>1, <1>2, <2>1, <2>4, ShapesSame DEF Shapes
<1>5. CASE UnlockJoin(s) \/ Erase(s) \/ EmptyQueues(s)
  <2>1. UNCHANGED objVars
    BY <1>5 DEF UnlockJoin, Erase, EmptyQueues
  <2>2. WorkShapes'
    BY <1>1, <1>5 DEF UnlockJoin, Erase, EmptyQueues, WorkShapes, WorkerPlaces
  <2>3. clientsBuff' \in [Servers -> Seq(Conns)]
    <3>1. clientsBuff' = clientsBuff \/ clientsBuff' = [clientsBuff EXCEPT ![s] = <<>>]
      BY <1>5 DEF UnlockJoin, Erase, EmptyQueues
    <3>2. clientsBuff \in [Servers -> Seq(Conns)] /\ <<>> \in Seq(Conns)
      BY <1>1 DEF QueueShapes
    <3> QED BY <3>1, <3>2
  <2>4. clients' \in [Servers -> [Socks -> Conns \cup {NoConn}]]
    <3>1. CASE UnlockJoin(s)
      BY <1>1, <3>1 DEF UnlockJoin, QueueShapes
    <3>2. CASE Erase(s)
      BY <1>1, <3>2 DEF Erase, QueueShapes
    <3>3. CASE EmptyQueues(s)
      BY <1>1, <3>3 DEF EmptyQueues, QueueShapes
    <3> QED BY <1>5, <3>1, <3>2, <3>3
  <2>5. QueueShapes'
    BY <2>3, <2>4 DEF QueueShapes
  <2> QED BY <1>1, <1>2, <2>1, <2>2, <2>5, ShapesSame DEF Shapes
<1>6. ASSUME NEW f \in Socks, Leave(s, f) \/ Remove(s, f) PROVE Shapes'
  <2>1. clients[s][f] \in Conns \cup {NoConn} /\ f \in Nat
    BY <1>1, ConnAssumption DEF QueueShapes
  <2>2. WorkShapes'
    BY <1>1, <1>6, <2>1 DEF Leave, Remove, WorkShapes, WorkerPlaces
  <2>3. /\ UNCHANGED <<objVars, clientsBuff>>
        /\ clients' = clients \/ clients' = [clients EXCEPT ![s][f] = NoConn]
    BY <1>6 DEF Leave, Remove, queues
  <2>5. clients' \in [Servers -> [Socks -> Conns \cup {NoConn}]]
    <3>1. CASE clients' = clients
      BY <1>1, <3>1 DEF QueueShapes
    <3>2. CASE clients' = [clients EXCEPT ![s][f] = NoConn]
      BY <1>1, <3>2 DEF QueueShapes
    <3> QED BY <2>3, <3>1, <3>2
  <2>4. QueueShapes'
    BY <1>1, <2>3, <2>5 DEF QueueShapes
  <2> QED BY <1>1, <1>2, <2>2, <2>3, <2>4, ShapesSame DEF Shapes
<1>7. CASE DeleteClient(s) \/ DeleteAll(s)
  <2>1. UNCHANGED queues /\ WorkShapes'
    BY <1>1, <1>7 DEF DeleteClient, DeleteAll, WorkShapes, WorkerPlaces
  <2>2. ObjShapes'
    BY <1>1, <1>7 DEF DeleteClient, DeleteAll, ObjShapes
  <2> QED BY <1>1, <1>2, <2>1, <2>2, ShapesSame DEF Shapes
<1> QED BY <1>3, <1>4, <1>5, <1>6, <1>7 DEF Work, Leaving

\* Every step keeps the types.
LEMMA ShapesStep == OwnInv /\ [Next]_vars => Shapes'
<1> SUFFICES ASSUME OwnInv, [Next]_vars PROVE Shapes'
  OBVIOUS
<1> USE DEF AccGoto, Ending, scanVars
<1>1. /\ Shapes /\ ObjShapes /\ QueueShapes /\ AccShapes /\ AccInv /\ N \in Nat /\ 1 \in Servers
      /\ MainShapes
      /\ acc = "scan" => accIdx \in Servers /\ accIdx \in 2..N
  BY NAssumption DEF OwnInv, DataInv, AccInv, Servers, Shapes
<1>2. CASE Poll \/ PollEnds \/ AcceptorStops \/ AcceptorFails \/ Wakeup \/ ClearRun
  <2>1. /\ acc' \in {"run", "poll"} \cup Ending \/ acc' = acc
        /\ old' = old \/ old' \in Ending
        /\ permits' = permits \/ permits' = permits + 1
        /\ accRun' = accRun \/ accRun' = FALSE
        /\ UNCHANGED scanVars
    BY <1>2 DEF Poll, PollEnds, AcceptorStops, AcceptorFails, Wakeup, ClearRun
  <2>4. accRun' \in BOOLEAN
    BY <1>1, <2>1 DEF AccShapes
  <2>5. permits' \in Nat
    BY <1>1, <2>1 DEF AccShapes
  <2>3. AccShapes'
    BY <1>1, <2>1, <2>4, <2>5 DEF AccShapes
  <2>2. UNCHANGED <<objVars, queues, workVars, mainVars>>
    BY <1>2 DEF Poll, PollEnds, AcceptorStops, AcceptorFails, Wakeup, ClearRun
  <2> QED BY <1>1, <2>2, <2>3, ShapesSame DEF Shapes
<1>3. ASSUME NEW k \in Conns, Refuse(k) \/ \E f \in Socks : Accept(k, f) PROVE Shapes'
  <2>1. ObjShapes' /\ AccShapes'
    BY <1>1, <1>3 DEF ObjShapes, AccShapes, Refuse, Accept
  <2>2. UNCHANGED <<queues, workVars, mainVars>>
    BY <1>3 DEF Refuse, Accept
  <2> QED BY <1>1, <2>1, <2>2, ShapesSame DEF Shapes
<1>4. CASE NewClient
  <2>1. 2 \in 1..(N + 1)
    BY <1>1 DEF Servers
  <2>2. ObjShapes' /\ AccShapes'
    BY <1>1, <1>4, <2>1 DEF ObjShapes, AccShapes, NewClient
  <2>3. UNCHANGED <<queues, workVars, mainVars>>
    BY <1>4 DEF NewClient
  <2> QED BY <1>1, <2>2, <2>3, ShapesSame DEF Shapes
<1>5. CASE ScanSize \/ ScanCompare
  <2>1. accDiff' \in Int /\ accRead' \in 0..3
    BY <1>1, <1>5, SizesAreInt DEF ScanSize, ScanCompare, AccShapes
  <2>2. accMin' \in Servers /\ accIdx' \in 1..(N + 1)
    BY <1>1, <1>5 DEF ScanSize, ScanCompare, AccShapes
  <2>3. AccShapes'
    BY <1>1, <1>5, <2>1, <2>2 DEF ScanSize, ScanCompare, AccShapes
  <2>4. UNCHANGED <<objVars, queues, workVars, mainVars>>
    BY <1>5 DEF ScanSize, ScanCompare
  <2> QED BY <1>1, <2>3, <2>4, ShapesSame DEF Shapes
<1>6. CASE AddClient
  <2>1. accConn \in Conns /\ accMin \in Servers /\ 1 \in 1..(N + 1)
    BY <1>1, <1>6 DEF AddClient, AccInv, AccShapes, Servers
  <2>2. QueueShapes' /\ AccShapes'
    BY <1>1, <1>6, <2>1 DEF AddClient, QueueShapes, AccShapes
  <2>3. UNCHANGED <<objVars, workVars, mainVars>>
    BY <1>6 DEF AddClient
  <2> QED BY <1>1, <2>2, <2>3, ShapesSame DEF Shapes
<1>7. ASSUME NEW s \in Servers, Work(s) \/ Leaving(s) \/ WorkerFails(s) PROVE Shapes'
  BY <1>7, WorkerShapes
<1>8. CASE CloseAccept \/ DestroySock
  <2>1. UNCHANGED <<objVars, queues, workVars>>
    BY <1>8 DEF CloseAccept, DestroySock
  <2>2. AccShapes' /\ MainShapes'
    BY <1>1, <1>8 DEF CloseAccept, DestroySock, AccShapes, MainShapes, accVars
  <2> QED BY <1>1, <2>1, <2>2, ShapesSame DEF Shapes
<1>9. ASSUME NEW s \in Servers, DeleteServer(s) PROVE Shapes'
  <2>1. permits' \in Nat /\ s \in 0..N
    BY <1>1, <1>9 DEF DeleteServer, AcceptClosed, AccShapes, Servers
  <2>2. UNCHANGED <<objVars, queues>>
    BY <1>9 DEF DeleteServer
  <2>3. WorkShapes'
    BY <1>1, <1>9 DEF DeleteServer, WorkShapes, Shapes
  <2>4. AccShapes' /\ MainShapes'
    BY <1>1, <1>9, <2>1, <2>3 DEF DeleteServer, AccShapes, MainShapes, WorkShapes, Shapes
  <2> QED BY <1>1, <2>2, <2>3, <2>4, ShapesSame DEF Shapes
<1>10. CASE Restart
  <2>1. runs' \in 1..2 /\ acc \in Ending
    BY <1>1, <1>10, NAssumption DEF Restart, MainShapes, OwnInv, AcceptInv
  <2>2. UNCHANGED objVars
    BY <1>10 DEF Restart
  <2>3. QueueShapes' /\ WorkShapes'
    BY <1>10 DEF Restart, QueueShapes, WorkShapes, WorkerPlaces
  <2>4. AccShapes'
    BY <1>1, <1>10, <2>1 DEF Restart, AccShapes
  <2>6. main' = "open" /\ deleting' = 0 /\ 0 \in 0..N
    BY <1>1, <1>10 DEF Restart
  <2>7. waiting' \in BOOLEAN /\ rushed' \in BOOLEAN /\ failing' \in Failures
    BY <1>1, <1>10 DEF Restart, MainShapes
  <2>5. MainShapes'
    BY <2>1, <2>6, <2>7 DEF MainShapes
  <2> QED BY <1>1, <2>2, <2>3, <2>4, <2>5, ShapesSame DEF Shapes
<1>11. CASE UNCHANGED vars
  BY <1>1, <1>11, ShapesSame DEF Shapes, vars
<1> QED BY <1>2, <1>3, <1>4, <1>5, <1>6, <1>7, <1>8, <1>9, <1>10, <1>11
        DEF Next, Acceptor, Connect, Closing

-----------------------------------------------------------------------------
\* What the steps of worker s do to its place and to its _isRun.
LEMMA WorkerGoes ==
  ASSUME OwnInv, NEW s \in Servers, Work(s) \/ Leaving(s) \/ WorkerFails(s)
  PROVE  \E to \in WorkerPlaces :
           /\ pc' = [pc EXCEPT ![s] = to] /\ pc[s] # "stopped"
           /\ pc[s] \in Dropping => to \in Dropping /\ to # "clear"
           /\ to \in Dropping /\ pc[s] \notin Dropping => to = "clear"
           /\ to \in Dropping => ~run'[s]
           /\ run' = run \/ (failing /\ to = "clear" /\ run' = [run EXCEPT ![s] = FALSE])
           /\ UNCHANGED <<accVars, mainVars>>
<1> USE DEF Goto, WorkerPlaces, Dropping
<1>1. /\ WorkShapes /\ pc[s] \in WorkerPlaces /\ pc = [pc EXCEPT ![s] = pc[s]]
      /\ pc[s] \in Dropping => ~run[s]
  BY DEF OwnInv, Shapes, WorkShapes, MainInv
<1>2. CASE \/ LockJoin(s) \/ JoinLoopEnds(s) \/ UnlockJoin(s) \/ Serve(s) \/ LeaveAccept(s)
           \/ LeaveJoin(s) \/ DeleteClient(s) \/ Erase(s) \/ Loop(s) \/ Leaving(s)
  BY <1>1, <1>2 DEF LockJoin, JoinLoopEnds, UnlockJoin, Serve, LeaveAccept, LeaveJoin, DeleteClient,
                    Erase, Loop, Leaving, Leave, Remove
<1>3. CASE Join(s)
  BY <1>1, <1>3 DEF Join
<1>4. CASE WorkerStops(s) \/ DeleteAll(s) \/ EmptyQueues(s)
  BY <1>1, <1>4 DEF WorkerStops, ShouldStop, DeleteAll, EmptyQueues
<1>5. CASE WorkerFails(s)
  <2>1. run' = [run EXCEPT ![s] = FALSE] /\ ~run'[s]
    BY <1>1, <1>5 DEF WorkerFails, WorkShapes
  <2> QED BY <1>5, <2>1 DEF WorkerFails
<1> QED BY <1>2, <1>3, <1>4, <1>5 DEF Work

\* The workers keep the order in which the server ends.
LEMMA WorkerKeepsOrder ==
  ASSUME OwnInv, NEW s \in Servers, Work(s) \/ Leaving(s) \/ WorkerFails(s)
  PROVE  MainInv' /\ AcceptInv'
<1>1. PICK to \in WorkerPlaces :
           /\ pc' = [pc EXCEPT ![s] = to] /\ pc[s] # "stopped"
           /\ pc[s] \in Dropping => to \in Dropping /\ to # "clear"
           /\ to \in Dropping /\ pc[s] \notin Dropping => to = "clear"
           /\ to \in Dropping => ~run'[s]
           /\ run' = run \/ (failing /\ to = "clear" /\ run' = [run EXCEPT ![s] = FALSE])
           /\ UNCHANGED <<accVars, mainVars>>
  BY WorkerGoes
<1>2. MainInv /\ AcceptInv /\ WorkShapes
  BY DEF OwnInv, Shapes
<1>3. /\ pc'[s] = to /\ \A t \in Servers \ {s} : pc'[t] = pc[t] /\ run'[t] = run[t]
      /\ run[s] = FALSE => run'[s] = FALSE
  BY <1>1, <1>2 DEF WorkShapes
<1>4. AcceptInv'
  BY <1>1, <1>2 DEF AcceptInv, accVars, mainVars
<1>5. UNCHANGED <<main, deleting, waiting, failing>>
  BY <1>1 DEF mainVars
<1>6. main = "delete" => deleting \in Servers /\ ~run'[deleting]
  BY <1>2, <1>3 DEF MainInv
<1>7. \A t \in Servers : pc[t] \in Dropping => pc'[t] \in Dropping
  BY <1>1, <1>3
<1>8. \A t \in Servers : pc[t] = "stopped" => pc'[t] = "stopped"
  BY <1>1, <1>3
<1>9. \A t \in Servers :
        /\ pc'[t] \in Dropping => ~run'[t]
        /\ ~run'[t] => pc'[t] \in Dropping \/ (main = "delete" /\ t = deleting /\ waiting)
  <2>1. /\ pc'[s] \in Dropping => ~run'[s]
        /\ ~run'[s] => pc'[s] \in Dropping \/ (main = "delete" /\ s = deleting /\ waiting)
    <3>1. CASE run' = run
      BY <1>1, <1>2, <1>3, <1>7, <3>1 DEF MainInv
    <3>2. CASE to = "clear"
      BY <1>1, <1>3, <3>2 DEF Dropping
    <3> QED BY <1>1, <3>1, <3>2
  <2>2. ASSUME NEW t \in Servers \ {s}
        PROVE  /\ pc'[t] \in Dropping => ~run'[t]
               /\ ~run'[t] => pc'[t] \in Dropping \/ (main = "delete" /\ t = deleting /\ waiting)
    BY <1>2, <1>3 DEF MainInv
  <2> QED BY <2>1, <2>2
<1>10. ~failing => run' = run
  BY <1>1
<1>11. MainInv'
  BY <1>2, <1>5, <1>6, <1>7, <1>8, <1>9, <1>10 DEF MainInv
<1> QED BY <1>4, <1>11

\* The owner deletes the next worker, or the first.
LEMMA DeleteKeepsOrder ==
  ASSUME OwnInv, NEW s \in Servers, DeleteServer(s)
  PROVE  MainInv' /\ AcceptInv'
<1>1. /\ MainInv /\ AcceptInv /\ WorkShapes /\ permits \in Nat /\ N \in Nat /\ s \in 1..N /\ deleting \in 0..N
  BY NAssumption DEF OwnInv, Shapes, Servers, AccShapes, MainShapes
<1>2. /\ main' = "delete" /\ deleting' = s /\ waiting' = run[s] /\ run' = [run EXCEPT ![s] = FALSE]
      /\ UNCHANGED <<pc, acc, accRun, old, rushed, runs, failing>>
  BY DEF DeleteServer
<1>3. ~run'[s] /\ \A t \in Servers \ {s} : run'[t] = run[t]
  BY <1>1, <1>2 DEF WorkShapes
<1>4. CASE main = "accept" /\ AcceptClosed /\ s = 1 /\ permits' = IF waiting THEN permits - 1 ELSE permits
  <2>1. \A t \in Servers : ~(t < s)
    BY <1>1, <1>4 DEF Servers
  <2>2. \A t \in Servers : pc[t] \in Dropping <=> ~run[t]
    BY <1>1, <1>4 DEF MainInv
  <2>3. ~failing => run[s]
    BY <1>1, <1>4 DEF MainInv
  <2>4. \A t \in Servers : ~failing => run[t]
    BY <1>1, <1>4 DEF MainInv
  <2>5. \A t \in Servers : t <= s <=> t = s
    BY <1>1, <1>4 DEF Servers
  <2>6. MainInv'
    BY <1>1, <1>2, <1>3, <2>1, <2>2, <2>3, <2>4, <2>5 DEF MainInv, Dropping
  <2>7. permits' \in Nat /\ (permits' > 0 => permits > 0)
    BY <1>1, <1>4 DEF AcceptClosed
  <2>8. ~failing /\ ~rushed => permits' = 0 /\ acc \in {"clear", "end"}
    BY <1>1, <1>4 DEF AcceptInv, AcceptClosed
  <2>9. runs = 1 => acc \in Ending
    BY <1>1, <1>4 DEF AcceptInv, AcceptClosed, Ending
  <2>10. AcceptInv'
    BY <1>1, <1>2, <2>7, <2>8, <2>9 DEF AcceptInv
  <2> QED BY <2>6, <2>10
<1>5. CASE main = "delete" /\ WorkerClosed /\ s = deleting + 1 /\ permits' = permits
  <2>1. pc[deleting] \in Dropping /\ deleting \in Servers
    BY <1>1, <1>5 DEF MainInv, WorkerClosed, Dropping
  <2>2. \A t \in Servers : t < s => t < deleting \/ t = deleting
    BY <1>1, <1>5 DEF Servers
  <2>3. \A t \in Servers : t < s => pc[t] \in Dropping
    BY <1>1, <1>5, <2>1, <2>2 DEF MainInv
  <2>4. ~failing => pc[deleting] = "stopped"
    BY <1>1, <1>5 DEF MainInv, WorkerClosed
  <2>5. ~failing => \A t \in Servers : t < s => pc[t] = "stopped"
    BY <1>1, <1>5, <2>2, <2>4 DEF MainInv
  <2>6. s # deleting /\ ~(s <= deleting) /\ \A t \in Servers : t <= deleting => t <= s
    BY <1>1, <1>5 DEF Servers
  <2>7. ~failing => run[s]
    BY <1>1, <1>5, <2>6 DEF MainInv
  <2>8. ~run[s] => pc[s] \in Dropping
    BY <1>1, <1>5, <2>6 DEF MainInv
  <2>9. \A t \in Servers : ~run[t] /\ t # s => pc[t] \in Dropping
    BY <1>1, <1>5, <2>1 DEF MainInv
  <2>10. \A t \in Servers : pc[t] \in Dropping => ~run'[t]
    BY <1>1, <1>3 DEF MainInv
  <2>11. \A t \in Servers : ~failing /\ ~run'[t] => t <= s
    BY <1>1, <1>3, <1>5, <2>6 DEF MainInv, Servers
  <2>12. \A t \in Servers : ~run'[t] => pc[t] \in Dropping \/ (t = s /\ run[s])
    BY <1>3, <2>8, <2>9
  <2>13. MainInv'
    BY <1>2, <1>3, <2>3, <2>5, <2>7, <2>8, <2>10, <2>11, <2>12 DEF MainInv
  <2>14. AcceptInv'
    BY <1>1, <1>2, <1>5 DEF AcceptInv
  <2> QED BY <2>13, <2>14
<1> QED BY <1>4, <1>5 DEF DeleteServer, AcceptClosed, WorkerClosed

\* Every step keeps the order in which the server ends.
LEMMA OrderStep == OwnInv /\ [Next]_vars => MainInv' /\ AcceptInv'
<1> SUFFICES ASSUME OwnInv, [Next]_vars PROVE MainInv' /\ AcceptInv'
  OBVIOUS
<1> USE DEF AccGoto, Ending
<1>1. /\ MainInv /\ AcceptInv /\ AccInv /\ permits \in Nat /\ N \in Nat \ {0} /\ WorkShapes /\ runs \in 1..2
      /\ acc \in {"run", "poll", "new", "scan", "add", "wake", "clear", "end"}
  BY NAssumption DEF OwnInv, DataInv, Shapes, AccShapes, MainShapes
<1>2. CASE \/ Poll \/ PollEnds \/ NewClient \/ ScanSize \/ ScanCompare \/ AddClient
           \/ \E k \in Conns : Refuse(k) \/ \E f \in Socks : Accept(k, f)
  <2>1. /\ acc \notin Ending /\ acc' \notin Ending
        /\ UNCHANGED <<pc, run, accRun, permits, old, mainVars>>
    BY <1>2 DEF Poll, PollEnds, NewClient, ScanSize, ScanCompare, AddClient, Refuse, Accept, Connecting, workVars
  <2>2. MainInv'
    BY <1>1, <2>1 DEF MainInv, mainVars
  <2>3. AcceptInv'
    BY <1>1, <2>1 DEF AcceptInv, mainVars
  <2> QED BY <2>2, <2>3
<1>3. CASE AcceptorStops \/ AcceptorFails
  <2>1. /\ acc \in {"run", "poll"} /\ acc' = "wake"
        /\ UNCHANGED <<pc, run, permits, old, mainVars>>
    BY <1>3 DEF AcceptorStops, AcceptorFails, workVars
  <2>2. MainInv'
    BY <1>1, <2>1 DEF MainInv, mainVars
  <2>3. failing \/ (accRun' = accRun /\ ~accRun)
    BY <1>3 DEF AcceptorStops, AcceptorFails
  <2>4. UNCHANGED <<main, waiting, rushed, runs, failing>>
    BY <2>1 DEF mainVars
  <2>5. AcceptInv'
    <3>1. runs = 1 => ~(permits > 0) /\ old = "none" /\ main \notin {"delete", "closed"}
      BY <1>1, <2>1 DEF AcceptInv
    <3>2. ASSUME ~failing PROVE main # "open" \/ runs # 1
      BY <1>1, <2>3, <3>2 DEF AcceptInv
    <3> QED BY <1>1, <2>1, <2>4, <3>1, <3>2 DEF AcceptInv
  <2> QED BY <2>2, <2>5
<1>4. CASE Wakeup
  <2>1. /\ \/ acc = "wake" /\ acc' = "clear" /\ UNCHANGED old
           \/ old = "wake" /\ old' = "clear" /\ UNCHANGED acc
        /\ permits' = permits + 1 /\ UNCHANGED <<pc, run, accRun, mainVars>>
    BY <1>4 DEF Wakeup, workVars
  <2>2. MainInv'
    BY <1>1, <2>1 DEF MainInv, mainVars
  <2>3. AcceptInv'
    BY <1>1, <2>1 DEF AcceptInv, mainVars
  <2> QED BY <2>2, <2>3
<1>5. CASE ClearRun
  <2>1. /\ \/ acc = "clear" /\ acc' = "end" /\ UNCHANGED old
           \/ old = "clear" /\ old' = "end" /\ UNCHANGED acc
        /\ accRun' = FALSE /\ UNCHANGED <<pc, run, permits, mainVars>>
    BY <1>5 DEF ClearRun, workVars
  <2>2. MainInv'
    BY <1>1, <2>1 DEF MainInv, mainVars
  <2>3. AcceptInv'
    BY <1>1, <2>1 DEF AcceptInv, mainVars
  <2> QED BY <2>2, <2>3
<1>6. ASSUME NEW s \in Servers, Work(s) \/ Leaving(s) \/ WorkerFails(s) PROVE MainInv' /\ AcceptInv'
  BY <1>6, WorkerKeepsOrder
<1>7. CASE CloseAccept
  <2>1. /\ main = "open" /\ main' = "accept" /\ accRun' = FALSE /\ waiting' = accRun /\ rushed' = ~accRun
        /\ UNCHANGED <<pc, run, acc, permits, old, deleting, runs, failing>>
    BY <1>7 DEF CloseAccept, workVars
  <2>2. MainInv'
    BY <1>1, <2>1 DEF MainInv
  <2>3. AcceptInv'
    BY <1>1, <2>1 DEF AcceptInv
  <2> QED BY <2>2, <2>3
<1>8. ASSUME NEW s \in Servers, DeleteServer(s) PROVE MainInv' /\ AcceptInv'
  BY <1>8, DeleteKeepsOrder
<1>9. CASE DestroySock
  <2>1. /\ main = "delete" /\ (waiting => pc[deleting] = "stopped") /\ deleting = N /\ main' = "closed"
        /\ UNCHANGED <<pc, run, accRun, acc, permits, old, deleting, rushed, runs, failing>>
    BY <1>9 DEF DestroySock, WorkerClosed, workVars, accVars
  <2>2. \A t \in Servers : t = N \/ t < N
    BY <1>1 DEF Servers
  <2>3. pc[deleting] \in Dropping /\ (~failing => pc[deleting] = "stopped")
    BY <1>1, <2>1 DEF MainInv, Dropping
  <2>4. \A t \in Servers : pc[t] \in Dropping /\ (~failing => pc[t] = "stopped")
    BY <1>1, <2>1, <2>2, <2>3 DEF MainInv
  <2>5. MainInv'
    BY <1>1, <2>1, <2>4 DEF MainInv
  <2>6. AcceptInv'
    BY <1>1, <2>1 DEF AcceptInv
  <2> QED BY <2>5, <2>6
<1>10. CASE Restart
  <2>1. /\ main = "closed" /\ runs = 1 /\ runs' = 2
        /\ run' = [s \in Servers |-> TRUE] /\ pc' = [s \in Servers |-> "top"]
        /\ accRun' = TRUE /\ acc' = "run" /\ old' = acc /\ main' = "open" /\ rushed' = FALSE
        /\ UNCHANGED <<permits, waiting, failing>>
    BY <1>1, <1>10, NAssumption DEF Restart
  <2>2. MainInv'
    BY <2>1 DEF MainInv, Dropping
  <2>3. AcceptInv'
    BY <1>1, <2>1 DEF AcceptInv
  <2> QED BY <2>2, <2>3
<1>11. CASE UNCHANGED vars
  <2>1. UNCHANGED <<pc, run, accRun, acc, permits, old, mainVars>>
    BY <1>11 DEF vars, workVars, accVars
  <2> QED BY <1>1, <2>1 DEF MainInv, AcceptInv, mainVars
<1> QED BY <1>2, <1>3, <1>4, <1>5, <1>6, <1>7, <1>8, <1>9, <1>10, <1>11
        DEF Next, Acceptor, Connect, Closing


-----------------------------------------------------------------------------
\* The views of the queues depend on the queues and on going alone.
LEMMA SameQueues ==
  ASSUME UNCHANGED <<queues, going>>
  PROVE  \A s : Entries(s)' = Entries(s) /\ Joined(s)' = Joined(s) /\ Buffered(s)' = Buffered(s)
                /\ Held(s)' = Held(s)
<1>1. \A s : Entries(s)' = Entries(s) /\ Joined(s)' = Joined(s) /\ Buffered(s)' = Buffered(s)
  BY DEF Entries, Joined, Buffered, queues
<1> QED BY <1>1 DEF Held

\* What a worker holds is a connection.
LEMMA HeldAreConns ==
  ASSUME Shapes, NEW s \in Servers
  PROVE  /\ Held(s) \subseteq Conns /\ Joined(s) \subseteq Held(s) /\ Buffered(s) \subseteq Held(s)
         /\ Entries(s) \subseteq Socks
         /\ \A f \in Entries(s) : clients[s][f] \in Joined(s) /\ clients[s][f] \in Conns
         /\ going[s] # NoConn => going[s] \in Held(s)
<1>1. /\ clientsBuff[s] \in Seq(Conns) /\ clients[s] \in [Socks -> Conns \cup {NoConn}]
      /\ going[s] \in Conns \cup {NoConn}
  BY DEF Shapes, QueueShapes, WorkShapes
<1>2. Buffered(s) \subseteq Conns
  BY <1>1 DEF Buffered
<1> QED BY <1>1, <1>2 DEF Held, Joined, Entries

\* A worker keeps its invariant when its queues, its place and the clients it
\* holds stay as they are.
LEMMA OtherOk ==
  ASSUME Shapes, NEW s \in Servers, WorkerInv(s),
         clientsBuff'[s] = clientsBuff[s], clients'[s] = clients[s],
         pc'[s] = pc[s], cur'[s] = cur[s], going'[s] = going[s],
         \A k \in Held(s) : st'[k] = st[k] /\ sock'[k] = sock[k]
  PROVE  WorkerInv(s)' /\ Held(s)' = Held(s)
<1>1. Entries(s)' = Entries(s) /\ Joined(s)' = Joined(s) /\ Buffered(s)' = Buffered(s)
  BY DEF Entries, Joined, Buffered
<1>2. /\ \A f \in Entries(s) : clients[s][f] \in Held(s)
      /\ Buffered(s) \subseteq Held(s) /\ (going[s] # NoConn => going[s] \in Held(s))
  BY HeldAreConns
<1>3. \A f : Stale(s, f)' <=> Stale(s, f)
  BY DEF Stale
<1>4. MapInv(s)'
  BY <1>1, <1>2, <1>3 DEF WorkerInv, MapInv
<1>5. GoingInv(s)'
  BY <1>1, <1>2 DEF WorkerInv, GoingInv
<1> QED BY <1>1, <1>4, <1>5 DEF WorkerInv, Held

\* The accept thread and the owner: no client moves.
LEMMA QuietOk ==
  ASSUME OwnInv, UNCHANGED <<objVars, queues, pc, cur, going, accConn>>,
         acc' = acc \/ {acc, acc'} \subseteq {"scan", "add"}
                    \/ {acc, acc'} \cap {"new", "scan", "add"} = {},
         acc' = "scan" => accIdx' \in 2..N
  PROVE  DataInv'
<1>1. /\ Shapes /\ SocksInv /\ QueueInv /\ AccInv /\ \A s \in Servers : WorkerInv(s)
      /\ st' = st /\ sock' = sock /\ clients' = clients /\ clientsBuff' = clientsBuff
  BY DEF OwnInv, DataInv, objVars, queues
<1>2. \A s \in Servers : WorkerInv(s)' /\ Held(s)' = Held(s)
  BY <1>1, OtherOk
<1>3. SocksInv'
  BY <1>1 DEF SocksInv, Present
<1>4. QueueInv'
  BY <1>1, <1>2 DEF QueueInv
<1>5. AccInv'
  BY <1>1, <1>2 DEF AccInv
<1> QED BY <1>2, <1>3, <1>4, <1>5 DEF DataInv

\* The steps of the accept thread and of the owner that move no client.
LEMMA QuietSteps ==
  ASSUME OwnInv, \/ Poll \/ PollEnds \/ ScanSize \/ ScanCompare \/ AcceptorStops \/ AcceptorFails
                 \/ Wakeup \/ ClearRun \/ CloseAccept \/ Closing \/ UNCHANGED vars
  PROVE  DataInv' /\ UNCHANGED <<objVars, counters, queues, pc, cur, going, accConn, runs, failing>>
<1> USE DEF AccGoto
<1>1. AccInv /\ AccShapes /\ N \in Nat
  BY NAssumption DEF OwnInv, DataInv, Shapes
<1>2. CASE Poll \/ PollEnds \/ AcceptorStops \/ AcceptorFails \/ Wakeup \/ ClearRun
  <2>1. /\ UNCHANGED <<objVars, counters, queues, pc, cur, going, accConn, runs, failing>>
        /\ acc' = acc \/ {acc, acc'} \cap {"new", "scan", "add"} = {}
        /\ acc' # "scan" \/ (acc' = acc /\ accIdx' = accIdx)
    BY <1>2 DEF Poll, PollEnds, AcceptorStops, AcceptorFails, Wakeup, ClearRun, workVars, scanVars, mainVars
  <2> QED BY <1>1, <2>1, QuietOk DEF AccInv
<1>3. CASE ScanSize \/ ScanCompare
  <2>1. /\ UNCHANGED <<objVars, counters, queues, pc, cur, going, accConn, runs, failing>>
        /\ {acc, acc'} \subseteq {"scan", "add"}
    BY <1>3 DEF ScanSize, ScanCompare, workVars, mainVars
  <2>2. acc' = "scan" => accIdx' \in 2..N
    BY <1>1, <1>3 DEF ScanSize, ScanCompare, AccInv
  <2> QED BY <2>1, <2>2, QuietOk
<1>4. CASE CloseAccept \/ Closing \/ UNCHANGED vars
  <2>1. /\ UNCHANGED <<objVars, counters, queues, pc, cur, going, accConn, runs, failing>>
        /\ UNCHANGED <<acc, accIdx>>
    BY <1>4 DEF CloseAccept, Closing, DeleteServer, DestroySock, vars, workVars, accVars, scanVars, mainVars
  <2> QED BY <1>1, <2>1, QuietOk DEF AccInv
<1> QED BY <1>2, <1>3, <1>4

\* A connection over the limit is closed at once.
LEMMA RefuseOk == ASSUME OwnInv, NEW k \in Conns, Refuse(k) PROVE DataInv' /\ Present' = Present
<1>1. /\ Shapes /\ SocksInv /\ QueueInv /\ AccInv /\ (\A s \in Servers : WorkerInv(s))
      /\ st \in [Conns -> {"none", "accepted", "live", "refused", "freed"}]
      /\ acc = "poll" /\ acc' = "run" /\ st[k] = "none" /\ st' = [st EXCEPT ![k] = "refused"]
      /\ UNCHANGED <<sock, queues, workVars, scanVars>>
  BY DEF OwnInv, DataInv, Refuse, Connecting, AccGoto, Shapes, ObjShapes
<1>2. Present' = Present /\ \A j \in Conns \ {k} : st'[j] = st[j]
  BY <1>1 DEF Present
<1>3. \A s \in Servers : \A j \in Held(s) : st'[j] = st[j] /\ sock'[j] = sock[j]
  BY <1>1, HeldAreConns DEF QueueInv
<1>4. \A s \in Servers : WorkerInv(s)' /\ Held(s)' = Held(s)
  BY <1>1, <1>3, OtherOk DEF queues, workVars
<1>5. SocksInv'
  BY <1>1, <1>2 DEF SocksInv
<1>6. QueueInv'
  BY <1>1, <1>3, <1>4 DEF QueueInv, queues
<1>7. AccInv'
  BY <1>1 DEF AccInv, scanVars
<1> QED BY <1>2, <1>4, <1>5, <1>6, <1>7 DEF DataInv

\* A connection below the limit is in the hands of the accept thread.
LEMMA AcceptOk ==
  ASSUME OwnInv, NEW k \in Conns, NEW f \in Socks, Accept(k, f)
  PROVE  DataInv' /\ Present' = Present \cup {k} /\ k \notin Present
<1>1. /\ Shapes /\ SocksInv /\ QueueInv /\ AccInv /\ (\A s \in Servers : WorkerInv(s))
      /\ st \in [Conns -> {"none", "accepted", "live", "refused", "freed"}]
      /\ sock \in [Conns -> Socks \cup {0}]
      /\ acc = "poll" /\ acc' = "new" /\ st[k] = "none" /\ f \in FreeSocks
      /\ st' = [st EXCEPT ![k] = "accepted"] /\ sock' = [sock EXCEPT ![k] = f] /\ accConn' = k
      /\ UNCHANGED <<queues, workVars>>
  BY DEF OwnInv, DataInv, Accept, Connecting, NextSock, AccGoto, Shapes, ObjShapes
<1>2. /\ Present' = Present \cup {k} /\ k \notin Present /\ sock'[k] = f /\ st'[k] = "accepted"
      /\ k # NoConn
  BY <1>1, ConnAssumption DEF Present
<1>3. \A j \in Present : sock'[j] = sock[j] /\ sock[j] # f
  BY <1>1, <1>2 DEF FreeSocks, Present
<1>4. \A s \in Servers : k \notin Held(s) /\ \A j \in Held(s) : st'[j] = st[j] /\ sock'[j] = sock[j]
  BY <1>1, HeldAreConns DEF QueueInv
<1>5. \A s \in Servers : WorkerInv(s)' /\ Held(s)' = Held(s)
  BY <1>1, <1>4, OtherOk DEF queues, workVars
<1>6. SocksInv'
  BY <1>1, <1>2, <1>3 DEF SocksInv
<1>7. QueueInv'
  BY <1>1, <1>4, <1>5 DEF QueueInv, queues
<1>8. AccInv'
  BY <1>1, <1>2, <1>4, <1>5 DEF AccInv
<1> QED BY <1>2, <1>5, <1>6, <1>7, <1>8 DEF DataInv

\* Its Client is created.
LEMMA NewClientOk == ASSUME OwnInv, NewClient PROVE DataInv' /\ Present' = Present
<1>1. /\ Shapes /\ SocksInv /\ QueueInv /\ AccInv /\ (\A s \in Servers : WorkerInv(s))
      /\ st \in [Conns -> {"none", "accepted", "live", "refused", "freed"}]
      /\ acc = "new" /\ acc' \in {"scan", "add"} /\ (acc' = "scan" => N # 1)
      /\ st' = [st EXCEPT ![accConn] = "live"] /\ accIdx' = 2
      /\ UNCHANGED <<sock, queues, workVars, accConn>>
  BY DEF OwnInv, DataInv, NewClient, AccGoto, Shapes, ObjShapes
<1>2. /\ accConn \in Conns /\ accConn # NoConn /\ st[accConn] = "accepted" /\ st'[accConn] = "live"
      /\ \A j \in Conns \ {accConn} : st'[j] = st[j]
      /\ \A s \in Servers : accConn \notin Held(s)
  BY <1>1 DEF AccInv, Shapes, AccShapes
<1>3. Present' = Present
  BY <1>1, <1>2 DEF Present
<1>4. \A s \in Servers : \A j \in Held(s) : st'[j] = st[j] /\ sock'[j] = sock[j]
  BY <1>1, <1>2, HeldAreConns
<1>5. \A s \in Servers : WorkerInv(s)' /\ Held(s)' = Held(s)
  BY <1>1, <1>4, OtherOk DEF queues, workVars
<1>6. SocksInv'
  BY <1>1, <1>3 DEF SocksInv
<1>7. QueueInv'
  BY <1>1, <1>4, <1>5 DEF QueueInv, queues
<1>8. acc' = "scan" => accIdx' \in 2..N
  BY <1>1, NAssumption
<1>9. AccInv'
  BY <1>1, <1>2, <1>5, <1>8 DEF AccInv
<1> QED BY <1>3, <1>5, <1>6, <1>7, <1>9 DEF DataInv

\* A client more in the buffer of a worker.
LEMMA BufferedMore ==
  ASSUME Shapes, NEW s \in Servers, NEW k \in Conns,
         clientsBuff' = [clientsBuff EXCEPT ![s] = Append(@, k)], clients' = clients, going' = going
  PROVE  /\ Buffered(s)' = Buffered(s) \cup {k} /\ Held(s)' = Held(s) \cup {k}
         /\ Joined(s)' = Joined(s) /\ Entries(s)' = Entries(s)
         /\ Len(clientsBuff'[s]) = Len(clientsBuff[s]) + 1 /\ Len(clientsBuff[s]) \in Nat
         /\ \A i \in 1..Len(clientsBuff[s]) : clientsBuff'[s][i] = clientsBuff[s][i]
         /\ clientsBuff'[s][Len(clientsBuff'[s])] = k
         /\ \A t \in Servers \ {s} : clientsBuff'[t] = clientsBuff[t] /\ Held(t)' = Held(t)
                                     /\ Buffered(t)' = Buffered(t)
<1>0. clientsBuff \in [Servers -> Seq(Conns)]
  BY DEF Shapes, QueueShapes
<1>1. clientsBuff[s] \in Seq(Conns) /\ clientsBuff'[s] = Append(clientsBuff[s], k)
  BY <1>0
<1>2. /\ Len(clientsBuff'[s]) = Len(clientsBuff[s]) + 1 /\ Len(clientsBuff[s]) \in Nat
      /\ \A i \in 1..Len(clientsBuff[s]) : clientsBuff'[s][i] = clientsBuff[s][i]
      /\ clientsBuff'[s][Len(clientsBuff[s]) + 1] = k
  BY <1>1
<1>3. Buffered(s)' = Buffered(s) \cup {k}
  <2>1. ASSUME NEW j \in Buffered(s)' PROVE j \in Buffered(s) \cup {k}
    <3>1. PICK i \in 1..Len(clientsBuff'[s]) : j = clientsBuff'[s][i]
      BY <2>1 DEF Buffered
    <3>2. CASE i = Len(clientsBuff[s]) + 1
      BY <1>2, <3>1, <3>2
    <3>3. CASE i \in 1..Len(clientsBuff[s])
      BY <1>2, <3>1, <3>3 DEF Buffered
    <3> QED BY <1>2, <3>2, <3>3
  <2>2. Len(clientsBuff[s]) + 1 \in 1..Len(clientsBuff'[s])
    BY <1>2
  <2>3. k \in Buffered(s)'
    BY <1>2, <2>2 DEF Buffered
  <2>4. \A i \in 1..Len(clientsBuff[s]) : i \in 1..Len(clientsBuff'[s])
    BY <1>2
  <2>5. Buffered(s) \subseteq Buffered(s)'
    BY <1>2, <2>4 DEF Buffered
  <2> QED BY <2>1, <2>3, <2>5
<1>4. Joined(s)' = Joined(s) /\ Entries(s)' = Entries(s)
  BY DEF Joined, Entries
<1>5. \A t \in Servers \ {s} : clientsBuff'[t] = clientsBuff[t] /\ Held(t)' = Held(t)
                               /\ Buffered(t)' = Buffered(t)
  BY <1>0 DEF Held, Joined, Entries, Buffered
<1> QED BY <1>2, <1>3, <1>4, <1>5 DEF Held

\* The accept thread hands its client to the worker it chose.
LEMMA AddOk == ASSUME OwnInv, AddClient PROVE DataInv'
<1>0. PICK s \in Servers, k \in Conns : s = accMin /\ k = accConn
  BY DEF OwnInv, Shapes, AccShapes, DataInv, AccInv, AddClient
<1> DEFINE n == Len(clientsBuff[s])
<1>1. /\ Shapes /\ (\A t \in Servers : WorkerInv(t)) /\ SocksInv /\ QueueInv /\ AccInv
      /\ acc = "add" /\ pc[s] \notin {"join", "joined"}
      /\ clientsBuff' = [clientsBuff EXCEPT ![s] = Append(@, k)]
      /\ acc' = "run" /\ accConn' = NoConn
      /\ st' = st /\ sock' = sock /\ UNCHANGED <<clients, pc, cur, going>>
  BY <1>0 DEF OwnInv, DataInv, AddClient, Locked, AccGoto, workVars, objVars
<1>2. st[k] = "live" /\ k # NoConn /\ \A t \in Servers : k \notin Held(t)
  BY <1>0, <1>1, ConnAssumption DEF AccInv
<1>3. /\ Buffered(s)' = Buffered(s) \cup {k} /\ Held(s)' = Held(s) \cup {k}
      /\ Joined(s)' = Joined(s) /\ Entries(s)' = Entries(s)
      /\ Len(clientsBuff'[s]) = n + 1 /\ n \in Nat
      /\ \A i \in 1..n : clientsBuff'[s][i] = clientsBuff[s][i]
      /\ clientsBuff'[s][n + 1] = k
      /\ \A t \in Servers \ {s} : clientsBuff'[t] = clientsBuff[t] /\ Held(t)' = Held(t)
  <2>1. clients' = clients /\ going' = going
    BY <1>1
  <2>2. clientsBuff' = [clientsBuff EXCEPT ![s] = Append(@, k)] /\ Shapes
    BY <1>1
  <2>3. /\ Buffered(s)' = Buffered(s) \cup {k} /\ Held(s)' = Held(s) \cup {k}
        /\ Joined(s)' = Joined(s) /\ Entries(s)' = Entries(s)
        /\ \A t \in Servers \ {s} : clientsBuff'[t] = clientsBuff[t] /\ Held(t)' = Held(t)
    BY <2>1, <2>2, BufferedMore
  <2>4. /\ Len(clientsBuff'[s]) = n + 1 /\ n \in Nat
        /\ \A i \in 1..n : clientsBuff'[s][i] = clientsBuff[s][i]
        /\ clientsBuff'[s][Len(clientsBuff'[s])] = k
    BY <2>1, <2>2, BufferedMore
  <2> QED BY <2>3, <2>4
<1> HIDE DEF n
<1>4. \A i \in 1..(n + 1) : i = n + 1 \/ (i \in 1..n /\ clientsBuff[s][i] \in Held(s))
  BY <1>3 DEF Held, Buffered, n
<1>6. SocksInv'
  BY <1>1 DEF SocksInv, Present
<1>7. QueueInv'
  <2>1. \A t \in Servers : \A j \in Held(t)' : st'[j] \in {"live", "freed"}
    BY <1>1, <1>2, <1>3 DEF QueueInv
  <2>2. \A t, u \in Servers : \A j \in Held(t)' \cap Held(u)' : t = u
    BY <1>1, <1>2, <1>3 DEF QueueInv
  <2>3. \A i, j \in 1..(n + 1) : clientsBuff'[s][i] = clientsBuff'[s][j] => i = j
    BY <1>1, <1>2, <1>3, <1>4 DEF QueueInv, n
  <2> QED BY <1>1, <1>3, <2>1, <2>2, <2>3 DEF QueueInv
<1>8. WorkerInv(s)'
  <2>0. MapInv(s) /\ GoingInv(s) /\ k \notin Joined(s) /\ (going[s] # NoConn => going[s] # k)
    BY <1>1, <1>2 DEF WorkerInv, Held
  <2>1. \A i \in 1..(n + 1) : clientsBuff'[s][i] \in Joined(s)' <=>
           pc'[s] = "joined" \/ (pc'[s] = "join" /\ i < cur'[s])
    BY <1>1, <1>3, <2>0 DEF MapInv, n
  <2>2. \A f : Stale(s, f)' <=> Stale(s, f)
    BY <1>1 DEF Stale
  <2>3. MapInv(s)'
    BY <1>1, <1>2, <1>3, <2>0, <2>1, <2>2 DEF MapInv
  <2>4. GoingInv(s)'
    BY <1>1, <1>3, <2>0 DEF GoingInv
  <2> QED BY <2>3, <2>4 DEF WorkerInv
<1>9. \A t \in Servers \ {s} : WorkerInv(t)'
  BY <1>1, <1>3, OtherOk
<1>10. AccInv'
  BY <1>1 DEF AccInv
<1> QED BY <1>6, <1>7, <1>8, <1>9, <1>10 DEF DataInv

-----------------------------------------------------------------------------
\* What the steps of worker s have in common: they touch no other client,
\* queue or thread, and only let clients go.
WorkerMoves(s, to) ==
  /\ pc' = [pc EXCEPT ![s] = to]
  /\ acc' = acc /\ accConn' = accConn /\ accIdx' = accIdx
  /\ \A t \in Servers \ {s} : /\ clients'[t] = clients[t] /\ clientsBuff'[t] = clientsBuff[t]
                              /\ cur'[t] = cur[t] /\ going'[t] = going[t]
  /\ Held(s)' \subseteq Held(s)
  /\ \A k \in Held(s) : st'[k] \in {st[k], "freed"}
  /\ \A k \in Conns \ Held(s) : st'[k] = st[k] /\ sock'[k] = sock[k]
  /\ \A k \in Present' : k \in Present /\ sock'[k] = sock[k]
  /\ \A i, j \in 1..Len(clientsBuff'[s]) : clientsBuff'[s][i] = clientsBuff'[s][j] => i = j

\* A worker step with these effects keeps the rest of the invariant.
LEMMA MovesOk ==
  ASSUME OwnInv, NEW s \in Servers, NEW to, WorkerMoves(s, to), WorkerInv(s)'
  PROVE  DataInv'
<1>1. /\ Shapes /\ (\A t \in Servers : WorkerInv(t)) /\ SocksInv /\ QueueInv /\ AccInv
      /\ pc \in [Servers -> WorkerPlaces]
  BY DEF OwnInv, DataInv, Shapes, WorkShapes
<1>2. \A t \in Servers : Held(t) \subseteq Conns
  BY <1>1, HeldAreConns
<1>3. \A t \in Servers \ {s} : \A k \in Held(t) : k \notin Held(s) /\ st'[k] = st[k] /\ sock'[k] = sock[k]
  BY <1>1, <1>2 DEF WorkerMoves, QueueInv
<1>4. \A t \in Servers \ {s} : WorkerInv(t)' /\ Held(t)' = Held(t)
  BY <1>1, <1>3, OtherOk DEF WorkerMoves
<1>5. SocksInv'
  BY <1>1 DEF WorkerMoves, SocksInv
<1>6. QueueInv'
  <2>1. \A t \in Servers : Held(t)' \subseteq Held(t)
    BY <1>4 DEF WorkerMoves
  <2>2. \A t \in Servers : \A k \in Held(t)' : st'[k] \in {"live", "freed"}
    BY <1>1, <1>3, <2>1 DEF WorkerMoves, QueueInv
  <2>3. \A t, u \in Servers : \A k \in Held(t)' \cap Held(u)' : t = u
    BY <1>1, <2>1 DEF QueueInv
  <2>4. \A t \in Servers : \A i, j \in 1..Len(clientsBuff'[t]) :
          clientsBuff'[t][i] = clientsBuff'[t][j] => i = j
    BY <1>1 DEF WorkerMoves, QueueInv
  <2> QED BY <2>2, <2>3, <2>4 DEF QueueInv
<1>7. AccInv'
  <2>1. accConn # NoConn => accConn \in Conns /\ \A t \in Servers : accConn \notin Held(t)
    BY <1>1 DEF AccInv, Shapes, AccShapes
  <2>2. accConn # NoConn => st'[accConn] = st[accConn] /\ \A t \in Servers : accConn \notin Held(t)'
    BY <1>4, <2>1 DEF WorkerMoves
  <2> QED BY <1>1, <2>2 DEF AccInv, WorkerMoves
<1> QED BY <1>4, <1>5, <1>6, <1>7 DEF DataInv

\* Where worker s goes without touching its queues and its clients.
Control(s) == \/ LockJoin(s) \/ JoinLoopEnds(s) \/ Serve(s) \/ Loop(s) \/ WorkerFails(s) \/ WorkerStops(s)
              \/ LeaveAccept(s) \/ LeaveJoin(s)

LEMMA ControlOk ==
  ASSUME OwnInv, NEW s \in Servers, Control(s)
  PROVE  /\ WorkerInv(s)' /\ UNCHANGED <<objVars, queues, going>>
         /\ Held(s)' = Held(s)
         /\ \E to \in WorkerPlaces \ {"cleared", "stopped"} : WorkerMoves(s, to)
<1> USE DEF Goto
<1>1. /\ Shapes /\ MapInv(s) /\ GoingInv(s) /\ QueueInv /\ pc \in [Servers -> WorkerPlaces]
      /\ cur \in [Servers -> Nat]
  BY DEF OwnInv, DataInv, WorkerInv, Shapes, WorkShapes
<1>2. UNCHANGED <<objVars, queues, going, accVars>>
  BY DEF Control, LockJoin, JoinLoopEnds, Serve, Loop, WorkerFails, WorkerStops, LeaveAccept, LeaveJoin
<1>3. /\ Entries(s)' = Entries(s) /\ Joined(s)' = Joined(s) /\ Buffered(s)' = Buffered(s)
      /\ Held(s)' = Held(s)
  BY <1>2, SameQueues
<1>4. /\ clients' = clients /\ clientsBuff' = clientsBuff /\ st' = st /\ sock' = sock /\ going' = going
      /\ acc' = acc /\ accConn' = accConn /\ accIdx' = accIdx
  BY <1>2 DEF queues, objVars, accVars, scanVars
<1>5. Len(clientsBuff[s]) \in Nat /\ cur[s] \in Nat
  BY <1>1 DEF Shapes, QueueShapes
<1>6. \E to \in WorkerPlaces \ {"cleared", "stopped"} :
        /\ pc' = [pc EXCEPT ![s] = to] /\ pc'[s] = to
        /\ \/ pc[s] = "top" /\ to = "join" /\ cur'[s] = 1
           \/ pc[s] = "join" /\ to = "joined" /\ cur'[s] = cur[s] /\ cur[s] > Len(clientsBuff[s])
           \/ pc[s] \in {"top", "serve"} /\ to \in {"top", "serve", "clear"} /\ cur'[s] = cur[s]
           \/ pc[s] = "leaving" /\ to = "counted" /\ cur'[s] = cur[s]
           \/ pc[s] = "counted" /\ to = "left" /\ cur'[s] = cur[s]
        /\ \A t \in Servers \ {s} : cur'[t] = cur[t]
  <2>1. CASE LockJoin(s) \/ JoinLoopEnds(s)
    BY <1>1, <2>1 DEF LockJoin, JoinLoopEnds, WorkerPlaces
  <2>2. CASE Serve(s) \/ Loop(s) \/ WorkerFails(s) \/ WorkerStops(s)
    BY <1>1, <2>2 DEF Serve, Loop, WorkerFails, WorkerStops, WorkerPlaces
  <2>3. CASE LeaveAccept(s) \/ LeaveJoin(s)
    BY <1>1, <2>3 DEF LeaveAccept, LeaveJoin, WorkerPlaces
  <2> QED BY <2>1, <2>2, <2>3 DEF Control
<1>7. MapInv(s)'
  <2>1. \A f : ~Stale(s, f)' /\ ~Stale(s, f)
    BY <1>6 DEF Stale
  <2>2. \A i \in 1..Len(clientsBuff[s]) :
          clientsBuff[s][i] \in Joined(s)' <=> pc'[s] = "joined" \/ (pc'[s] = "join" /\ i < cur'[s])
    BY <1>1, <1>3, <1>5, <1>6 DEF MapInv
  <2> QED BY <1>1, <1>3, <1>4, <1>5, <1>6, <2>1, <2>2 DEF MapInv
<1>8. GoingInv(s)'
  <2>1. pc[s] \in OutPlaces <=> pc'[s] \in OutPlaces
    BY <1>6 DEF OutPlaces
  <2>2. pc[s] \in OutPlaces => cur'[s] = cur[s]
    BY <1>6 DEF OutPlaces
  <2> QED BY <1>1, <1>3, <1>4, <2>1, <2>2 DEF GoingInv
<1>9. Present' = Present
  BY <1>4 DEF Present
<1>10. \A i, j \in 1..Len(clientsBuff'[s]) : clientsBuff'[s][i] = clientsBuff'[s][j] => i = j
  BY <1>1, <1>4 DEF QueueInv
<1> QED BY <1>2, <1>3, <1>4, <1>6, <1>7, <1>8, <1>9, <1>10 DEF WorkerMoves, WorkerInv

\* One turn of the join loop adds an entry for one client of the buffer, and
\* the place in the map is free.
LEMMA JoinAdds ==
  ASSUME OwnInv, NEW s \in Servers, Join(s)
  PROVE  \E k \in Buffered(s) :
           /\ k = clientsBuff[s][cur[s]] /\ st[k] = "live" /\ k \notin Joined(s) /\ sock[k] \in Socks
           /\ sock[k] \notin Entries(s)
           /\ clients' = [clients EXCEPT ![s][sock[k]] = k]
           /\ Entries(s)' = Entries(s) \cup {sock[k]}
           /\ Joined(s)' = Joined(s) \cup {k}
           /\ Buffered(s)' = Buffered(s)
           /\ \A t \in Servers \ {s} : clients'[t] = clients[t] /\ Joined(t)' = Joined(t)
<1>1. /\ Shapes /\ MapInv(s) /\ SocksInv
      /\ clientsBuff \in [Servers -> Seq(Conns)] /\ clients \in [Servers -> [Socks -> Conns \cup {NoConn}]]
      /\ pc[s] = "join" /\ cur[s] <= Len(clientsBuff[s]) /\ cur[s] \in Nat
      /\ clients' = [clients EXCEPT ![s][sock[clientsBuff[s][cur[s]]]] = clientsBuff[s][cur[s]]]
      /\ clientsBuff' = clientsBuff
  BY DEF OwnInv, DataInv, WorkerInv, Join, Shapes, WorkShapes, QueueShapes
<1>2. cur[s] \in 1..Len(clientsBuff[s]) /\ clientsBuff[s] \in Seq(Conns)
  BY <1>1 DEF MapInv
<1>3. PICK k \in Conns : k = clientsBuff[s][cur[s]]
  BY <1>2
<1>4. k \in Buffered(s) /\ st[k] = "live" /\ k \in Present /\ k \notin Joined(s) /\ sock[k] \in Socks
  BY <1>1, <1>2, <1>3 DEF MapInv, Buffered, Present, SocksInv
<1>5. sock[k] \notin Entries(s)
  <2>1. ASSUME sock[k] \in Entries(s) PROVE FALSE
    <3>1. clients[s][sock[k]] \in Conns /\ clients[s][sock[k]] \in Joined(s)
      BY <1>1, <2>1, HeldAreConns
    <3>2. clients[s][sock[k]] \in Present /\ sock[clients[s][sock[k]]] = sock[k]
      BY <1>1, <2>1, <3>1 DEF MapInv, Stale, Present
    <3> QED BY <1>1, <1>4, <3>1, <3>2 DEF SocksInv
  <2> QED BY <2>1
<1>6. /\ clients'[s][sock[k]] = k /\ k # NoConn
      /\ \A f \in Socks : f # sock[k] => clients'[s][f] = clients[s][f]
      /\ \A t \in Servers \ {s} : clients'[t] = clients[t]
  BY <1>1, <1>3, <1>4, ConnAssumption
<1>7. Entries(s)' = Entries(s) \cup {sock[k]}
  BY <1>4, <1>6 DEF Entries
<1>8. Joined(s)' = Joined(s) \cup {k}
  BY <1>4, <1>5, <1>6, <1>7 DEF Joined, Entries
<1>9. Buffered(s)' = Buffered(s) /\ \A t \in Servers \ {s} : Joined(t)' = Joined(t)
  BY <1>1, <1>6 DEF Buffered, Joined, Entries
<1> QED BY <1>1, <1>3, <1>4, <1>5, <1>6, <1>7, <1>8, <1>9

\* One turn of the join loop.
LEMMA JoinOk ==
  ASSUME OwnInv, NEW s \in Servers, Join(s)
  PROVE  WorkerInv(s)' /\ Held(s)' = Held(s) /\ WorkerMoves(s, "join")
<1>1. /\ Shapes /\ MapInv(s) /\ GoingInv(s) /\ QueueInv /\ pc[s] = "join" /\ cur[s] \in Nat
      /\ cur[s] <= Len(clientsBuff[s]) /\ Len(clientsBuff[s]) \in Nat
      /\ cur \in [Servers -> Nat] /\ pc \in [Servers -> WorkerPlaces]
      /\ clients \in [Servers -> [Socks -> Conns \cup {NoConn}]]
      /\ cur' = [cur EXCEPT ![s] = @ + 1] /\ pc' = pc /\ going' = going
      /\ st' = st /\ sock' = sock
      /\ UNCHANGED <<clientsBuff, accVars>>
  BY DEF OwnInv, DataInv, WorkerInv, Join, Shapes, QueueShapes, WorkShapes, objVars
<1>2. PICK k \in Buffered(s) :
           /\ k = clientsBuff[s][cur[s]] /\ st[k] = "live" /\ k \notin Joined(s) /\ sock[k] \in Socks
           /\ sock[k] \notin Entries(s)
           /\ clients' = [clients EXCEPT ![s][sock[k]] = k]
           /\ Entries(s)' = Entries(s) \cup {sock[k]}
           /\ Joined(s)' = Joined(s) \cup {k}
           /\ Buffered(s)' = Buffered(s)
           /\ \A t \in Servers \ {s} : clients'[t] = clients[t] /\ Joined(t)' = Joined(t)
  BY JoinAdds
<1>3. Held(s)' = Held(s)
  BY <1>1, <1>2 DEF Held
<1>4. /\ cur'[s] = cur[s] + 1 /\ \A t \in Servers \ {s} : cur'[t] = cur[t]
      /\ clients'[s][sock[k]] = k /\ \A f \in Entries(s) : clients'[s][f] = clients[s][f]
  BY <1>1, <1>2 DEF Entries
<1>5. cur[s] \in 1..Len(clientsBuff[s])
  BY <1>1 DEF MapInv
<1>6. \A i \in 1..Len(clientsBuff[s]) : clientsBuff[s][i] = k => i = cur[s]
  BY <1>1, <1>2, <1>5 DEF QueueInv
<1>7. \A i \in 1..Len(clientsBuff[s]) : clientsBuff[s][i] \in Joined(s)' <=> i < cur'[s]
  BY <1>1, <1>2, <1>4, <1>5, <1>6 DEF MapInv
<1>8. \A f \in Entries(s)' : st[clients'[s][f]] = "live" /\ sock[clients'[s][f]] = f
  BY <1>1, <1>2, <1>4 DEF MapInv, Stale
<1>9. WorkerInv(s)'
  <2>1. MapInv(s)'
    BY <1>1, <1>2, <1>4, <1>7, <1>8 DEF MapInv, Stale
  <2>2. GoingInv(s)'
    BY <1>1 DEF GoingInv, OutPlaces
  <2> QED BY <2>1, <2>2 DEF WorkerInv
<1>10. pc' = [pc EXCEPT ![s] = "join"]
  BY <1>1
<1>11. Present' = Present /\ \A i, j \in 1..Len(clientsBuff'[s]) : clientsBuff'[s][i] = clientsBuff'[s][j] => i = j
  BY <1>1 DEF QueueInv, Present
<1>12. WorkerMoves(s, "join")
  BY <1>1, <1>2, <1>3, <1>4, <1>10, <1>11 DEF WorkerMoves, accVars, scanVars
<1> QED BY <1>3, <1>9, <1>12

\* The join loop ends: the buffer is emptied, whose clients are in the map.
LEMMA UnlockOk ==
  ASSUME OwnInv, NEW s \in Servers, UnlockJoin(s)
  PROVE  WorkerInv(s)' /\ Held(s)' = Held(s) /\ WorkerMoves(s, "serve")
<1>1. /\ Shapes /\ MapInv(s) /\ GoingInv(s) /\ pc[s] = "joined"
      /\ clientsBuff \in [Servers -> Seq(Conns)] /\ cur \in [Servers -> Nat] /\ pc \in [Servers -> WorkerPlaces]
      /\ clientsBuff' = [clientsBuff EXCEPT ![s] = <<>>]
      /\ pc' = [pc EXCEPT ![s] = "serve"] /\ cur' = [cur EXCEPT ![s] = 0]
      /\ st' = st /\ sock' = sock /\ going' = going /\ clients' = clients /\ UNCHANGED accVars
  BY DEF OwnInv, DataInv, WorkerInv, UnlockJoin, Goto, objVars, Shapes, QueueShapes, WorkShapes
<1>2. /\ Len(clientsBuff'[s]) = 0 /\ pc'[s] = "serve" /\ cur'[s] = 0
      /\ \A t \in Servers \ {s} : cur'[t] = cur[t] /\ clientsBuff'[t] = clientsBuff[t]
  BY <1>1
<1>3. Buffered(s)' = {} /\ Joined(s)' = Joined(s) /\ Entries(s)' = Entries(s)
  BY <1>1, <1>2 DEF Buffered, Joined, Entries
<1>4. going[s] = NoConn
  BY <1>1 DEF GoingInv, OutPlaces
<1>5. WorkerInv(s)'
  <2>1. MapInv(s)'
    BY <1>1, <1>2, <1>3 DEF MapInv, Stale
  <2>2. GoingInv(s)'
    BY <1>1, <1>2, <1>4 DEF GoingInv, OutPlaces
  <2> QED BY <2>1, <2>2 DEF WorkerInv
<1>6. Held(s)' = Held(s) /\ Present' = Present
  <2>1. Buffered(s) \subseteq Joined(s)
    BY <1>1 DEF MapInv, Buffered
  <2> QED BY <1>1, <1>3, <2>1 DEF Held, Present
<1>7. WorkerMoves(s, "serve")
  BY <1>1, <1>2, <1>6 DEF WorkerMoves, accVars, scanVars
<1> QED BY <1>5, <1>6, <1>7

\* What the removal of one entry leaves of a map.
LEMMA EntryErased ==
  ASSUME Shapes, NEW s \in Servers, NEW f \in Socks,
         clients' = [clients EXCEPT ![s][f] = NoConn]
  PROVE  /\ Entries(s)' = Entries(s) \ {f}
         /\ \A g \in Entries(s) \ {f} : clients'[s][g] = clients[s][g]
         /\ Joined(s)' = {clients[s][g] : g \in Entries(s) \ {f}}
         /\ \A t \in Servers \ {s} : clients'[t] = clients[t] /\ Joined(t)' = Joined(t)
<1>1. /\ clients'[s][f] = NoConn /\ \A g \in Socks \ {f} : clients'[s][g] = clients[s][g]
      /\ \A t \in Servers \ {s} : clients'[t] = clients[t]
  BY DEF Shapes, QueueShapes
<1>2. Entries(s)' = Entries(s) \ {f}
  BY <1>1 DEF Entries
<1>3. \A g \in Entries(s) \ {f} : clients'[s][g] = clients[s][g]
  BY <1>1 DEF Entries
<1>4. \A t \in Servers \ {s} : Joined(t)' = Joined(t)
  BY <1>1 DEF Joined, Entries
<1> QED BY <1>1, <1>2, <1>3, <1>4 DEF Joined

\* The client of an entry of a worker that serves.
LEMMA EntryClient ==
  ASSUME OwnInv, NEW s \in Servers, pc[s] = "serve", NEW f \in Socks, f \in Entries(s)
  PROVE  \E k \in Conns :
         /\ k = clients[s][f] /\ st[k] = "live" /\ k \in Joined(s) /\ k \notin Buffered(s) /\ k # NoConn
         /\ \A g \in Entries(s) \ {f} : clients[s][g] # k
<1>0. PICK k \in Conns : k = clients[s][f]
  BY HeldAreConns DEF OwnInv
<1>1. Shapes /\ MapInv(s) /\ k \in Joined(s) /\ k # NoConn
  BY <1>0, HeldAreConns, ConnAssumption DEF OwnInv, DataInv, WorkerInv
<1>2. st[k] = "live" /\ sock[k] = f
  BY <1>0, <1>1 DEF MapInv, Stale, Entries
<1>3. \A g \in Entries(s) : sock[clients[s][g]] = g
  BY <1>1 DEF MapInv, Stale
<1>4. k \notin Buffered(s)
  BY <1>1 DEF MapInv, Buffered
<1> QED BY <1>0, <1>1, <1>2, <1>3, <1>4

\* A client leaves before its entry is erased ...
LEMMA LeaveOk ==
  ASSUME OwnInv, NEW s \in Servers, NEW f \in Socks, Leave(s, f)
  PROVE  /\ WorkerInv(s)' /\ Held(s)' = Held(s) /\ WorkerMoves(s, "leaving")
         /\ going[s] = NoConn /\ going'[s] \in Joined(s) /\ UNCHANGED <<objVars, queues>>
<1>1. /\ Shapes /\ MapInv(s) /\ GoingInv(s) /\ QueueInv /\ pc[s] = "serve" /\ f \in Entries(s)
      /\ going \in [Servers -> Conns \cup {NoConn}] /\ cur \in [Servers -> Nat]
      /\ pc \in [Servers -> WorkerPlaces] /\ f # 0
      /\ pc' = [pc EXCEPT ![s] = "leaving"] /\ cur' = [cur EXCEPT ![s] = f]
      /\ going' = [going EXCEPT ![s] = clients[s][f]]
      /\ st' = st /\ sock' = sock /\ clients' = clients /\ clientsBuff' = clientsBuff
      /\ UNCHANGED <<objVars, queues, accVars>>
  BY ConnAssumption DEF OwnInv, DataInv, WorkerInv, Leave, Goto, objVars, queues, Shapes, WorkShapes
<1>2. PICK k \in Conns :
         /\ k = clients[s][f] /\ st[k] = "live" /\ k \in Joined(s) /\ k \notin Buffered(s) /\ k # NoConn
         /\ \A g \in Entries(s) \ {f} : clients[s][g] # k
  BY <1>1, EntryClient
<1>3. /\ pc'[s] = "leaving" /\ cur'[s] = f /\ going'[s] = k
      /\ \A t \in Servers \ {s} : cur'[t] = cur[t] /\ going'[t] = going[t]
  BY <1>1, <1>2
<1>4. Entries(s)' = Entries(s) /\ Joined(s)' = Joined(s) /\ Buffered(s)' = Buffered(s)
  BY <1>1 DEF Joined, Entries, Buffered
<1>5. WorkerInv(s)'
  <2>1. MapInv(s)'
    BY <1>1, <1>3, <1>4 DEF MapInv, Stale
  <2>2. GoingInv(s)'
    BY <1>1, <1>2, <1>3, <1>4 DEF GoingInv, OutPlaces
  <2> QED BY <2>1, <2>2 DEF WorkerInv
<1>6. going[s] = NoConn
  BY <1>1 DEF GoingInv, OutPlaces
<1>7. Held(s)' = Held(s) /\ Present' = Present
  BY <1>1, <1>2, <1>3, <1>4, <1>6 DEF Held, Present
<1>8. WorkerMoves(s, "leaving")
  BY <1>1, <1>3, <1>7 DEF WorkerMoves, accVars, scanVars, QueueInv
<1> QED BY <1>1, <1>2, <1>3, <1>5, <1>6, <1>7, <1>8

\* ... or after.
LEMMA RemoveOk ==
  ASSUME OwnInv, NEW s \in Servers, NEW f \in Socks, Remove(s, f)
  PROVE  /\ WorkerInv(s)' /\ Held(s)' = Held(s) /\ WorkerMoves(s, "leaving")
         /\ going[s] = NoConn /\ UNCHANGED <<objVars, clientsBuff>>
         /\ going'[s] \in Joined(s) /\ Joined(s)' = Joined(s) \ {going'[s]}
<1>1. /\ Shapes /\ MapInv(s) /\ GoingInv(s) /\ QueueInv /\ pc[s] = "serve" /\ f \in Entries(s)
      /\ going \in [Servers -> Conns \cup {NoConn}] /\ cur[s] = 0
      /\ pc \in [Servers -> WorkerPlaces]
      /\ pc' = [pc EXCEPT ![s] = "leaving"] /\ cur' = cur
      /\ clients' = [clients EXCEPT ![s][f] = NoConn]
      /\ going' = [going EXCEPT ![s] = clients[s][f]]
      /\ st' = st /\ sock' = sock /\ clientsBuff' = clientsBuff
      /\ UNCHANGED <<objVars, accVars>>
  BY DEF OwnInv, DataInv, WorkerInv, MapInv, Remove, Goto, objVars, Shapes, WorkShapes
<1>2. PICK k \in Conns :
         /\ k = clients[s][f] /\ st[k] = "live" /\ k \in Joined(s) /\ k \notin Buffered(s) /\ k # NoConn
         /\ \A g \in Entries(s) \ {f} : clients[s][g] # k
  BY <1>1, EntryClient
<1>3. /\ pc'[s] = "leaving" /\ going'[s] = k
      /\ \A t \in Servers \ {s} : going'[t] = going[t]
  BY <1>1, <1>2
<1>4. /\ Entries(s)' = Entries(s) \ {f}
      /\ \A g \in Entries(s) \ {f} : clients'[s][g] = clients[s][g]
      /\ Joined(s)' = {clients[s][g] : g \in Entries(s) \ {f}}
      /\ \A t \in Servers \ {s} : clients'[t] = clients[t]
  BY <1>1, EntryErased
<1>5. Joined(s)' = Joined(s) \ {k} /\ Buffered(s)' = Buffered(s)
  <2>1. Joined(s)' \subseteq Joined(s) \ {k}
    BY <1>2, <1>4 DEF Joined
  <2>2. Joined(s) \ {k} \subseteq Joined(s)'
    BY <1>2, <1>4 DEF Joined
  <2> QED BY <1>1, <2>1, <2>2 DEF Buffered
<1>6. going[s] = NoConn
  BY <1>1 DEF GoingInv, OutPlaces
<1>7. WorkerInv(s)'
  <2>1. \A g \in Entries(s)' : st'[clients'[s][g]] = "live" /\ sock'[clients'[s][g]] = g
    BY <1>1, <1>4 DEF MapInv, Stale
  <2>2. \A i \in 1..Len(clientsBuff[s]) : clientsBuff[s][i] \notin Joined(s)
    BY <1>1 DEF MapInv
  <2>3. MapInv(s)'
    BY <1>1, <1>3, <1>5, <2>1, <2>2 DEF MapInv, Stale
  <2>4. GoingInv(s)'
    BY <1>1, <1>2, <1>3, <1>5 DEF GoingInv, OutPlaces
  <2> QED BY <2>3, <2>4 DEF WorkerInv
<1>8. Held(s)' = Held(s) /\ Present' = Present
  BY <1>1, <1>2, <1>3, <1>5, <1>6 DEF Held, Present
<1>9. WorkerMoves(s, "leaving")
  BY <1>1, <1>3, <1>4, <1>8 DEF WorkerMoves, accVars, scanVars, QueueInv
<1> QED BY <1>1, <1>2, <1>3, <1>5, <1>6, <1>7, <1>8, <1>9

\* The Client is deleted, its entry erased later or before.
LEMMA DeleteClientOk ==
  ASSUME OwnInv, NEW s \in Servers, DeleteClient(s)
  PROVE  /\ WorkerInv(s)' /\ WorkerMoves(s, IF cur[s] # 0 THEN "erase" ELSE "serve")
         /\ going[s] \in Conns /\ st[going[s]] = "live" /\ st' = [st EXCEPT ![going[s]] = "freed"]
         /\ going' = [going EXCEPT ![s] = NoConn] /\ UNCHANGED queues
<1> DEFINE to == IF cur[s] # 0 THEN "erase" ELSE "serve"
<1>1. /\ Shapes /\ MapInv(s) /\ GoingInv(s) /\ QueueInv /\ pc[s] = "left"
      /\ going \in [Servers -> Conns \cup {NoConn}]
      /\ pc \in [Servers -> WorkerPlaces] /\ cur[s] \in Nat
      /\ pc' = [pc EXCEPT ![s] = to] /\ cur' = cur
      /\ going' = [going EXCEPT ![s] = NoConn]
      /\ st \in [Conns -> {"none", "accepted", "live", "refused", "freed"}]
      /\ sock \in [Conns -> Socks \cup {0}]
      /\ st' = [st EXCEPT ![going[s]] = "freed"] /\ sock' = [sock EXCEPT ![going[s]] = 0]
      /\ clients' = clients /\ clientsBuff' = clientsBuff
      /\ UNCHANGED <<queues, accVars>>
  BY DEF OwnInv, DataInv, WorkerInv, DeleteClient, Goto, queues, Shapes, WorkShapes, ObjShapes
<1>2. PICK k \in Conns : k = going[s] /\ k # NoConn
  BY <1>1, ConnAssumption DEF GoingInv, OutPlaces
<1>3. /\ st[k] = "live" /\ k \notin Buffered(s) /\ k \in Held(s)
      /\ st'[k] = "freed" /\ \A j \in Conns \ {k} : st'[j] = st[j] /\ sock'[j] = sock[j]
      /\ pc'[s] = to /\ going'[s] = NoConn
      /\ \A t \in Servers \ {s} : going'[t] = going[t]
  BY <1>1, <1>2, HeldAreConns DEF GoingInv
<1>4. /\ Entries(s)' = Entries(s) /\ Joined(s)' = Joined(s) /\ Buffered(s)' = Buffered(s)
      /\ Joined(s) \subseteq Conns /\ Buffered(s) \subseteq Conns
  BY <1>1, HeldAreConns DEF Joined, Entries, Buffered
<1>5. \A g \in Entries(s) : st[clients[s][g]] = "live" /\ sock[clients[s][g]] = g /\ clients[s][g] \in Conns
  BY <1>1, HeldAreConns DEF MapInv, Stale
<1>6. \A g \in Entries(s) : clients[s][g] = k <=> cur[s] # 0 /\ g = cur[s]
  <2>1. CASE cur[s] = 0
    BY <1>1, <1>2, <2>1 DEF GoingInv, Joined
  <2>2. CASE cur[s] # 0
    <3>1. cur[s] \in Entries(s) /\ clients[s][cur[s]] = k
      BY <1>1, <1>2, <2>2 DEF GoingInv
    <3> QED BY <1>5, <2>2, <3>1
  <2> QED BY <2>1, <2>2
<1>7. WorkerInv(s)'
  <2>1. \A g \in Entries(s)' : IF Stale(s, g)' THEN st'[clients'[s][g]] = "freed"
                               ELSE st'[clients'[s][g]] = "live" /\ sock'[clients'[s][g]] = g
    <3>1. \A g \in Entries(s) : Stale(s, g)' <=> (cur[s] # 0 /\ g = cur[s])
      BY <1>1, <1>3 DEF Stale
    <3> QED BY <1>1, <1>3, <1>4, <1>5, <1>6, <3>1
  <2>2. \A i \in 1..Len(clientsBuff[s]) : clientsBuff[s][i] \notin Joined(s)
    BY <1>1 DEF MapInv
  <2>3. \A j \in Buffered(s)' : st'[j] = "live"
    BY <1>1, <1>3, <1>4 DEF MapInv
  <2>4. cur[s] # 0 => cur[s] \in Socks
    BY <1>1, <1>2, HeldAreConns DEF GoingInv
  <2>5. MapInv(s)'
    BY <1>1, <1>3, <1>4, <2>1, <2>2, <2>3, <2>4 DEF MapInv
  <2>6. GoingInv(s)'
    BY <1>3 DEF GoingInv, OutPlaces
  <2> QED BY <2>5, <2>6 DEF WorkerInv
<1>8. Held(s)' \subseteq Held(s)
  BY <1>3, <1>4 DEF Held
<1>9. \A j \in Present' : j \in Present /\ sock'[j] = sock[j]
  BY <1>3 DEF Present
<1>10. \A j \in Held(s) : st'[j] \in {st[j], "freed"}
  BY <1>1, <1>3, HeldAreConns
<1>11. \A i, j \in 1..Len(clientsBuff'[s]) : clientsBuff'[s][i] = clientsBuff'[s][j] => i = j
  BY <1>1 DEF QueueInv
<1>12. WorkerMoves(s, to)
  BY <1>1, <1>3, <1>8, <1>9, <1>10, <1>11 DEF WorkerMoves, accVars, scanVars
<1> QED BY <1>1, <1>2, <1>3, <1>7, <1>12

\* The entry of the deleted client is erased.
LEMMA EraseOk ==
  ASSUME OwnInv, NEW s \in Servers, Erase(s)
  PROVE  /\ WorkerInv(s)' /\ WorkerMoves(s, "serve")
         /\ UNCHANGED <<objVars, clientsBuff, going>>
         /\ Joined(s)' \subseteq Joined(s) /\ \A k \in Live \cap Joined(s) : k \in Joined(s)'
<1>1. /\ Shapes /\ MapInv(s) /\ GoingInv(s) /\ QueueInv /\ pc[s] = "erase"
      /\ cur \in [Servers -> Nat] /\ pc \in [Servers -> WorkerPlaces]
      /\ clients' = [clients EXCEPT ![s][cur[s]] = NoConn]
      /\ pc' = [pc EXCEPT ![s] = "serve"] /\ cur' = [cur EXCEPT ![s] = 0]
      /\ st' = st /\ sock' = sock /\ clientsBuff' = clientsBuff /\ going' = going
      /\ UNCHANGED <<objVars, clientsBuff, going, accVars>>
  BY DEF OwnInv, DataInv, WorkerInv, Erase, Goto, objVars, Shapes, WorkShapes
<1>2. PICK f \in Socks : f = cur[s]
  BY <1>1 DEF MapInv
<1>3. /\ Entries(s)' = Entries(s) \ {f}
      /\ \A g \in Entries(s) \ {f} : clients'[s][g] = clients[s][g]
      /\ Joined(s)' = {clients[s][g] : g \in Entries(s) \ {f}}
      /\ \A t \in Servers \ {s} : clients'[t] = clients[t]
  BY <1>1, <1>2, EntryErased
<1>4. pc'[s] = "serve" /\ cur'[s] = 0 /\ \A t \in Servers \ {s} : cur'[t] = cur[t]
  BY <1>1
<1>5. Buffered(s)' = Buffered(s) /\ Joined(s)' \subseteq Joined(s)
  BY <1>1, <1>3 DEF Buffered, Joined
<1>6. \A g \in Entries(s)' : st'[clients'[s][g]] = "live" /\ sock'[clients'[s][g]] = g
  BY <1>1, <1>2, <1>3 DEF MapInv, Stale
<1>7. \A i \in 1..Len(clientsBuff[s]) : clientsBuff[s][i] \notin Joined(s)
  BY <1>1 DEF MapInv
<1>8. WorkerInv(s)'
  <2>1. MapInv(s)'
    BY <1>1, <1>4, <1>5, <1>6, <1>7 DEF MapInv, Stale
  <2>2. GoingInv(s)'
    BY <1>1, <1>4 DEF GoingInv, OutPlaces
  <2> QED BY <2>1, <2>2 DEF WorkerInv
<1>9. \A k \in Live \cap Joined(s) : k \in Joined(s)'
  <2>1. f \in Entries(s) => clients[s][f] \notin Live
    BY <1>1, <1>2 DEF MapInv, Stale, Live
  <2> QED BY <1>3, <2>1 DEF Joined
<1>10. Held(s)' \subseteq Held(s) /\ Present' = Present
  BY <1>1, <1>5 DEF Held, Present
<1>11. WorkerMoves(s, "serve")
  BY <1>1, <1>3, <1>4, <1>10 DEF WorkerMoves, accVars, scanVars, QueueInv
<1> QED BY <1>1, <1>5, <1>8, <1>9, <1>11

\* A worker that ends deletes what it holds.
LEMMA DeleteAllOk ==
  ASSUME OwnInv, NEW s \in Servers, DeleteAll(s)
  PROVE  /\ WorkerInv(s)' /\ Held(s)' = Held(s) /\ WorkerMoves(s, "cleared")
         /\ UNCHANGED <<queues, going>> /\ \A k \in Held(s) : st'[k] = "freed"
<1>1. /\ Shapes /\ MapInv(s) /\ GoingInv(s) /\ QueueInv /\ pc[s] = "clear"
      /\ st \in [Conns -> {"none", "accepted", "live", "refused", "freed"}]
      /\ pc \in [Servers -> WorkerPlaces]
      /\ st' = [k \in Conns |-> IF k \in ToClear(s) THEN "freed" ELSE st[k]]
      /\ sock' = [k \in Conns |-> IF k \in ToClear(s) THEN 0 ELSE sock[k]]
      /\ pc' = [pc EXCEPT ![s] = "cleared"] /\ cur' = cur /\ going' = going
      /\ clients' = clients /\ clientsBuff' = clientsBuff /\ UNCHANGED <<queues, going, accVars>>
  BY DEF OwnInv, DataInv, WorkerInv, DeleteAll, Goto, queues, Shapes, ObjShapes, WorkShapes
<1>2. going[s] = NoConn /\ ToClear(s) = Held(s) /\ pc'[s] = "cleared"
  BY <1>1 DEF GoingInv, OutPlaces, ToClear, Held
<1>3. /\ Entries(s)' = Entries(s) /\ Joined(s)' = Joined(s) /\ Buffered(s)' = Buffered(s)
      /\ Held(s)' = Held(s)
  BY <1>1, SameQueues DEF queues
<1>4. \A k \in Held(s) : st'[k] = "freed"
  BY <1>1, <1>2, HeldAreConns
<1>5. WorkerInv(s)'
  <2>1. \A g \in Entries(s) : st'[clients[s][g]] = "freed"
    BY <1>1, <1>4, HeldAreConns
  <2>2. MapInv(s)'
    BY <1>1, <1>2, <1>3, <2>1 DEF MapInv, Stale
  <2>3. GoingInv(s)'
    BY <1>1, <1>2 DEF GoingInv, OutPlaces
  <2> QED BY <2>2, <2>3 DEF WorkerInv
<1>6. \A k \in Present' : k \in Present /\ sock'[k] = sock[k]
  BY <1>1 DEF Present
<1>7. \A k \in Conns \ Held(s) : st'[k] = st[k] /\ sock'[k] = sock[k]
  BY <1>1, <1>2
<1>8. WorkerMoves(s, "cleared")
  BY <1>1, <1>3, <1>4, <1>6, <1>7 DEF WorkerMoves, accVars, scanVars, QueueInv
<1> QED BY <1>1, <1>3, <1>4, <1>5, <1>8

\* A worker that ends empties its map and its buffer.
LEMMA EmptyOk ==
  ASSUME OwnInv, NEW s \in Servers, EmptyQueues(s)
  PROVE  /\ WorkerInv(s)' /\ WorkerMoves(s, "stopped")
         /\ UNCHANGED <<objVars, going>> /\ going[s] = NoConn /\ clientsBuff'[s] = <<>>
         /\ Joined(s)' = {} /\ Joined(s) \cap Live = {}
<1>1. /\ Shapes /\ MapInv(s) /\ GoingInv(s) /\ QueueInv /\ pc[s] = "cleared"
      /\ pc \in [Servers -> WorkerPlaces] /\ clientsBuff \in [Servers -> Seq(Conns)]
      /\ clients \in [Servers -> [Socks -> Conns \cup {NoConn}]]
      /\ clients' = [clients EXCEPT ![s] = [f \in Socks |-> NoConn]]
      /\ clientsBuff' = [clientsBuff EXCEPT ![s] = <<>>]
      /\ pc' = [pc EXCEPT ![s] = "stopped"] /\ cur' = cur /\ going' = going
      /\ st' = st /\ sock' = sock /\ UNCHANGED <<objVars, going, accVars>>
  BY DEF OwnInv, DataInv, WorkerInv, EmptyQueues, Goto, objVars, Shapes, QueueShapes, WorkShapes
<1>2. /\ pc'[s] = "stopped" /\ going[s] = NoConn
      /\ \A t \in Servers \ {s} : clients'[t] = clients[t] /\ clientsBuff'[t] = clientsBuff[t]
      /\ clients'[s] = [f \in Socks |-> NoConn] /\ clientsBuff'[s] = <<>> /\ Len(clientsBuff'[s]) = 0
  BY <1>1 DEF GoingInv, OutPlaces
<1>3. Entries(s)' = {} /\ Joined(s)' = {} /\ Buffered(s)' = {} /\ Held(s)' = {}
  BY <1>1, <1>2 DEF Entries, Joined, Buffered, Held
<1>4. WorkerInv(s)'
  <2>1. MapInv(s)'
    BY <1>2, <1>3 DEF MapInv
  <2>2. GoingInv(s)'
    BY <1>1, <1>2 DEF GoingInv, OutPlaces
  <2> QED BY <2>1, <2>2 DEF WorkerInv
<1>5. Present' = Present /\ Joined(s) \cap Live = {}
  BY <1>1 DEF Present, MapInv, Stale, Joined, Live
<1>6. WorkerMoves(s, "stopped")
  BY <1>1, <1>2, <1>3, <1>5 DEF WorkerMoves, accVars, scanVars
<1> QED BY <1>1, <1>2, <1>3, <1>4, <1>5, <1>6

\* A closed server is opened again with new workers.
LEMMA RestartOk ==
  ASSUME OwnInv, Restart
  PROVE  DataInv' /\ runs = 1 /\ accConn = NoConn /\ \A s \in Servers : Joined(s)' = {} /\ going'[s] = NoConn
<1>1. /\ SocksInv /\ AccInv /\ AcceptInv /\ runs \in 1..2 /\ main = "closed"
      /\ runs < 2 /\ st' = st /\ sock' = sock /\ accConn' = accConn
      /\ clientsBuff' = [s \in Servers |-> <<>>]
      /\ clients' = [s \in Servers |-> [f \in Socks |-> NoConn]]
      /\ pc' = [s \in Servers |-> "top"]
      /\ cur' = [s \in Servers |-> 0] /\ going' = [s \in Servers |-> NoConn]
      /\ acc' = "run"
  BY NAssumption DEF OwnInv, DataInv, Shapes, MainShapes, Restart, objVars, scanVars
<1>2. runs = 1 /\ accConn = NoConn
  BY <1>1 DEF AcceptInv, AccInv, Ending
<1>3. \A s \in Servers : /\ Entries(s)' = {} /\ Joined(s)' = {} /\ Buffered(s)' = {} /\ Held(s)' = {}
                         /\ Len(clientsBuff'[s]) = 0 /\ going'[s] = NoConn
  BY <1>1 DEF Entries, Joined, Buffered, Held
<1>4. SocksInv' /\ QueueInv'
  BY <1>1, <1>3 DEF SocksInv, QueueInv, Present
<1>5. \A s \in Servers : WorkerInv(s)'
  BY <1>1, <1>3 DEF WorkerInv, MapInv, GoingInv, OutPlaces
<1>6. AccInv'
  BY <1>1, <1>2 DEF AccInv
<1> QED BY <1>2, <1>3, <1>4, <1>5, <1>6 DEF DataInv

\* The ownership invariant is inductive.
LEMMA OwnStep == OwnInv /\ [Next]_vars => OwnInv'
<1> SUFFICES ASSUME OwnInv, [Next]_vars PROVE OwnInv'
  OBVIOUS
<1>1. CASE \/ Poll \/ PollEnds \/ ScanSize \/ ScanCompare \/ AcceptorStops \/ AcceptorFails
           \/ Wakeup \/ ClearRun \/ CloseAccept \/ Closing \/ UNCHANGED vars
  BY <1>1, QuietSteps, ShapesStep, OrderStep DEF OwnInv
<1>2. CASE NewClient \/ AddClient \/ Restart
  BY <1>2, NewClientOk, AddOk, RestartOk, ShapesStep, OrderStep DEF OwnInv
<1>3. CASE Connect
  BY <1>3, RefuseOk, AcceptOk, ShapesStep, OrderStep DEF OwnInv, Connect
<1>4. ASSUME NEW s \in Servers, Control(s) \/ Join(s) \/ UnlockJoin(s) \/ DeleteClient(s) \/ Erase(s)
                                \/ DeleteAll(s) \/ EmptyQueues(s)
      PROVE  DataInv'
  BY <1>4, ControlOk, JoinOk, UnlockOk, DeleteClientOk, EraseOk, DeleteAllOk, EmptyOk, MovesOk
<1>5. ASSUME NEW s \in Servers, NEW f \in Socks, Leave(s, f) \/ Remove(s, f)
      PROVE  DataInv'
  BY <1>5, LeaveOk, RemoveOk, MovesOk
<1>6. ASSUME NEW s \in Servers, Work(s) \/ Leaving(s) \/ WorkerFails(s)
      PROVE  DataInv'
  BY <1>4, <1>5, <1>6 DEF Work, Leaving, Control
<1>7. CASE \E s \in Servers : Work(s) \/ Leaving(s) \/ WorkerFails(s)
  BY <1>6, <1>7, ShapesStep, OrderStep DEF OwnInv
<1> QED BY <1>1, <1>2, <1>3, <1>7 DEF Next, Acceptor


-----------------------------------------------------------------------------
\* Without failures, and when Close has waited for the accept thread, no
\* Client is lost: each is in the hands of the accept thread or of a worker,
\* and a worker that ends leaves none behind.
KeptInv ==
  ~failing /\ ~rushed =>
    /\ \A k \in Live : accConn = k \/ \E s \in Servers : k \in Held(s)
    /\ \A s \in Servers : pc[s] = "cleared" => \A k \in Buffered(s) : st[k] = "freed"
    /\ \A s \in Servers : pc[s] = "stopped" => clientsBuff[s] = <<>>

\* Nothing has been accepted yet.
LEMMA KeptInit == Init => KeptInv
BY DEF Init, KeptInv, Live

\* Worker s moves its clients and drops none that lives.
LEMMA KeptMove ==
  ASSUME OwnInv, KeptInv, NEW s \in Servers, NEW to, WorkerMoves(s, to), UNCHANGED <<failing, rushed>>,
         Live' \cap Held(s) \subseteq Held(s)',
         to = "cleared" => \A k \in Buffered(s)' : st'[k] = "freed",
         to = "stopped" => clientsBuff'[s] = <<>>
  PROVE  KeptInv'
<1>1. /\ Shapes /\ accConn' = accConn /\ failing' = failing /\ rushed' = rushed
      /\ pc'[s] = to /\ \A t \in Servers \ {s} : pc'[t] = pc[t]
  BY DEF OwnInv, WorkerMoves, Shapes, WorkShapes
<1>2. \A t \in Servers \ {s} : /\ Held(t)' = Held(t) /\ Buffered(t)' = Buffered(t)
                               /\ clientsBuff'[t] = clientsBuff[t]
  BY DEF WorkerMoves, Held, Joined, Entries, Buffered
<1>3. \A k \in Conns : st'[k] \in {st[k], "freed"}
  <2>1. \A k \in Conns : k \in Held(s) => st'[k] \in {st[k], "freed"}
    BY DEF WorkerMoves
  <2>2. \A k \in Conns : k \notin Held(s) => st'[k] = st[k]
    BY DEF WorkerMoves
  <2> QED BY <2>1, <2>2
<1>4. Live' \subseteq Live /\ \A t \in Servers : Buffered(t) \subseteq Conns
  BY <1>1, <1>3, HeldAreConns DEF Live
<1>5. ASSUME ~failing', ~rushed', NEW k \in Live'
      PROVE  accConn' = k \/ \E t \in Servers : k \in Held(t)'
  <2>1. CASE accConn = k
    BY <1>1, <2>1
  <2>2. ASSUME NEW t \in Servers, k \in Held(t) PROVE k \in Held(t)'
    BY <1>2, <1>5, <2>2
  <2> QED BY <1>1, <1>4, <1>5, <2>1, <2>2 DEF KeptInv
<1>6. ASSUME ~failing', ~rushed', NEW t \in Servers \ {s}
      PROVE  /\ pc'[t] = "cleared" => \A k \in Buffered(t)' : st'[k] = "freed"
             /\ pc'[t] = "stopped" => clientsBuff'[t] = <<>>
  BY <1>1, <1>2, <1>3, <1>4, <1>6 DEF KeptInv
<1> QED BY <1>1, <1>5, <1>6 DEF KeptInv

\* The workers lose no client, relative to the ownership invariant.
LEMMA KeptWork ==
  ASSUME OwnInv, KeptInv, NEW s \in Servers, Work(s) \/ Leaving(s) \/ WorkerFails(s)
  PROVE  KeptInv'
<1>1. /\ Shapes /\ UNCHANGED <<failing, rushed>>
      /\ Held(s) = Joined(s) \cup Buffered(s) \cup ({going[s]} \ {NoConn})
  BY WorkerGoes DEF OwnInv, mainVars, Held
<1>2. CASE Control(s)
  BY <1>1, <1>2, ControlOk, KeptMove
<1>3. CASE Join(s)
  BY <1>1, <1>3, JoinOk, KeptMove
<1>4. CASE UnlockJoin(s)
  BY <1>1, <1>4, UnlockOk, KeptMove
<1>5. ASSUME NEW f \in Socks, Leave(s, f) \/ Remove(s, f) PROVE KeptInv'
  BY <1>1, <1>5, LeaveOk, RemoveOk, KeptMove
<1>6. CASE DeleteClient(s)
  <2>1. /\ WorkerMoves(s, "erase") \/ WorkerMoves(s, "serve")
        /\ going[s] \in Conns /\ st' = [st EXCEPT ![going[s]] = "freed"] /\ UNCHANGED queues
    BY <1>6, DeleteClientOk
  <2>2. st'[going[s]] = "freed"
    BY <1>1, <2>1 DEF Shapes, ObjShapes
  <2>3. Joined(s)' = Joined(s) /\ Buffered(s)' = Buffered(s)
    BY <2>1 DEF Joined, Entries, Buffered, queues
  <2>4. Live' \cap Held(s) \subseteq Held(s)'
    BY <1>1, <2>2, <2>3 DEF Held, Live
  <2> QED BY <1>1, <2>1, <2>4, KeptMove
<1>7. CASE Erase(s)
  <2>1. /\ WorkerMoves(s, "serve") /\ UNCHANGED <<objVars, clientsBuff, going>>
        /\ \A k \in Live \cap Joined(s) : k \in Joined(s)'
    BY <1>7, EraseOk
  <2>2. Live' = Live /\ Buffered(s)' = Buffered(s) /\ going' = going
    BY <2>1 DEF Live, Buffered, objVars
  <2>3. Live' \cap Held(s) \subseteq Held(s)'
    BY <2>1, <2>2 DEF Held
  <2> QED BY <1>1, <2>1, <2>3, KeptMove
<1>8. CASE DeleteAll(s)
  <2>1. /\ WorkerMoves(s, "cleared") /\ Held(s)' = Held(s) /\ \A k \in Held(s) : st'[k] = "freed"
    BY <1>8, DeleteAllOk
  <2>2. Buffered(s)' \subseteq Held(s)'
    BY DEF Held
  <2> QED BY <1>1, <2>1, <2>2, KeptMove
<1>9. CASE EmptyQueues(s)
  <2>1. /\ WorkerMoves(s, "stopped") /\ going[s] = NoConn /\ clientsBuff'[s] = <<>> /\ pc[s] = "cleared"
        /\ Joined(s) \cap Live = {} /\ Live' = Live
    BY <1>9, EmptyOk DEF EmptyQueues, Live, objVars
  <2>2. CASE failing \/ rushed
    BY <1>1, <2>2 DEF KeptInv
  <2>3. CASE ~failing /\ ~rushed
    <3>1. Buffered(s) \cap Live = {}
      BY <2>1, <2>3 DEF KeptInv, Live
    <3>2. Live' \cap Held(s) = {}
      BY <1>1, <2>1, <3>1, ConnAssumption DEF Live
    <3> QED BY <1>1, <2>1, <3>2, KeptMove
  <2> QED BY <2>2, <2>3
<1> QED BY <1>2, <1>3, <1>4, <1>5, <1>6, <1>7, <1>8, <1>9 DEF Work, Leaving, Control

\* No client moves and no worker ends.
LEMMA KeptQuiet ==
  ASSUME Shapes, KeptInv, UNCHANGED <<queues, going, pc, failing>>,
         ~failing /\ ~rushed' => ~rushed,
         \A k \in Live' : k = accConn' \/ (k \in Live /\ accConn # k),
         \A k \in Conns : st[k] = "freed" => st'[k] = "freed"
  PROVE  KeptInv'
<1>1. \A s \in Servers : Buffered(s) \subseteq Conns
  BY HeldAreConns
<1>2. /\ \A s \in Servers : Held(s)' = Held(s) /\ Buffered(s)' = Buffered(s)
      /\ clientsBuff' = clientsBuff /\ pc' = pc /\ failing' = failing
  BY SameQueues DEF queues
<1> QED BY <1>1, <1>2 DEF KeptInv

\* No step loses a client, relative to the ownership invariant.
LEMMA KeptStep == OwnInv /\ KeptInv /\ [Next]_vars => KeptInv'
<1> SUFFICES ASSUME OwnInv, KeptInv, [Next]_vars PROVE KeptInv'
  OBVIOUS
<1>1. /\ Shapes /\ AccInv /\ MainInv /\ AcceptInv
      /\ st \in [Conns -> {"none", "accepted", "live", "refused", "freed"}]
  BY DEF OwnInv, DataInv, Shapes, ObjShapes
<1>2. CASE \/ Poll \/ PollEnds \/ ScanSize \/ ScanCompare \/ AcceptorStops \/ AcceptorFails
           \/ Wakeup \/ ClearRun \/ CloseAccept \/ Closing \/ UNCHANGED vars
  <2>1. UNCHANGED <<objVars, queues, pc, going, accConn, failing>>
    BY <1>2, QuietSteps
  <2>2. rushed' = rushed \/ (main = "open")
    BY <1>2 DEF Poll, PollEnds, ScanSize, ScanCompare, AcceptorStops, AcceptorFails, Wakeup, ClearRun,
                CloseAccept, Closing, DeleteServer, DestroySock, vars, mainVars
  <2>3. ~failing /\ ~rushed' => ~rushed
    BY <1>1, <2>2 DEF AcceptInv
  <2>4. Live' = Live /\ st' = st
    BY <2>1 DEF Live, objVars
  <2> QED BY <1>1, <2>1, <2>3, <2>4, KeptQuiet
<1>3. CASE NewClient \/ Connect
  <2>1. /\ UNCHANGED <<queues, pc, going, failing, rushed>>
        /\ \/ NewClient /\ st' = [st EXCEPT ![accConn] = "live"] /\ accConn' = accConn
           \/ /\ acc = "poll"
              /\ \E k \in Conns : st[k] = "none" /\ (st' = [st EXCEPT ![k] = "accepted"]
                                                     \/ st' = [st EXCEPT ![k] = "refused"])
    BY <1>3 DEF NewClient, Connect, Refuse, Accept, Connecting, workVars, mainVars
  <2>2. CASE NewClient /\ st' = [st EXCEPT ![accConn] = "live"] /\ accConn' = accConn
    <3>1. accConn \in Conns /\ st[accConn] = "accepted"
      BY <1>1, <2>2 DEF NewClient, AccInv, Shapes, AccShapes
    <3>2. /\ \A k \in Live' : k = accConn' \/ (k \in Live /\ accConn # k)
          /\ \A k \in Conns : st[k] = "freed" => st'[k] = "freed"
      BY <1>1, <2>2, <3>1 DEF Live
    <3> QED BY <1>1, <2>1, <3>2, KeptQuiet
  <2>3. ASSUME acc = "poll", NEW k \in Conns, st[k] = "none",
               st' = [st EXCEPT ![k] = "accepted"] \/ st' = [st EXCEPT ![k] = "refused"]
        PROVE  KeptInv'
    <3>1. accConn = NoConn
      BY <1>1, <2>3 DEF AccInv
    <3>2. /\ \A j \in Live' : j \in Live /\ accConn # j
          /\ \A j \in Conns : st[j] = "freed" => st'[j] = "freed"
      BY <1>1, <2>3, <3>1, ConnAssumption DEF Live
    <3> QED BY <1>1, <2>1, <3>2, KeptQuiet
  <2> QED BY <2>1, <2>2, <2>3
<1>4. CASE AddClient
  <2>1. PICK s \in Servers, k \in Conns : s = accMin /\ k = accConn
    BY <1>1, <1>4 DEF Shapes, AccShapes, AccInv, AddClient
  <2>2. /\ acc = "add" /\ clientsBuff' = [clientsBuff EXCEPT ![s] = Append(@, k)]
        /\ st' = st /\ clients' = clients /\ pc' = pc /\ going' = going
        /\ failing' = failing /\ rushed' = rushed
    BY <1>4, <2>1 DEF AddClient, workVars, mainVars, objVars
  <2>3. /\ Held(s)' = Held(s) \cup {k}
        /\ \A t \in Servers \ {s} : /\ clientsBuff'[t] = clientsBuff[t] /\ Held(t)' = Held(t)
                                    /\ Buffered(t)' = Buffered(t)
    BY <1>1, <2>2, BufferedMore
  <2>4. ~failing /\ ~rushed => pc[s] \notin {"cleared", "stopped"}
    <3>1. ~failing /\ ~rushed => main \in {"open", "accept"}
      BY <1>1, <2>2 DEF AcceptInv, Shapes, MainShapes
    <3> QED BY <1>1, <3>1 DEF MainInv, Dropping
  <2>5. Live' = Live
    BY <2>2 DEF Live
  <2>6. ASSUME NEW j \in Live, accConn = j \/ \E t \in Servers : j \in Held(t)
        PROVE  \E t \in Servers : j \in Held(t)'
    BY <2>1, <2>3, <2>6
  <2> QED BY <2>2, <2>3, <2>4, <2>5, <2>6 DEF KeptInv
<1>5. ASSUME NEW s \in Servers, Work(s) \/ Leaving(s) \/ WorkerFails(s) PROVE KeptInv'
  BY <1>5, KeptWork
<1>6. CASE Restart
  <2>1. /\ UNCHANGED <<objVars, failing>> /\ main = "closed" /\ runs = 1 /\ accConn = NoConn
        /\ pc' = [s \in Servers |-> "top"]
    BY <1>6, RestartOk DEF Restart
  <2>2. ~failing => ~rushed /\ \A s \in Servers : Held(s) = {}
    <3>1. ~failing => ~rushed /\ \A s \in Servers : pc[s] = "stopped"
      BY <1>1, <2>1 DEF MainInv, AcceptInv
    <3>2. ~failing => \A s \in Servers : Entries(s) = {} /\ clientsBuff[s] = <<>> /\ going[s] = NoConn
      BY <3>1 DEF OwnInv, DataInv, WorkerInv, MapInv, GoingInv, OutPlaces, KeptInv
    <3> QED BY <3>1, <3>2 DEF Held, Joined, Buffered
  <2>3. ~failing => Live' = {}
    <3>1. Live' = Live /\ NoConn \notin Live
      BY <2>1, ConnAssumption DEF Live, objVars
    <3> QED BY <2>1, <2>2, <3>1 DEF KeptInv
  <2> QED BY <2>1, <2>3 DEF KeptInv
<1> QED BY <1>2, <1>3, <1>4, <1>5, <1>6 DEF Next, Acceptor

-----------------------------------------------------------------------------
\* The clients in a map, and those that are leaving, that one or both
\* counters no longer count.
Maps == UNION {Joined(s) : s \in Servers}
OutAny == Out({"leaving", "counted", "left"})
OutAccept == Out({"counted", "left"})
OutJoin == Out({"left"})

\* The connections that are counted as accepted, and the clients counted as joined.
Counted == Present \ OutAccept
JoinedNow == (Live \cap (Maps \cup OutAny)) \ OutJoin

\* As long as no worker has dropped its clients.
NoneDropped == runs = 1 /\ \A s \in Servers : pc[s] \notin {"cleared", "stopped"}

CountInv ==
  /\ clientAccept \in Nat /\ clientJoin \in Nat
  /\ Cardinality(Counted) <= clientAccept /\ clientAccept <= MaxClient
  /\ Cardinality(JoinedNow) <= clientJoin
  /\ NoneDropped => clientAccept = Cardinality(Counted) /\ clientJoin = Cardinality(JoinedNow)

\* There are finitely many connections.
LEMMA Finite ==
  /\ IsFiniteSet(Counted) /\ IsFiniteSet(JoinedNow)
  /\ Cardinality(Counted) \in Nat /\ Cardinality(JoinedNow) \in Nat
<1>1. Counted \in SUBSET Conns /\ JoinedNow \in SUBSET Conns
  BY DEF Counted, JoinedNow, Present, Live
<1>2. IsFiniteSet(Counted) /\ IsFiniteSet(JoinedNow)
  BY <1>1, ConnAssumption, FS_Subset
<1> QED BY <1>2, FS_CardinalityType

\* The counters start at zero.
LEMMA CountInit == Init => CountInv
<1> SUFFICES ASSUME Init PROVE CountInv
  OBVIOUS
<1>1. Counted = {} /\ JoinedNow = {}
  BY DEF Init, Counted, JoinedNow, Present, Live
<1>2. Cardinality({}) = 0
  BY FS_EmptySet
<1> QED BY <1>1, <1>2, NAssumption DEF Init, CountInv

\* A step that changes neither what is counted nor the counters.
LEMMA CountSame ==
  ASSUME CountInv, UNCHANGED counters, Counted' = Counted, JoinedNow' = JoinedNow,
         NoneDropped' => NoneDropped
  PROVE  CountInv'
BY DEF CountInv, counters

\* Clients go without an event: from now on the counters are too high.
LEMMA CountDropped ==
  ASSUME CountInv, UNCHANGED counters, Counted' \subseteq Counted, JoinedNow' \subseteq JoinedNow,
         ~NoneDropped'
  PROVE  CountInv'
<1>1. /\ Cardinality(Counted') <= Cardinality(Counted) /\ Cardinality(JoinedNow') <= Cardinality(JoinedNow)
      /\ Cardinality(Counted') \in Nat /\ Cardinality(JoinedNow') \in Nat
  BY Finite, FS_Subset, FS_CardinalityType
<1> QED BY <1>1, Finite DEF CountInv, counters

\* The sets that are counted, split into what belongs to the other workers
\* and what to worker s, before a step of worker s and after it.
SplitBy(s, to, M, A, C, L) ==
  /\ Maps = M \cup Joined(s) /\ Maps' = M \cup Joined(s)'
  /\ OutAny = A \cup (IF pc[s] \in OutPlaces THEN {going[s]} ELSE {})
  /\ OutAny' = A \cup (IF to \in OutPlaces THEN {going'[s]} ELSE {})
  /\ OutAccept = C \cup (IF pc[s] \in {"counted", "left"} THEN {going[s]} ELSE {})
  /\ OutAccept' = C \cup (IF to \in {"counted", "left"} THEN {going'[s]} ELSE {})
  /\ OutJoin = L \cup (IF pc[s] = "left" THEN {going[s]} ELSE {})
  /\ OutJoin' = L \cup (IF to = "left" THEN {going'[s]} ELSE {})
  /\ Held(s) \cap (M \cup A \cup C \cup L) = {}

LEMMA Split ==
  ASSUME OwnInv, NEW s \in Servers, NEW to, WorkerMoves(s, to)
  PROVE  \E M, A, C, L : SplitBy(s, to, M, A, C, L)
<1>1. /\ Shapes /\ QueueInv /\ (\A t \in Servers : GoingInv(t)) /\ pc \in [Servers -> WorkerPlaces]
  BY DEF OwnInv, DataInv, WorkerInv, Shapes, WorkShapes
<1>2. pc'[s] = to /\ \A t \in Servers \ {s} : pc'[t] = pc[t] /\ going'[t] = going[t] /\ Joined(t)' = Joined(t)
  BY <1>1 DEF WorkerMoves, Joined, Entries
<1> DEFINE M == UNION {Joined(t) : t \in Servers \ {s}}
           A == {going[t] : t \in {u \in Servers \ {s} : pc[u] \in OutPlaces}}
           C == {going[t] : t \in {u \in Servers \ {s} : pc[u] \in {"counted", "left"}}}
           L == {going[t] : t \in {u \in Servers \ {s} : pc[u] = "left"}}
<1>3. Maps = M \cup Joined(s) /\ Maps' = M \cup Joined(s)'
  BY <1>2 DEF Maps
<1>4. /\ OutAny = A \cup (IF pc[s] \in OutPlaces THEN {going[s]} ELSE {})
      /\ OutAny' = A \cup (IF to \in OutPlaces THEN {going'[s]} ELSE {})
  BY <1>2 DEF OutAny, Out, OutPlaces
<1>5. /\ OutAccept = C \cup (IF pc[s] \in {"counted", "left"} THEN {going[s]} ELSE {})
      /\ OutAccept' = C \cup (IF to \in {"counted", "left"} THEN {going'[s]} ELSE {})
  BY <1>2 DEF OutAccept, Out
<1>6. /\ OutJoin = L \cup (IF pc[s] = "left" THEN {going[s]} ELSE {})
      /\ OutJoin' = L \cup (IF to = "left" THEN {going'[s]} ELSE {})
  BY <1>2 DEF OutJoin, Out
<1>7. ASSUME NEW k \in Held(s), NEW t \in Servers \ {s}
      PROVE  k \notin Joined(t) /\ (pc[t] \in OutPlaces => k # going[t])
  <2>1. k \notin Held(t)
    BY <1>1 DEF QueueInv
  <2> QED BY <1>1, <2>1, HeldAreConns DEF GoingInv
<1>8. ASSUME NEW k \in Held(s) PROVE k \notin M /\ k \notin A /\ k \notin C /\ k \notin L
  BY <1>7 DEF OutPlaces
<1> HIDE DEF M, A, C, L
<1>9. Held(s) \cap (M \cup A \cup C \cup L) = {}
  BY <1>8
<1> QED BY <1>3, <1>4, <1>5, <1>6, <1>9 DEF SplitBy

\* What is true after a step of worker s was true before.
LEMMA DroppedMove ==
  ASSUME OwnInv, NEW s \in Servers, NEW to, WorkerMoves(s, to), runs' = runs
  PROVE  /\ NoneDropped' => to \notin {"cleared", "stopped"}
         /\ (pc[s] \notin {"cleared", "stopped"}) => (NoneDropped' => NoneDropped)
<1>1. pc'[s] = to /\ \A t \in Servers \ {s} : pc'[t] = pc[t]
  BY DEF OwnInv, Shapes, WorkShapes, WorkerMoves
<1> QED BY <1>1 DEF NoneDropped

\* A worker step that leaves the counters alone and drops nobody who is counted.
LEMMA CountMove ==
  ASSUME OwnInv, CountInv, NEW s \in Servers, NEW to, WorkerMoves(s, to), UNCHANGED <<counters, runs>>,
         Counted' = Counted, JoinedNow' = JoinedNow, pc[s] \notin {"cleared", "stopped"}
  PROVE  CountInv'
BY CountSame, DroppedMove

\* The steps of the control of a worker.
LEMMA CountControl ==
  ASSUME OwnInv, CountInv, NEW s \in Servers, runs' = runs,
         Control(s), ~LeaveAccept(s), ~LeaveJoin(s)
  PROVE  CountInv'
<1>1. PICK to \in WorkerPlaces : WorkerMoves(s, to)
  BY ControlOk
<1>2. /\ UNCHANGED <<objVars, queues, going>> /\ UNCHANGED counters
      /\ pc[s] \notin OutPlaces \cup {"cleared", "stopped"} /\ to \notin OutPlaces
  <2>1. pc'[s] = to
    BY <1>1 DEF OwnInv, Shapes, WorkShapes, WorkerMoves
  <2>2. /\ UNCHANGED counters /\ pc[s] \notin OutPlaces \cup {"cleared", "stopped"}
        /\ pc'[s] \notin OutPlaces
    BY DEF Control, LockJoin, JoinLoopEnds, Serve, Loop, WorkerFails, WorkerStops, Goto, OutPlaces, OwnInv,
           Shapes, WorkShapes
  <2> QED BY <2>1, <2>2, ControlOk
<1>3. Joined(s)' = Joined(s) /\ Present' = Present /\ Live' = Live
  BY <1>2, SameQueues DEF Present, Live, objVars
<1>4. Maps' = Maps /\ OutAny' = OutAny /\ OutAccept' = OutAccept /\ OutJoin' = OutJoin
  <2>1. PICK M, A, C, L : SplitBy(s, to, M, A, C, L)
    BY <1>1, Split
  <2> QED BY <1>2, <1>3, <2>1 DEF SplitBy, OutPlaces
<1>5. Counted' = Counted /\ JoinedNow' = JoinedNow
  BY <1>3, <1>4 DEF Counted, JoinedNow
<1> QED BY <1>1, <1>2, <1>5, CountMove

\* The end of the join loop, and the erasing of the entry of a deleted client.
LEMMA CountUnlock ==
  ASSUME OwnInv, CountInv, NEW s \in Servers, runs' = runs, UnlockJoin(s) \/ Erase(s)
  PROVE  CountInv'
<1> DEFINE to == "serve"
<1>1. /\ WorkerMoves(s, to) /\ UNCHANGED objVars /\ UNCHANGED counters
      /\ pc[s] \notin OutPlaces \cup {"cleared", "stopped"}
      /\ Joined(s)' \subseteq Joined(s) /\ \A k \in Live \cap Joined(s) : k \in Joined(s)'
  BY UnlockOk, EraseOk DEF UnlockJoin, Erase, Joined, Entries, OutPlaces
<1>2. Present' = Present /\ Live' = Live
  BY <1>1 DEF Present, Live, objVars
<1>3. Live \cap Maps' = Live \cap Maps /\ OutAny' = OutAny /\ OutAccept' = OutAccept /\ OutJoin' = OutJoin
  <2>1. PICK M, A, C, L : SplitBy(s, to, M, A, C, L)
    BY <1>1, Split
  <2> QED BY <1>1, <2>1 DEF SplitBy, OutPlaces
<1>4. Counted' = Counted /\ JoinedNow' = JoinedNow
  BY <1>2, <1>3 DEF Counted, JoinedNow
<1> QED BY <1>1, <1>4, CountMove

\* A client that leaves stays counted until its event.
LEMMA CountLeaving ==
  ASSUME OwnInv, CountInv, NEW s \in Servers, runs' = runs, NEW f \in Socks, Leave(s, f) \/ Remove(s, f)
  PROVE  CountInv'
<1> DEFINE to == "leaving"
<1>1. /\ WorkerMoves(s, to) /\ UNCHANGED objVars /\ UNCHANGED counters /\ going'[s] \in Joined(s)
      /\ pc[s] = "serve" /\ Joined(s)' \subseteq Joined(s) /\ Joined(s) \subseteq Joined(s)' \cup {going'[s]}
  <2>1. CASE Leave(s, f)
    BY <2>1, LeaveOk DEF Leave, Joined, Entries, queues
  <2>2. CASE Remove(s, f)
    BY <2>2, RemoveOk DEF Remove
  <2> QED BY <2>1, <2>2
<1>2. Present' = Present /\ Live' = Live
  BY <1>1 DEF Present, Live, objVars
<1>3. Maps' \cup OutAny' = Maps \cup OutAny /\ OutAccept' = OutAccept /\ OutJoin' = OutJoin
  <2>1. PICK M, A, C, L : SplitBy(s, to, M, A, C, L)
    BY <1>1, Split
  <2> QED BY <1>1, <2>1 DEF SplitBy, OutPlaces
<1>4. Counted' = Counted /\ JoinedNow' = JoinedNow
  BY <1>2, <1>3 DEF Counted, JoinedNow
<1> QED BY <1>1, <1>4, CountMove

\* A Client that is deleted is no longer counted.
LEMMA CountDelete ==
  ASSUME OwnInv, CountInv, NEW s \in Servers, runs' = runs, DeleteClient(s)
  PROVE  CountInv'
<1>1. PICK to \in {"erase", "serve"} : WorkerMoves(s, to)
  BY DeleteClientOk
<1>2. /\ going[s] \in Conns /\ st' = [st EXCEPT ![going[s]] = "freed"] /\ UNCHANGED queues
      /\ pc[s] = "left" /\ UNCHANGED counters
      /\ st \in [Conns -> {"none", "accepted", "live", "refused", "freed"}]
  BY DeleteClientOk DEF DeleteClient, OwnInv, Shapes, ObjShapes
<1>3. Joined(s)' = Joined(s) /\ Present' = Present \ {going[s]} /\ Live' = Live \ {going[s]}
  BY <1>2 DEF Present, Live, Joined, Entries, queues
<1>4. /\ Maps' = Maps /\ OutAny = OutAny' \cup {going[s]} /\ OutAccept = OutAccept' \cup {going[s]}
      /\ OutJoin = OutJoin' \cup {going[s]}
  <2>1. PICK M, A, C, L : SplitBy(s, to, M, A, C, L)
    BY <1>1, Split
  <2> QED BY <1>1, <1>2, <1>3, <2>1 DEF SplitBy, OutPlaces
<1>5. Counted' = Counted /\ JoinedNow' = JoinedNow
  BY <1>3, <1>4 DEF Counted, JoinedNow
<1> QED BY <1>1, <1>2, <1>5, CountMove

\* _clientAccept-- and _clientJoin-- for a client that leaves.
LEMMA CountLeave ==
  ASSUME OwnInv, CountInv, NEW s \in Servers, runs' = runs, LeaveAccept(s) \/ LeaveJoin(s)
  PROVE  CountInv'
<1>1. PICK to \in WorkerPlaces : WorkerMoves(s, to)
  BY ControlOk DEF Control
<1>2. /\ pc'[s] = to /\ GoingInv(s) /\ UNCHANGED <<objVars, queues, going>>
      /\ going[s] # NoConn => going[s] \in Held(s) /\ going[s] \in Conns
  <2>1. Shapes /\ GoingInv(s) /\ pc'[s] = to
    BY <1>1 DEF OwnInv, DataInv, WorkerInv, Shapes, WorkShapes, WorkerMoves
  <2> QED BY <2>1, HeldAreConns DEF LeaveAccept, LeaveJoin
<1>3. PICK k \in Conns : k = going[s] /\ st[k] = "live" /\ k \in Held(s)
  BY <1>2 DEF GoingInv, OutPlaces, LeaveAccept, LeaveJoin
<1>4. /\ Present' = Present /\ Live' = Live /\ k \in Live /\ k \in Present
      /\ Joined(s)' = Joined(s) /\ going'[s] = k
  BY <1>2, <1>3, SameQueues DEF Present, Live, objVars
<1>5. NoneDropped' => NoneDropped
  BY <1>1, DroppedMove DEF LeaveAccept, LeaveJoin
<1>6. CASE LeaveAccept(s)
  <2>1. pc[s] = "leaving" /\ to = "counted" /\ clientAccept' = clientAccept - 1 /\ clientJoin' = clientJoin
    BY <1>2, <1>6 DEF LeaveAccept, Goto, OwnInv, Shapes, WorkShapes
  <2>2. Maps' = Maps /\ OutAny' = OutAny /\ OutAccept' = OutAccept \cup {k} /\ k \notin OutAccept /\ OutJoin' = OutJoin
    <3>1. PICK M, A, C, L : SplitBy(s, to, M, A, C, L)
      BY <1>1, Split
    <3> QED BY <1>3, <1>4, <2>1, <3>1 DEF SplitBy, OutPlaces
  <2>3. Counted' = Counted \ {k} /\ k \in Counted /\ JoinedNow' = JoinedNow
    BY <1>4, <2>2 DEF Counted, JoinedNow
  <2>4. Cardinality(Counted') = Cardinality(Counted) - 1 /\ Cardinality(Counted') \in Nat
    BY <2>3, Finite, FS_RemoveElement, FS_CardinalityType
  <2> QED BY <1>5, <2>1, <2>3, <2>4, Finite, NAssumption DEF CountInv
<1>7. CASE LeaveJoin(s)
  <2>1. pc[s] = "counted" /\ to = "left" /\ clientJoin' = clientJoin - 1 /\ clientAccept' = clientAccept
    BY <1>2, <1>7 DEF LeaveJoin, Goto, OwnInv, Shapes, WorkShapes
  <2>2. /\ Maps' = Maps /\ OutAny' = OutAny /\ k \in OutAny /\ OutAccept' = OutAccept
        /\ OutJoin' = OutJoin \cup {k} /\ k \notin OutJoin
    <3>1. PICK M, A, C, L : SplitBy(s, to, M, A, C, L)
      BY <1>1, Split
    <3> QED BY <1>3, <1>4, <2>1, <3>1 DEF SplitBy, OutPlaces
  <2>3. JoinedNow' = JoinedNow \ {k} /\ k \in JoinedNow /\ Counted' = Counted
    BY <1>4, <2>2 DEF Counted, JoinedNow
  <2>4. Cardinality(JoinedNow') = Cardinality(JoinedNow) - 1 /\ Cardinality(JoinedNow') \in Nat
    BY <2>3, Finite, FS_RemoveElement, FS_CardinalityType
  <2> QED BY <1>5, <2>1, <2>3, <2>4, Finite DEF CountInv
<1> QED BY <1>6, <1>7

\* _clientJoin++ for a client that joins.
LEMMA CountJoin ==
  ASSUME OwnInv, CountInv, NEW s \in Servers, runs' = runs, Join(s)
  PROVE  CountInv'
<1> DEFINE to == "join"
<1>1. /\ WorkerMoves(s, to) /\ pc[s] = "join" /\ UNCHANGED <<objVars, clientAccept>>
      /\ clientJoin' = clientJoin + 1
  BY JoinOk DEF Join
<1>2. PICK k \in Buffered(s) : st[k] = "live" /\ k \notin Joined(s) /\ Joined(s)' = Joined(s) \cup {k}
  BY JoinAdds
<1>3. Present' = Present /\ Live' = Live /\ k \in Live /\ k \in Held(s)
  BY <1>1, <1>2, HeldAreConns DEF OwnInv, Present, Live, objVars
<1>4. /\ Maps' = Maps \cup {k} /\ k \notin Maps /\ k \notin OutAny /\ k \notin OutJoin
      /\ OutAny' = OutAny /\ OutAccept' = OutAccept /\ OutJoin' = OutJoin
  <2>1. PICK M, A, C, L : SplitBy(s, to, M, A, C, L)
    BY <1>1, Split
  <2> QED BY <1>1, <1>2, <1>3, <2>1 DEF SplitBy, OutPlaces
<1>5. Counted' = Counted /\ JoinedNow' = JoinedNow \cup {k} /\ k \notin JoinedNow
  BY <1>3, <1>4 DEF Counted, JoinedNow
<1>6. Cardinality(JoinedNow') = Cardinality(JoinedNow) + 1
  BY <1>5, Finite, FS_AddElement
<1>7. NoneDropped' => NoneDropped
  BY <1>1, DroppedMove
<1> QED BY <1>1, <1>5, <1>6, <1>7, Finite DEF CountInv

\* A worker that ends drops its clients without an event.
LEMMA CountEnds ==
  ASSUME OwnInv, CountInv, NEW s \in Servers, runs' = runs, DeleteAll(s) \/ EmptyQueues(s)
  PROVE  CountInv'
<1>1. PICK to \in {"cleared", "stopped"} : WorkerMoves(s, to)
  BY DeleteAllOk, EmptyOk
<1>2. pc[s] \in {"clear", "cleared"} /\ UNCHANGED counters /\ Joined(s)' \subseteq Joined(s)
  BY DeleteAllOk, EmptyOk, SameQueues DEF DeleteAll, EmptyQueues
<1>3. Present' \subseteq Present /\ Live' \subseteq Live
  BY DEF DeleteAll, EmptyQueues, Present, Live, objVars
<1>4. Maps' \subseteq Maps /\ OutAny' = OutAny /\ OutAccept' = OutAccept /\ OutJoin' = OutJoin
  <2>1. PICK M, A, C, L : SplitBy(s, to, M, A, C, L)
    BY <1>1, Split
  <2> QED BY <1>1, <1>2, <2>1 DEF SplitBy, OutPlaces
<1>5. Counted' \subseteq Counted /\ JoinedNow' \subseteq JoinedNow
  BY <1>3, <1>4 DEF Counted, JoinedNow
<1> QED BY <1>1, <1>2, <1>5, CountDropped, DroppedMove

\* Every step keeps the counters right, relative to the ownership invariant.
LEMMA CountStep == OwnInv /\ CountInv /\ [Next]_vars => CountInv'
<1> SUFFICES ASSUME OwnInv, CountInv, [Next]_vars PROVE CountInv'
  OBVIOUS
<1>1. /\ Shapes /\ AccInv /\ MainInv /\ QueueInv /\ runs \in 1..2
      /\ st \in [Conns -> {"none", "accepted", "live", "refused", "freed"}]
      /\ \A s \in Servers : GoingInv(s)
  BY DEF OwnInv, DataInv, WorkerInv, Shapes, ObjShapes, MainShapes
<1>2. ASSUME NEW k \in Conns, \A s \in Servers : k \notin Held(s)
      PROVE  k \notin Maps /\ k \notin OutAny /\ k \notin OutAccept /\ k \notin OutJoin
  <2>1. \A s \in Servers : k \notin Joined(s) /\ (pc[s] \in OutPlaces => k # going[s])
    BY <1>1, <1>2, HeldAreConns DEF GoingInv
  <2> QED BY <2>1 DEF Maps, OutAny, OutAccept, OutJoin, Out, OutPlaces
<1>3. ASSUME UNCHANGED <<clients, pc, going>>
      PROVE  Maps' = Maps /\ OutAny' = OutAny /\ OutAccept' = OutAccept /\ OutJoin' = OutJoin
  BY <1>3 DEF Maps, Joined, Entries, OutAny, OutAccept, OutJoin, Out
<1>4. CASE \/ Poll \/ PollEnds \/ ScanSize \/ ScanCompare \/ AcceptorStops \/ AcceptorFails
           \/ Wakeup \/ ClearRun \/ CloseAccept \/ Closing \/ UNCHANGED vars
  <2>1. UNCHANGED <<objVars, counters, queues, pc, going, runs>>
    BY <1>4, QuietSteps
  <2>2. Counted' = Counted /\ JoinedNow' = JoinedNow
    BY <1>3, <2>1 DEF Counted, JoinedNow, Present, Live, objVars, queues
  <2>3. NoneDropped' => NoneDropped
    BY <2>1 DEF NoneDropped
  <2> QED BY <2>1, <2>2, <2>3, CountSame
<1>5. ASSUME NEW k \in Conns, Refuse(k) PROVE CountInv'
  <2>1. /\ st[k] = "none" /\ st' = [st EXCEPT ![k] = "refused"]
        /\ UNCHANGED <<counters, clients, pc, going, runs>>
    BY <1>5 DEF Refuse, Connecting, queues, workVars, mainVars
  <2>2. Counted' = Counted /\ JoinedNow' = JoinedNow
    BY <1>1, <1>3, <2>1 DEF Counted, JoinedNow, Present, Live
  <2>3. NoneDropped' => NoneDropped
    BY <2>1 DEF NoneDropped
  <2> QED BY <2>1, <2>2, <2>3, CountSame
<1>6. ASSUME NEW k \in Conns, NEW f \in Socks, Accept(k, f) PROVE CountInv'
  <2>1. /\ st[k] = "none" /\ st' = [st EXCEPT ![k] = "accepted"] /\ clientAccept < MaxClient
        /\ clientAccept' = clientAccept + 1 /\ clientJoin' = clientJoin
        /\ UNCHANGED <<clients, pc, going, runs>>
    BY <1>6 DEF Accept, Connecting, HasRoom, queues, workVars, mainVars
  <2>2. \A s \in Servers : k \notin Held(s)
    BY <1>1, <2>1 DEF QueueInv
  <2>3. k \notin OutAccept
    BY <1>2, <2>2
  <2>4. /\ Counted' = Counted \cup {k} /\ k \notin Counted /\ JoinedNow' = JoinedNow
    BY <1>1, <1>3, <2>1, <2>3 DEF Counted, JoinedNow, Present, Live
  <2>5. Cardinality(Counted') = Cardinality(Counted) + 1
    BY <2>4, Finite, FS_AddElement
  <2>6. NoneDropped' => NoneDropped
    BY <2>1 DEF NoneDropped
  <2> QED BY <2>1, <2>4, <2>5, <2>6, Finite, NAssumption DEF CountInv
<1>7. CASE NewClient
  <2>1. /\ accConn \in Conns /\ st[accConn] = "accepted" /\ \A s \in Servers : accConn \notin Held(s)
    BY <1>1, <1>7 DEF NewClient, AccInv, Shapes, AccShapes
  <2>2. /\ st' = [st EXCEPT ![accConn] = "live"]
        /\ UNCHANGED <<counters, clients, pc, going, runs>>
    BY <1>7 DEF NewClient, queues, workVars, mainVars
  <2>3. accConn \notin Maps /\ accConn \notin OutAny
    BY <1>2, <2>1
  <2>4. Present' = Present /\ Live' = Live \cup {accConn}
    BY <1>1, <2>1, <2>2 DEF Present, Live
  <2>5. Counted' = Counted /\ JoinedNow' = JoinedNow
    BY <1>3, <2>2, <2>3, <2>4 DEF Counted, JoinedNow
  <2>6. NoneDropped' => NoneDropped
    BY <2>2 DEF NoneDropped
  <2> QED BY <2>2, <2>5, <2>6, CountSame
<1>8. CASE AddClient
  <2>1. UNCHANGED <<objVars, counters, clients, pc, going, runs>>
    BY <1>8 DEF AddClient, workVars, mainVars
  <2>2. Counted' = Counted /\ JoinedNow' = JoinedNow
    BY <1>3, <2>1 DEF Counted, JoinedNow, Present, Live, objVars
  <2>3. NoneDropped' => NoneDropped
    BY <2>1 DEF NoneDropped
  <2> QED BY <2>1, <2>2, <2>3, CountSame
<1>9. ASSUME NEW s \in Servers, Work(s) \/ Leaving(s) \/ WorkerFails(s) PROVE CountInv'
  <2>1. runs' = runs
    BY <1>9, WorkerGoes DEF mainVars
  <2> QED BY <1>9, <2>1, CountControl, CountUnlock, CountLeaving, CountDelete, CountLeave, CountJoin,
             CountEnds DEF Work, Leaving, Control
<1>10. CASE Restart
  <2>1. /\ UNCHANGED <<objVars, counters>> /\ runs = 1 /\ runs' = runs + 1
        /\ \A s \in Servers : Joined(s)' = {} /\ pc'[s] = "top"
    BY <1>10, RestartOk DEF Restart
  <2>2. \A s \in Servers : pc[s] \notin OutPlaces
    BY <1>1, <1>10 DEF Restart, MainInv, Dropping, OutPlaces
  <2>3. OutAccept = {} /\ OutAccept' = {} /\ OutAny' = {} /\ Maps' = {}
    BY <2>1, <2>2 DEF OutAny, OutAccept, Out, OutPlaces, Maps
  <2>4. Counted' \subseteq Counted /\ JoinedNow' \subseteq JoinedNow /\ ~NoneDropped'
    BY <2>1, <2>3 DEF Counted, JoinedNow, Present, objVars, NoneDropped
  <2> QED BY <2>1, <2>4, CountDropped
<1> QED BY <1>4, <1>5, <1>6, <1>7, <1>8, <1>9, <1>10 DEF Next, Acceptor, Connect

\* The three invariants hold together.
LEMMA AllInvHold == Spec => [](OwnInv /\ KeptInv /\ CountInv)
<1>1. Init => OwnInv /\ KeptInv /\ CountInv
  BY OwnInit, KeptInit, CountInit
<1>2. OwnInv /\ KeptInv /\ CountInv /\ [Next]_vars => (OwnInv /\ KeptInv /\ CountInv)'
  BY OwnStep, KeptStep, CountStep
<1> QED BY <1>1, <1>2, PTL DEF Spec

-----------------------------------------------------------------------------
\* Every variable of TcpServer and of its workers keeps its type; the
\* counters are never negative.
THEOREM TypeCorrect == Spec => []TypeOK
<1>1. OwnInv /\ KeptInv /\ CountInv => TypeOK
  BY DEF OwnInv, Shapes, ObjShapes, QueueShapes, WorkShapes, AccShapes, MainShapes, CountInv, TypeOK
<1> QED BY <1>1, AllInvHold, PTL

\* The workers that have decremented _clientAccept for a client they have
\* not yet deleted are at least as many as these clients.
LEMMA UncountedBound ==
  IsFiniteSet(OutAccept) /\ Cardinality(OutAccept) <= Cardinality(Uncounted)
  /\ Cardinality(OutAccept) \in Nat /\ Cardinality(Uncounted) \in Nat
<1>1. IsFiniteSet(Servers)
  BY NAssumption, FS_Interval DEF Servers
<1>2. IsFiniteSet(Uncounted)
  BY <1>1, FS_Subset DEF Uncounted
<1> DEFINE g == [s \in Uncounted |-> going[s]]
<1>3. g \in Surjection(Uncounted, OutAccept)
  BY Fun_IsSurj DEF Uncounted, OutAccept, Out
<1>4. IsFiniteSet(OutAccept) /\ Cardinality(OutAccept) <= Cardinality(Uncounted)
  BY <1>2, <1>3, FS_Surjection
<1> QED BY <1>2, <1>4, FS_CardinalityType

\* The counter of the accept thread never exceeds _nMaxClient, with any number
\* of workers that decrement it and in a second start; and no more Client
\* objects exist than it says but those that workers are just deleting.
THEOREM LimitHolds == Spec => []LimitRespected
<1>1. ASSUME CountInv PROVE LimitRespected
  <2>1. Live \subseteq Counted \cup OutAccept
    BY DEF Live, Counted, Present
  <2>2. IsFiniteSet(Counted) /\ IsFiniteSet(OutAccept)
    BY Finite, UncountedBound
  <2>3. /\ Cardinality(Counted \cup OutAccept)
             = Cardinality(Counted) + Cardinality(OutAccept) - Cardinality(Counted \cap OutAccept)
        /\ IsFiniteSet(Counted \cup OutAccept)
    BY <2>2, FS_Union
  <2>4. Cardinality(Live) <= Cardinality(Counted \cup OutAccept) /\ Cardinality(Live) \in Nat
    BY <2>1, <2>3, FS_Subset, FS_CardinalityType
  <2>5. Cardinality(Counted \cap OutAccept) \in Nat
    BY <2>2, FS_Intersection, FS_CardinalityType
  <2> QED BY <1>1, <2>3, <2>4, <2>5, Finite, UncountedBound, NAssumption DEF CountInv, LimitRespected
<1>2. OwnInv /\ KeptInv /\ CountInv => LimitRespected
  BY <1>1
<1> QED BY <1>2, AllInvHold, PTL

\* Until a worker drops its clients, _clientAccept is at every step the
\* number of connections that were accepted and have not left, _clientJoin
\* of the clients in the maps and of those that are leaving them.
THEOREM CountsAreExact == Spec => []CountsExact
<1>1. Counted = {k \in Conns : st[k] \in {"accepted", "live"}} \ Out({"counted", "left"})
  BY DEF Counted, Present, OutAccept
<1>2. JoinedNow = (Live \cap InMaps) \ Out({"left"})
  <2>1. InMaps = Maps \cup OutAny
    BY DEF InMaps, Maps, OutAny
  <2>2. OutJoin = Out({"left"})
    BY DEF OutJoin
  <2> QED BY <2>1, <2>2 DEF JoinedNow
<1>3. OwnInv /\ KeptInv /\ CountInv => CountsExact
  BY <1>1, <1>2 DEF CountInv, CountsExact, NoneDropped
<1> QED BY <1>3, AllInvHold, PTL

\* A worker that serves never reaches a deleted client through its map or its
\* buffer, whatever sockets the system hands out again.
THEOREM MapStaysSound == Spec => []MapSound
<1>1. OwnInv /\ KeptInv /\ CountInv => MapSound
  BY DEF OwnInv, DataInv, WorkerInv, MapInv, Stale, Joined, MapSound
<1> QED BY <1>1, AllInvHold, PTL

\* Without failures, and when Close has found the accept thread's _isRun set
\* and waited for it, every Client object is in the hands of the accept
\* thread or of exactly one worker, which holds it once and under its own
\* socket; in the first start this is always so.
THEOREM EachOwnedOnce == Spec => [](OwnedOnce /\ (runs = 1 /\ ~failing => ~rushed))
<1>1. ASSUME OwnInv, KeptInv, ~failing, ~rushed, NEW k \in Live
      PROVE  /\ IF accConn = k THEN Holders(k) = {} ELSE Cardinality(Holders(k)) = 1
             /\ \A s \in Servers :
                  /\ Cardinality({i \in 1..Len(clientsBuff[s]) : clientsBuff[s][i] = k}) <= 1
                  /\ \A f \in Entries(s) : clients[s][f] = k => f = sock[k]
  <2>1. /\ Shapes /\ QueueInv /\ AccInv /\ (\A s \in Servers : MapInv(s)) /\ k \in Conns /\ st[k] = "live"
        /\ k # NoConn
    BY <1>1, ConnAssumption DEF OwnInv, DataInv, WorkerInv, Live
  <2>2. Holders(k) = {s \in Servers : k \in Held(s)}
    BY <2>1 DEF Holders, Held
  <2>3. accConn = k => Holders(k) = {}
    BY <2>1, <2>2 DEF AccInv
  <2>4. ASSUME accConn # k PROVE Cardinality(Holders(k)) = 1
    <3>1. PICK s \in Servers : k \in Held(s)
      BY <1>1, <2>4 DEF KeptInv
    <3>2. Holders(k) = {s}
      BY <2>1, <2>2, <3>1 DEF QueueInv
    <3> QED BY <3>2, FS_Singleton
  <2>5. ASSUME NEW s \in Servers
        PROVE  Cardinality({i \in 1..Len(clientsBuff[s]) : clientsBuff[s][i] = k}) <= 1
    <3> DEFINE I == {i \in 1..Len(clientsBuff[s]) : clientsBuff[s][i] = k}
    <3>1. CASE I = {}
      BY <3>1, FS_EmptySet
    <3>2. ASSUME NEW i \in I PROVE Cardinality(I) <= 1
      <4>1. i \in 1..Len(clientsBuff[s]) /\ clientsBuff[s][i] = k
        OBVIOUS
      <4>2. ASSUME NEW j \in I PROVE j = i
        <5>1. j \in 1..Len(clientsBuff[s]) /\ clientsBuff[s][j] = k
          OBVIOUS
        <5> HIDE DEF I
        <5> QED BY <2>1, <4>1, <5>1 DEF QueueInv
      <4>3. I = {i}
        BY <4>2
      <4>4. Cardinality(I) = 1
        <5> HIDE DEF I
        <5> QED BY <4>3, FS_Singleton
      <4> QED BY <4>4
    <3> QED BY <3>1, <3>2
  <2>6. \A s \in Servers : \A f \in Entries(s) : clients[s][f] = k => f = sock[k]
    BY <2>1 DEF MapInv
  <2> QED BY <2>3, <2>4, <2>5, <2>6
<1>2. OwnInv /\ KeptInv /\ CountInv => OwnedOnce /\ (runs = 1 /\ ~failing => ~rushed)
  BY <1>1 DEF OwnedOnce, OwnInv, AcceptInv
<1> QED BY <1>2, AllInvHold, PTL
=============================================================================
