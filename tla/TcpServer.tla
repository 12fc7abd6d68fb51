------------------------------ MODULE TcpServer ------------------------------
(***************************************************************************)
(* TcpServer.hpp with the workers of Server.hpp: the accept thread creates *)
(* a Client for every connection and gives it to the worker with the       *)
(* fewest clients; the worker moves it from _clientsBuff to _clients,      *)
(* serves it and deletes it; the owning thread closes everything and may   *)
(* start again.                                                            *)
(*                                                                         *)
(* What a worker does with the data of its clients is IocpServer's         *)
(* subject; here a client that is served may leave at any time.  Sockets   *)
(* are numbers the system reuses as soon as they are closed, and _clients  *)
(* is a map indexed by them.                                               *)
(*                                                                         *)
(* Thread::Close waits only for a thread whose _isRun is still set.  The   *)
(* object of the accept thread is used again by every start, so the thread *)
(* of the first start may still write _isRun = false when the second runs. *)
(* What a thread does to a worker that is already deleted has no defined   *)
(* outcome: such a thread takes no step here.                              *)
(***************************************************************************)
EXTENDS Integers, Sequences, FiniteSets

CONSTANTS
  Conns,      \* connections the peers may ever make
  Socks,      \* socket numbers of the system
  LowestFirst, \* is a new socket given the lowest free number, as POSIX says, or any?
  N,          \* nCELLServer
  MaxClient,  \* _nMaxClient
  MaxRuns, MaxFailingRuns,  \* bounds: times the owner starts the server in an
              \* execution without and with failures.  A third start could find two
              \* accept threads of earlier ones, of which the module keeps one
  Failures,   \* subset of BOOLEAN: the values failing may have
  NoConn

ASSUME NAssumption == N \in Nat \ {0} /\ MaxClient \in Nat /\ {MaxRuns, MaxFailingRuns} \subseteq {1, 2}
ASSUME ConnAssumption == /\ NoConn \notin Conns /\ Failures \subseteq BOOLEAN
                         /\ IsFiniteSet(Conns) /\ IsFiniteSet(Socks)
                         /\ Socks \subseteq Nat \ {0} /\ LowestFirst \in BOOLEAN

Servers == 1..N

VARIABLES
  st,           \* a connection: "none", "accepted" (counted, its Client not yet
                \* created), "live" (its Client exists), "refused", "freed"
  sock,         \* its socket, 0 without one
  clientAccept, clientJoin,   \* the counters of TcpServer
  clientsBuff,  \* per worker: Server::_clientsBuff
  clients,      \* per worker: Server::_clients, from sockets to clients
  run,          \* per worker: Thread::_isRun
  pc,           \* per worker: where OnRun is
  cur,          \* per worker: the next index of the join loop, or the socket
                \* whose entry is to be erased (0: erased already)
  going,        \* per worker: the client in OnClientLeave, NoConn without one
  accRun, acc,  \* the accept Thread: _isRun, and where the thread of the newest
  permits, old, \* start is; the wakeups its _sem keeps, and where the thread of
                \* the start before is
  accConn, accMin, accIdx,    \* local variables of the newest thread
  accRead, accDiff,     \* sizes it has read for the comparison of accMin with accIdx,
                        \* and their sum, those of accIdx negative
  main,         \* the owner: "open", "accept" (closing the accept thread),
                \* "delete" (deleting the workers in order), "closed"
  deleting,     \* the worker it is deleting
  waiting,      \* does the Thread::Close it is in wait for the thread?
  rushed,       \* history: in this start Close found _isRun of the accept thread
                \* cleared and did not wait
  runs,         \* how often it called Start
  failing       \* can DoNetEvents and the wait of the accept thread fail in
                \* this execution?  It never changes

objVars  == <<st, sock>>
counters == <<clientAccept, clientJoin>>
queues   == <<clientsBuff, clients>>
workVars == <<run, pc, cur, going>>
scanVars == <<accConn, accMin, accIdx, accRead, accDiff>>
accVars  == <<accRun, acc, permits, old, scanVars>>
mainVars == <<main, deleting, waiting, rushed, runs, failing>>
vars == <<objVars, counters, queues, workVars, accVars, mainVars>>

Live == {k \in Conns : st[k] = "live"}
FreeSocks == Socks \ {sock[k] : k \in Conns}
NextSock(f) == f \in FreeSocks /\ (LowestFirst => \A g \in FreeSocks : f <= g)
Entries(s) == {f \in Socks : clients[s][f] # NoConn}
Joined(s)  == {clients[s][f] : f \in Entries(s)}
Buffered(s) == {clientsBuff[s][i] : i \in 1..Len(clientsBuff[s])}

WorkerPlaces == {"top", "join", "joined", "serve", "leaving", "counted", "left", "erase",
                 "clear", "cleared", "stopped"}
Ending == {"wake", "clear", "end"}

TypeOK ==
  /\ st \in [Conns -> {"none", "accepted", "live", "refused", "freed"}]
  /\ sock \in [Conns -> Socks \cup {0}]
  /\ clientAccept \in Nat /\ clientJoin \in Nat
  /\ clientsBuff \in [Servers -> Seq(Conns)]
  /\ clients \in [Servers -> [Socks -> Conns \cup {NoConn}]]
  /\ run \in [Servers -> BOOLEAN] /\ pc \in [Servers -> WorkerPlaces]
  /\ cur \in [Servers -> Nat] /\ going \in [Servers -> Conns \cup {NoConn}]
  /\ accRun \in BOOLEAN /\ acc \in {"run", "poll", "new", "scan", "add"} \cup Ending
  /\ permits \in Nat /\ old \in {"none"} \cup Ending
  /\ accConn \in Conns \cup {NoConn} /\ accMin \in Servers /\ accIdx \in 1..(N + 1)
  /\ accRead \in 0..3 /\ accDiff \in Int
  /\ main \in {"open", "accept", "delete", "closed"} /\ deleting \in 0..N
  /\ waiting \in BOOLEAN /\ rushed \in BOOLEAN
  /\ runs \in 1..2 /\ failing \in Failures

Init ==
  /\ st = [k \in Conns |-> "none"]
  /\ sock = [k \in Conns |-> 0]
  /\ clientAccept = 0 /\ clientJoin = 0
  /\ clientsBuff = [s \in Servers |-> <<>>]
  /\ clients = [s \in Servers |-> [f \in Socks |-> NoConn]]
  /\ run = [s \in Servers |-> TRUE] /\ pc = [s \in Servers |-> "top"]
  /\ cur = [s \in Servers |-> 0] /\ going = [s \in Servers |-> NoConn]
  /\ accRun = TRUE /\ acc = "run" /\ permits = 0 /\ old = "none"
  /\ accConn = NoConn /\ accMin = 1 /\ accIdx = 1 /\ accRead = 0 /\ accDiff = 0
  /\ main = "open" /\ deleting = 0 /\ waiting = FALSE /\ rushed = FALSE /\ runs = 1
  /\ failing \in Failures

\* Server object s is not yet deleted.
Exists(s) == main \in {"open", "accept"} \/ (main = "delete" /\ s >= deleting)

-----------------------------------------------------------------------------
(* The accept thread of the newest start                                   *)

AccGoto(label) == acc' = label /\ UNCHANGED <<permits, old>>

\* The head of the loop: isRun, then the wait for the listening socket ...
Poll ==
  /\ acc = "run" /\ accRun /\ AccGoto("poll")
  /\ UNCHANGED <<objVars, counters, queues, workVars, accRun, scanVars, mainVars>>

\* ... which times out after a moment.
PollEnds ==
  /\ acc = "poll" /\ AccGoto("run")
  /\ UNCHANGED <<objVars, counters, queues, workVars, accRun, scanVars, mainVars>>

\* The next peer to connect; which of those left it is does not matter.
Connecting(k) == /\ acc = "poll" /\ main # "closed"
                 /\ st[k] = "none" /\ k = CHOOSE c \in Conns : st[c] = "none"

HasRoom_OneMore == clientAccept <= MaxClient
HasRoom == clientAccept < MaxClient

\* Accept below the limit: the connection is counted.  Only this thread
\* increments the counter, so the test and the increment are one step.
Accept(k, f) ==
  /\ Connecting(k) /\ NextSock(f) /\ HasRoom
  /\ clientAccept' = clientAccept + 1
  /\ st' = [st EXCEPT ![k] = "accepted"] /\ sock' = [sock EXCEPT ![k] = f]
  /\ AccGoto("new") /\ accConn' = k
  /\ UNCHANGED <<clientJoin, queues, workVars, accRun, accMin, accIdx, accRead, accDiff, mainVars>>

\* Accept at the limit: the socket is destroyed.
Refuse(k) ==
  /\ Connecting(k) /\ FreeSocks # {} /\ ~HasRoom
  /\ st' = [st EXCEPT ![k] = "refused"] /\ AccGoto("run")
  /\ UNCHANGED <<sock, counters, queues, workVars, accRun, scanVars, mainVars>>

\* new Client, and the search for a worker, whose loop first compares the
\* first worker with itself.
NewClient ==
  /\ acc = "new"
  /\ st' = [st EXCEPT ![accConn] = "live"]
  /\ AccGoto(IF N = 1 THEN "add" ELSE "scan")
  /\ accMin' = 1 /\ accIdx' = 2
  /\ UNCHANGED <<sock, counters, queues, workVars, accRun, accConn, accRead, accDiff, mainVars>>

\* addClientToCELLServer compares Server::getClientCount of two workers, which
\* reads the sizes of _clients and _clientsBuff one after the other and
\* without the lock: the i-th of the four sizes, those of accIdx negative.
SizeRead(i) == CASE i = 1 -> Cardinality(Entries(accMin))
                 [] i = 2 -> Len(clientsBuff[accMin])
                 [] i = 3 -> -Cardinality(Entries(accIdx))
                 [] i = 4 -> -Len(clientsBuff[accIdx])

ScanSize ==
  /\ acc = "scan" /\ accRead < 3 /\ Exists(accMin) /\ Exists(accIdx)
  /\ accRead' = accRead + 1 /\ accDiff' = accDiff + SizeRead(accRead + 1)
  /\ UNCHANGED <<objVars, counters, queues, workVars, accRun, acc, permits, old,
                 accConn, accMin, accIdx, mainVars>>

ScanCompare ==
  /\ acc = "scan" /\ accRead = 3 /\ Exists(accMin) /\ Exists(accIdx)
  /\ accMin' = (IF accDiff + SizeRead(4) > 0 THEN accIdx ELSE accMin)
  /\ accIdx' = accIdx + 1 /\ accRead' = 0 /\ accDiff' = 0
  /\ AccGoto(IF accIdx = N THEN "add" ELSE "scan")
  /\ UNCHANGED <<objVars, counters, queues, workVars, accRun, accConn, mainVars>>

\* Worker s holds Server::_mutex while it empties _clientsBuff.
Locked_Never(s) == FALSE
Locked(s) == pc[s] \in {"join", "joined"}

\* Server::addClient; the local variables of the search end here.
AddClient ==
  /\ acc = "add" /\ Exists(accMin) /\ ~Locked(accMin)
  /\ clientsBuff' = [clientsBuff EXCEPT ![accMin] = Append(@, accConn)]
  /\ AccGoto("run") /\ accConn' = NoConn /\ accMin' = 1 /\ accIdx' = 1
  /\ UNCHANGED <<objVars, counters, clients, workVars, accRun, accRead, accDiff, mainVars>>

\* The wait failed: OnRun calls Thread::Exit and leaves its loop.  That Exit
\* may block for ever in a Close is WorkerThread's subject.
AcceptorFails ==
  /\ failing /\ acc = "poll"
  /\ accRun' = FALSE /\ AccGoto("wake")
  /\ UNCHANGED <<objVars, counters, queues, workVars, scanVars, mainVars>>

AcceptorStops ==
  /\ acc = "run" /\ ~accRun /\ AccGoto("wake")
  /\ UNCHANGED <<objVars, counters, queues, workVars, accRun, scanVars, mainVars>>

\* The end of Thread::OnWork, in the newest thread or in the one before it:
\* first _sem.wakeup ...
Wakeup ==
  /\ \/ acc = "wake" /\ acc' = "clear" /\ UNCHANGED old
     \/ old = "wake" /\ old' = "clear" /\ UNCHANGED acc
  /\ permits' = permits + 1
  /\ UNCHANGED <<objVars, counters, queues, workVars, accRun, scanVars, mainVars>>

\* ... and then _isRun = false, without a look at what was started since.
ClearRun ==
  /\ \/ acc = "clear" /\ acc' = "end" /\ UNCHANGED old
     \/ old = "clear" /\ old' = "end" /\ UNCHANGED acc
  /\ accRun' = FALSE
  /\ UNCHANGED <<objVars, counters, queues, workVars, permits, scanVars, mainVars>>

-----------------------------------------------------------------------------
(* Worker s: Server::OnRun.  Its steps need the object, see Exists.        *)

Goto(s, label) == pc' = [pc EXCEPT ![s] = label]

NeedJoin_WhenServing(s) == clientsBuff[s] # <<>> /\ Entries(s) # {}
NeedJoin(s) == clientsBuff[s] # <<>>

LockJoin(s) ==
  /\ pc[s] = "top" /\ run[s] /\ NeedJoin(s)
  /\ Goto(s, "join") /\ cur' = [cur EXCEPT ![s] = 1]
  /\ UNCHANGED <<objVars, counters, queues, run, going, accVars, mainVars>>

\* One turn of the join loop: the entry of the map, OnNetJoin.
Join(s) ==
  /\ pc[s] = "join" /\ cur[s] <= Len(clientsBuff[s])
  /\ LET k == clientsBuff[s][cur[s]] IN clients' = [clients EXCEPT ![s][sock[k]] = k]
  /\ clientJoin' = clientJoin + 1
  /\ cur' = [cur EXCEPT ![s] = @ + 1]
  /\ UNCHANGED <<objVars, clientAccept, clientsBuff, run, pc, going, accVars, mainVars>>

\* The end of the loop, still under the mutex.
JoinLoopEnds(s) ==
  /\ pc[s] = "join" /\ cur[s] > Len(clientsBuff[s])
  /\ Goto(s, "joined")
  /\ UNCHANGED <<objVars, counters, queues, run, cur, going, accVars, mainVars>>

\* The buffer is cleared and the mutex released.
UnlockJoin(s) ==
  /\ pc[s] = "joined"
  /\ clientsBuff' = [clientsBuff EXCEPT ![s] = <<>>]
  /\ Goto(s, "serve") /\ cur' = [cur EXCEPT ![s] = 0]
  /\ UNCHANGED <<objVars, counters, clients, run, going, accVars, mainVars>>

\* Without new clients; a worker without clients just sleeps.
Serve(s) ==
  /\ pc[s] = "top" /\ run[s] /\ ~NeedJoin(s) /\ Entries(s) # {}
  /\ Goto(s, "serve")
  /\ UNCHANGED <<objVars, counters, queues, run, cur, going, accVars, mainVars>>

\* CheckTime and most of the DoNetEvents let a client leave and erase its
\* entry afterwards: by then the socket may belong to another connection.
Leave(s, f) ==
  /\ pc[s] = "serve" /\ f \in Entries(s)
  /\ Goto(s, "leaving") /\ cur' = [cur EXCEPT ![s] = f]
  /\ going' = [going EXCEPT ![s] = clients[s][f]]
  /\ UNCHANGED <<objVars, counters, queues, run, accVars, mainVars>>

\* rmClient of EpollServer and IocpServer erases the entry first.
Remove(s, f) ==
  /\ pc[s] = "serve" /\ f \in Entries(s)
  /\ clients' = [clients EXCEPT ![s][f] = NoConn]
  /\ Goto(s, "leaving") /\ going' = [going EXCEPT ![s] = clients[s][f]]
  /\ UNCHANGED <<objVars, counters, clientsBuff, run, cur, accVars, mainVars>>

\* Server::OnClientLeave: first TcpServer::OnNetLeave, one counter after the
\* other ...
LeaveAccept_Never(s) ==
  /\ pc[s] = "leaving" /\ Goto(s, "counted")
  /\ UNCHANGED <<objVars, counters, queues, run, cur, going, accVars, mainVars>>

LeaveAccept(s) ==
  /\ pc[s] = "leaving" /\ Goto(s, "counted")
  /\ clientAccept' = clientAccept - 1
  /\ UNCHANGED <<objVars, clientJoin, queues, run, cur, going, accVars, mainVars>>

LeaveJoin(s) ==
  /\ pc[s] = "counted" /\ Goto(s, "left")
  /\ clientJoin' = clientJoin - 1
  /\ UNCHANGED <<objVars, clientAccept, queues, run, cur, going, accVars, mainVars>>

\* ... then the Client is deleted, which closes its socket.  By now the
\* accept thread may have created another one in its place.
DeleteClient(s) ==
  /\ pc[s] = "left" /\ Goto(s, IF cur[s] # 0 THEN "erase" ELSE "serve")
  /\ st' = [st EXCEPT ![going[s]] = "freed"] /\ sock' = [sock EXCEPT ![going[s]] = 0]
  /\ going' = [going EXCEPT ![s] = NoConn]
  /\ UNCHANGED <<counters, queues, run, cur, accVars, mainVars>>

Erase_KeepEntry(s) ==
  /\ pc[s] = "erase"
  /\ Goto(s, "serve") /\ cur' = [cur EXCEPT ![s] = 0]
  /\ UNCHANGED <<objVars, counters, queues, run, going, accVars, mainVars>>

Erase(s) ==
  /\ pc[s] = "erase"
  /\ clients' = [clients EXCEPT ![s][cur[s]] = NoConn]
  /\ Goto(s, "serve") /\ cur' = [cur EXCEPT ![s] = 0]
  /\ UNCHANGED <<objVars, counters, clientsBuff, run, going, accVars, mainVars>>

\* DoNetEvents and DoMsg are done.
Loop(s) ==
  /\ pc[s] = "serve"
  /\ Goto(s, "top")
  /\ UNCHANGED <<objVars, counters, queues, run, cur, going, accVars, mainVars>>

\* DoNetEvents returned false: Thread::Exit and break.
WorkerFails(s) ==
  /\ failing /\ pc[s] = "serve"
  /\ run' = [run EXCEPT ![s] = FALSE]
  /\ Goto(s, "clear")
  /\ UNCHANGED <<objVars, counters, queues, cur, going, accVars, mainVars>>

ShouldStop(s) == ~run[s]

WorkerStops(s) ==
  /\ pc[s] = "top" /\ ShouldStop(s)
  /\ Goto(s, "clear")
  /\ UNCHANGED <<objVars, counters, queues, run, cur, going, accVars, mainVars>>

ToClear(s) == Joined(s) \cup Buffered(s)

DeleteAll(s) ==
  /\ pc[s] = "clear"
  /\ st' = [k \in Conns |-> IF k \in ToClear(s) THEN "freed" ELSE st[k]]
  /\ sock' = [k \in Conns |-> IF k \in ToClear(s) THEN 0 ELSE sock[k]]
  /\ Goto(s, "cleared")
  /\ UNCHANGED <<counters, queues, run, cur, going, accVars, mainVars>>

\* ... and then the queues are emptied.
EmptyQueues(s) ==
  /\ pc[s] = "cleared"
  /\ clients' = [clients EXCEPT ![s] = [f \in Socks |-> NoConn]]
  /\ clientsBuff' = [clientsBuff EXCEPT ![s] = <<>>]
  /\ Goto(s, "stopped")
  /\ UNCHANGED <<objVars, counters, run, cur, going, accVars, mainVars>>

-----------------------------------------------------------------------------
(* The owner: Close, which calls the Close of one thread after the other,  *)
(* and a new start.                                                        *)

CloseAccept ==
  /\ main = "open" /\ main' = "accept"
  /\ accRun' = FALSE /\ waiting' = accRun /\ rushed' = ~accRun
  /\ UNCHANGED <<objVars, counters, queues, workVars, acc, permits, old, scanVars,
                 deleting, runs, failing>>

\* The Close of the accept thread or of worker deleting has returned.
AcceptClosed == main = "accept" /\ (waiting => permits > 0)
WorkerClosed == main = "delete" /\ (waiting => pc[deleting] = "stopped")

\* delete _cellServers[s]: ~Server calls Server::Close.
DeleteServer(s) ==
  /\ \/ AcceptClosed /\ s = 1 /\ permits' = (IF waiting THEN permits - 1 ELSE permits)
     \/ WorkerClosed /\ s = deleting + 1 /\ UNCHANGED permits
  /\ main' = "delete" /\ deleting' = s
  /\ waiting' = run[s] /\ run' = [run EXCEPT ![s] = FALSE]
  /\ UNCHANGED <<objVars, counters, queues, pc, cur, going, accRun, acc, old, scanVars,
                 rushed, runs, failing>>

DestroySock ==
  /\ WorkerClosed /\ deleting = N
  /\ main' = "closed" /\ waiting' = FALSE
  /\ UNCHANGED <<objVars, counters, queues, workVars, accVars, deleting, rushed, runs, failing>>

\* InitSocket, Bind, Listen and Start on the same object: new workers, a new
\* accept thread in the Thread object of the first.
Restart ==
  /\ main = "closed" /\ runs < (IF failing THEN MaxFailingRuns ELSE MaxRuns)
  /\ runs' = runs + 1
  /\ clientsBuff' = [s \in Servers |-> <<>>]
  /\ clients' = [s \in Servers |-> [f \in Socks |-> NoConn]]
  /\ run' = [s \in Servers |-> TRUE] /\ pc' = [s \in Servers |-> "top"]
  /\ cur' = [s \in Servers |-> 0] /\ going' = [s \in Servers |-> NoConn]
  /\ accRun' = TRUE /\ acc' = "run" /\ old' = acc
  /\ main' = "open" /\ deleting' = 0 /\ rushed' = FALSE
  /\ UNCHANGED <<objVars, counters, permits, scanVars, waiting, failing>>

-----------------------------------------------------------------------------
Acceptor ==
  Poll \/ PollEnds \/ NewClient \/ ScanSize \/ ScanCompare \/ AddClient \/ AcceptorStops

Connect == \E k \in Conns : Refuse(k) \/ \E f \in Socks : Accept(k, f)

Work(s) ==
  Exists(s) /\ \/ LockJoin(s) \/ Join(s) \/ JoinLoopEnds(s) \/ UnlockJoin(s) \/ Serve(s)
               \/ LeaveAccept(s) \/ LeaveJoin(s) \/ DeleteClient(s) \/ Erase(s) \/ Loop(s)
               \/ WorkerStops(s) \/ DeleteAll(s) \/ EmptyQueues(s)

Leaving(s) == Exists(s) /\ \E f \in Socks : Leave(s, f) \/ Remove(s, f)

Closing == (\E s \in Servers : DeleteServer(s)) \/ DestroySock

Next ==
  \/ Acceptor \/ Connect \/ AcceptorFails \/ Wakeup \/ ClearRun
  \/ \E s \in Servers : Work(s) \/ Leaving(s) \/ (Exists(s) /\ WorkerFails(s))
  \/ CloseAccept \/ Closing \/ Restart

Spec == Init /\ [][Next]_vars

\* Every thread keeps running; connections, departures, failures and the
\* decision to close are not forced.
Fairness ==
  /\ WF_vars(Acceptor) /\ WF_vars(Wakeup \/ ClearRun)
  /\ \A s \in Servers : WF_vars(Work(s))
  /\ WF_vars(Closing)

FairSpec == Spec /\ Fairness

-----------------------------------------------------------------------------
(* Properties                                                              *)

\* The counter of the accept thread never passes _nMaxClient, although the
\* workers decrement it while it is tested and a new start keeps it; and
\* there are no more Client objects than it says but those that workers are
\* just deleting, at most one each.
Uncounted == {s \in Servers : pc[s] \in {"counted", "left"}}
LimitRespected ==
  clientAccept <= MaxClient /\ Cardinality(Live) <= clientAccept + Cardinality(Uncounted)

\* At most _nMaxClient clients exist (TcpServer.hpp:33 calls it the limit of
\* clients).  Does not hold: a client leaves the counter before it is deleted.
AtMostMaxClient == Cardinality(Live) <= MaxClient

\* Until a worker drops its clients (ClearClients does not raise the event)
\* the counters are exact at every step of every thread: _clientAccept is
\* the number of connections that were accepted and have not left, and
\* _clientJoin of the clients that are in a map or leaving it.
Out(places) == {going[s] : s \in {t \in Servers : pc[t] \in places}}
InMaps == (UNION {Joined(s) : s \in Servers}) \cup Out({"leaving", "counted", "left"})
CountsExact ==
  (runs = 1 /\ \A s \in Servers : pc[s] \notin {"cleared", "stopped"}) =>
    /\ clientAccept = Cardinality({k \in Conns : st[k] \in {"accepted", "live"}}
                                   \ Out({"counted", "left"}))
    /\ clientJoin = Cardinality((Live \cap InMaps) \ Out({"left"}))

\* Every Client object is in the hands of the accept thread or of exactly
\* one worker, which holds it once, under its own socket: no object is lost
\* by the reuse of a socket or by an addClient during the join loop, and
\* none is served by two threads.  Two cases lose a client: a worker that
\* failed may still be given one, and a Close that does not wait for the
\* accept thread deletes the workers while it may hold one.
Holders(k) == {s \in Servers : k \in Joined(s) \cup Buffered(s) \/ going[s] = k}
OwnedOnce ==
  ~failing /\ ~rushed => \A k \in Live :
    /\ IF accConn = k THEN Holders(k) = {} ELSE Cardinality(Holders(k)) = 1
    /\ \A s \in Servers : /\ Cardinality({i \in 1..Len(clientsBuff[s]) : clientsBuff[s][i] = k}) <= 1
                          /\ \A f \in Entries(s) : clients[s][f] = k => f = sock[k]

\* When Close has returned no Client object is left.  Does not hold: in a
\* second start Thread.hpp:81 of the first accept thread lets Close return at
\* once, and the second accept thread may still hold a client.
NoneAfterClose == ~failing /\ main = "closed" => Live = {}

\* A worker that serves its clients has no entry of a deleted one.
MapSound ==
  \A s \in Servers : pc[s] \in {"top", "join", "joined", "serve", "leaving", "counted", "left"} =>
    \A k \in Joined(s) \cup Buffered(s) : st[k] = "live"

\* When Close has returned no client is counted.  Does not hold: ClearClients
\* deletes clients without OnNetLeave.
CountsCleared == main = "closed" => clientAccept = 0 /\ clientJoin = 0

\* A new client is given to the worker with the fewest clients.  As long as
\* nobody has left, nothing changes these numbers during the search: a
\* client of a worker is in its buffer or in its map.  Does not hold: the
\* sizes are read one by one while the worker moves its clients.
FewestChosen ==
  acc = "add" /\ (\A k \in Conns : st[k] # "freed") =>
    \A s \in Servers :
      Cardinality(Joined(accMin) \cup Buffered(accMin)) <= Cardinality(Joined(s) \cup Buffered(s))

\* No accepted client waits for ever: each is joined by a worker, or deleted
\* because the server was closed, unless a worker failed before or Close did
\* not wait for the accept thread.  The peers are finitely many and none
\* waits twice, so it is enough that again and again no client waits.
Unjoined == {k \in Live : \A s \in Servers : k \notin Joined(s) /\ going[s] # k}
AcceptedJoins == (Unjoined # {} /\ ~failing) ~> (Unjoined = {} \/ rushed)
=============================================================================
