----------------------------- MODULE ClientProgram -----------------------------
(***************************************************************************)
(* The program of client.cpp: main starts a thread that reads commands and *)
(* nThread threads that run WorkThread; each of these creates its clients, *)
(* connects them, waits until all the threads are ready, and then sends    *)
(* and polls in turns until main, after the command exit, closes the       *)
(* threads one by one.  What a client sends is LoginEcho's subject and the *)
(* waiting of Close is WorkerThread's.                                     *)
(***************************************************************************)
EXTENDS Integers, FiniteSets

CONSTANTS
  NThread,     \* nThread
  NClient,     \* clients of one thread
  Losses       \* can a connection fail or be closed by the server?

ASSUME ProgramAssumption ==
  /\ NThread \in Nat \ {0} /\ NClient \in Nat \ {0}
  /\ Losses \in BOOLEAN

Threads == 1..NThread

VARIABLES
  cmdRun,      \* tCmd.isRun()
  main,        \* the thread main is closing, 0 before and NThread + 1 after
  run,         \* isRun() of every thread
  pc,          \* where WorkThread is
  idx,         \* its loop variable n, from 1
  client,      \* per thread: its clients; "null", "new" (not connected),
               \* "open" (isRun()), "closed" and "deleted"
  readyCount, nConnect,
  \* What may happen in this execution; neither of the two ever changes.
  waitErrors,  \* OnRun reports an error without closing the connection
  earlyExit    \* the command comes while clients are being created

shared == <<readyCount, nConnect>>
modes == <<waitErrors, earlyExit>>
programVars == <<cmdRun, main, run, pc, idx, client, shared, modes>>

Working == {"wait", "work", "poll", "close"}

ProgramTypeOK ==
  /\ cmdRun \in BOOLEAN /\ main \in 0..(NThread + 1)
  /\ run \in [Threads -> BOOLEAN]
  /\ pc \in [Threads -> Working \cup {"create", "connect", "ready", "end", "crashed"}]
  /\ idx \in [Threads -> 1..(NClient + 1)]
  /\ client \in [Threads -> [1..NClient -> {"null", "new", "open", "closed", "deleted"}]]
  /\ readyCount \in 0..NThread /\ nConnect \in Int
  /\ {waitErrors, earlyExit} \subseteq BOOLEAN

ProgramInit ==
  /\ cmdRun = TRUE /\ main = 0
  /\ run = [t \in Threads |-> TRUE] /\ pc = [t \in Threads |-> "create"]
  /\ idx = [t \in Threads |-> 1]
  /\ client = [t \in Threads |-> [n \in 1..NClient |-> "null"]]
  /\ readyCount = 0 /\ nConnect = 0
  /\ waitErrors \in BOOLEAN /\ earlyExit \in BOOLEAN

-----------------------------------------------------------------------------
(* WorkThread                                                              *)

\* Thread t goes from one of its loops to the next one and begins it.
NextLoop(t, from, to) ==
  /\ pc[t] = from
  /\ pc' = [pc EXCEPT ![t] = to] /\ idx' = [idx EXCEPT ![t] = 1]

\* Thread t is in a loop, at a client in one of the states of S.
AtClient(t, label, S) == pc[t] = label /\ idx[t] <= NClient /\ client[t][idx[t]] \in S

\* A turn of the loop leaves the client in state s.
Turn(t, s) ==
  /\ client' = [client EXCEPT ![t][idx[t]] = s]
  /\ idx' = [idx EXCEPT ![t] = @ + 1]
  /\ UNCHANGED <<cmdRun, main, run, pc, modes>>

Create(t) ==
  /\ run[t] /\ AtClient(t, "create", {"null"})
  /\ Turn(t, "new") /\ UNCHANGED shared

CreateDone(t) ==
  /\ ~run[t] \/ idx[t] > NClient
  /\ NextLoop(t, "create", "connect")
  /\ UNCHANGED <<cmdRun, main, run, client, shared, modes>>

\* InitSocket and Connect.
Connect(t) ==
  /\ run[t] /\ AtClient(t, "connect", {"new"}) /\ Turn(t, "open")
  /\ nConnect' = nConnect + 1 /\ UNCHANGED readyCount

\* One of them failed: break.
ConnectDone(t) ==
  /\ ~run[t] \/ idx[t] > NClient \/ Losses
  /\ NextLoop(t, "connect", "ready")
  /\ UNCHANGED <<cmdRun, main, run, client, shared, modes>>

Ready(t) ==
  /\ NextLoop(t, "ready", "wait")
  /\ readyCount' = readyCount + 1
  /\ UNCHANGED <<cmdRun, main, run, client, nConnect, modes>>

AllReady_OneLess(t) == ~run[t] \/ readyCount + 1 >= NThread
AllReady_NeverClosed(t) == readyCount >= NThread
\* The loop that waits for the other threads ends.
AllReady(t) == ~run[t] \/ readyCount >= NThread

WaitOthers(t) ==
  /\ AllReady(t)
  /\ NextLoop(t, "wait", "work")
  /\ UNCHANGED <<cmdRun, main, run, client, shared, modes>>

\* A turn of the main loop begins: SendTest of every client that runs.
SendTests(t) ==
  /\ run[t]
  /\ NextLoop(t, "work", "poll")
  /\ UNCHANGED <<cmdRun, main, run, client, shared, modes>>

\* OnRun of a client that runs, and one that does not is passed over.
PollOk(t) ==
  /\ AtClient(t, "poll", {"new", "open", "closed"})
  /\ Turn(t, client[t][idx[t]]) /\ UNCHANGED shared

PollLost_NotCounted(t) ==
  /\ Losses /\ AtClient(t, "poll", {"open"}) /\ Turn(t, "closed")
  /\ UNCHANGED shared

\* The connection broke: OnRun closed the client and returns false.
PollLost(t) ==
  /\ Losses /\ AtClient(t, "poll", {"open"}) /\ Turn(t, "closed")
  /\ nConnect' = nConnect - 1 /\ UNCHANGED readyCount

\* wait() of the port failed: OnRun returns false and the client stays.
\* The bound keeps nConnect from going down for ever.
PollError(t) ==
  /\ waitErrors /\ nConnect > -NClient
  /\ AtClient(t, "poll", {"open"}) /\ Turn(t, "open")
  /\ nConnect' = nConnect - 1 /\ UNCHANGED readyCount

PollDone(t) ==
  /\ idx[t] > NClient
  /\ NextLoop(t, "poll", "work")
  /\ UNCHANGED <<cmdRun, main, run, client, shared, modes>>

MainLoopEnds(t) ==
  /\ ~run[t]
  /\ NextLoop(t, "work", "close")
  /\ UNCHANGED <<cmdRun, main, run, client, shared, modes>>

DeleteClient_KeepsUnconnected(t) ==
  /\ AtClient(t, "close", {"new", "open", "closed"})
  /\ Turn(t, IF client[t][idx[t]] = "new" THEN "new" ELSE "deleted") /\ UNCHANGED shared

\* Close and delete; the destructor closes a second time.
DeleteClient(t) ==
  /\ AtClient(t, "close", {"new", "open", "closed"})
  /\ Turn(t, "deleted") /\ UNCHANGED shared

\* The Close of a client that was never created.
CloseNull(t) ==
  /\ AtClient(t, "close", {"null"})
  /\ NextLoop(t, "close", "crashed")
  /\ UNCHANGED <<cmdRun, main, run, client, shared, modes>>

ThreadEnds(t) ==
  /\ idx[t] > NClient
  /\ NextLoop(t, "close", "end")
  /\ readyCount' = readyCount - 1
  /\ UNCHANGED <<cmdRun, main, run, client, nConnect, modes>>

-----------------------------------------------------------------------------
(* main and the command thread                                             *)

Creating == \E t \in Threads : pc[t] = "create"

\* The user types exit.
ExitCommand ==
  /\ cmdRun /\ (Creating => earlyExit)
  /\ cmdRun' = FALSE
  /\ UNCHANGED <<main, run, pc, idx, client, shared, modes>>

Closable(t) == t > 1 => pc[t - 1] = "end"

\* main closes thread t when the one before it has ended.
CloseThread(t) ==
  /\ ~cmdRun /\ main = t - 1 /\ Closable(t)
  /\ main' = t /\ run' = [run EXCEPT ![t] = FALSE]
  /\ UNCHANGED <<cmdRun, pc, idx, client, shared, modes>>

MainEnds ==
  /\ main = NThread /\ pc[NThread] = "end"
  /\ main' = NThread + 1
  /\ UNCHANGED <<cmdRun, run, pc, idx, client, shared, modes>>

-----------------------------------------------------------------------------
WorkThread(t) ==
  \/ Create(t) \/ CreateDone(t) \/ Connect(t) \/ ConnectDone(t) \/ Ready(t)
  \/ WaitOthers(t) \/ SendTests(t) \/ PollOk(t) \/ PollLost(t) \/ PollError(t)
  \/ PollDone(t) \/ MainLoopEnds(t) \/ DeleteClient(t) \/ CloseNull(t) \/ ThreadEnds(t)

Main == MainEnds \/ \E t \in Threads : CloseThread(t)

ProgramNext == ExitCommand \/ Main \/ \E t \in Threads : WorkThread(t)

ProgramSpec == ProgramInit /\ [][ProgramNext]_programVars

\* All the threads run; the user need not type anything.
ProgramFairness == WF_programVars(Main) /\ \A t \in Threads : WF_programVars(WorkThread(t))
ProgramFairSpec == ProgramSpec /\ ProgramFairness

-----------------------------------------------------------------------------
(* Properties                                                              *)

\* No thread sends a message before every thread has made its connections,
\* also when threads are closed, and leave the count, while others still
\* wait at the barrier of client.cpp:192.
NobodySendsEarly ==
  \A t \in Threads : pc[t] = "poll" =>
    \A u \in Threads : pc[u] \notin {"create", "connect", "ready"}

\* nConnect, which main prints, counts the connections there are, as long as
\* every false that OnRun returns means a lost connection.
ConnectsCounted ==
  ~waitErrors /\ (\A t \in Threads : pc[t] \notin {"close", "end"}) =>
    nConnect = Cardinality({p \in Threads \X (1..NClient) : client[p[1]][p[2]] = "open"})

\* Every client that was created is deleted when the program ends, and no
\* thread closes one that was not, unless exit came while clients were
\* being created.
ClientsDeleted ==
  ~earlyExit => \A t \in Threads :
    /\ pc[t] # "crashed"
    /\ main > NThread => \A n \in 1..NClient : client[t][n] = "deleted"

\* After the command exit the program ends: no thread is left at the
\* barrier by one that has gone, unless it crashed on a client that an early
\* exit kept from being created.
ExitEnds == ~cmdRun ~> (main > NThread \/ \E t \in Threads : pc[t] = "crashed")
=============================================================================
