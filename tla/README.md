# C100 in TLA+

C100 is a C++ network library (`src/depends/include`) with a server program
(`src/EasyServer/server.cpp`) and a client program that loads it
(`src/EasyClient/client.cpp`). This directory models the library and the two
programs in TLA+, model-checks the models with TLC and proves the most
important invariants with TLAPS.

## The system

| part | source | state | operations |
|---|---|---|---|
| `Thread` | `Thread.hpp` | `_isRun`, `_mutex`, `_sem` | `Start`, `Close`, `Exit`, `isRun`, `OnWork` in the thread |
| `Semaphore` | `Semaphore.hpp` | `_wait`, `_wakeup`, a condition variable | `wait`, `wakeup` |
| `TaskServer` | `Task.hpp` | `_tasksBuf` (shared), `_tasks` | `addTask` by anybody, `OnRun` in its thread, `Close` |
| `Log` | `Log.hpp` | a `TaskServer`, a file | every line is a task; `setLogPath`, the destructor |
| `Client`, `Buffer` | `Client.hpp`, `Buffer.hpp` | two buffers with `_nLast`, the socket, `_isPostRecv`, `_isPostSend`, the heartbeat time | `SendData`, `RecvData`, `SendDataReal`, `hasMsg`, `pop_front_msg`, the IOCP operations |
| worker | `Server.hpp` with `SelectServer.hpp`, `EpollServer.hpp` or `IocpServer.hpp` | `_clientsBuff` (shared), `_clients` by socket, `_clients_change`, the descriptor sets, epoll object or completion port | `OnRun`: join, `CheckTime`, `DoNetEvents`, `DoMsg`; `ClearClients` at its end |
| accepting | `TcpServer.hpp` with `TcpSelectServer.hpp`, `TcpEpollServer.hpp`, `TcpIocpServer.hpp` | `_cellServers`, `_clientAccept`, `_clientJoin` | `Accept`, `addClientToCELLServer`, `Start`, `Close`, the events `OnNetJoin`, `OnNetLeave` |
| one connection of a client | `TcpClient.hpp` and its three variants | `_pClient`, `_isConnect` | `Connect`, `OnRun`, `Close` |
| server program | `server.cpp` | message numbers in the `Client` | `OnNetMsg` |
| client program | `client.cpp` | `MyClient`s, `readyCount`, `nConnect` | `WorkThread`, `main`, the command thread |
| byte streams | `MsgStream.hpp`, `ByteStream.hpp` | a buffer with a read and a write position | readers and writers of values, arrays, strings |

How they interact: the accept thread creates a `Client` and puts it into the
`_clientsBuff` of a worker, under the worker's mutex. From then on only the
worker touches it, except that the accept thread reads the sizes of both
containers without the mutex. The worker calls back into `TcpServer` (counters,
`OnNetMsg`) in its own thread. The owner closes: first the accept thread, then
each worker, through `Thread::Close`, which waits on the semaphore that the
thread posts. On Windows the system writes into a client's buffer while a RECV
is outstanding, and its completion carries the `Client` pointer.

What is hard: freeing a `Client` that the system, an array of events or a map
still refers to; socket numbers that are reused at once; cached sets and flags
that go stale; two containers read without the lock; starting, exiting and
closing threads; buffers that fill up; messages cut anywhere. `hazards` in
`PROJECT.json` lists them line by line, with the properties that watch them.

## Modules

Each module is a component. The comment at the head of a module says what it
abstracts; `map` in `PROJECT.json` gives the lines each definition stands for.
Some variables are chosen by `Init` and never change (`failing`, `mayExit`,
`bChekSendBack`, `waitErrors`, `earlyExit`, `variant`, `faults`, `reopens`): they
say which kind of execution this is, so that one run covers all of them and a
property can name the kind it speaks of.

- **IocpServer**: one IOCP worker. `pc` is the place in `Server::OnRun`
  (`top`, `check` before `CheckTime`, `post`, `wait`, `msg`, `done` after
  `ClearClients`). `io[c]["RECV"]` and `io[c]["SEND"]` are the two `IO_DATA_BASE`
  of a client as the system knows them: idle, posted with the area they
  describe, or done and in the queue `cq` of the port. Buffers are lengths.
  `Dequeue` needs a live client: the code dereferences the pointer of the
  completion, so it has no defined successor otherwise, and `NoDangling` is the
  property that this is never asked for. **MCIocpServer** adds the symmetry of
  the clients.
- **SelectServer**, **EpollServer**: the same worker over the other two
  mechanisms. Here a message is one unit and the subject is the agreement of
  `_clients` with `_fdRead_bak` and `_maxSock`, or with epoll's registrations
  and the array of events, while socket numbers are reused.
- **TcpServer**: the accept thread, `N` workers and the owner. Serving a client
  is reduced to: it may leave at any time, in the two orders the code has
  (`Leave`: delete, then erase the entry; `Remove`: the reverse). Leaving goes
  statement by statement, since the accept thread reads `_clientAccept` all the
  time: `LeaveAccept` and `LeaveJoin` for the counters, `DeleteClient` for the
  object and its socket, `Erase`. Every read of `getClientCount` is a step of its
  own; the operands of `+` are taken from left to right. The object of the
  accept thread is used again by each start, so `accRun`, its `_isRun`, and
  `permits`, its semaphore, belong to the newest thread (`acc`) and to the one
  before (`old`), whose `ClearRun` may come late. `Close` waits for a permit only
  if it found `accRun` set (`waiting`); `rushed` says that the current start was
  closed without. A worker that is deleted under the accept thread has no
  defined behaviour any more, so a thread that needs it takes no step (`Exists`).
- **TcpIocpServer**: the accept thread of the IOCP server, which keeps one
  AcceptEx posted: post, completion, accepting or refusing at the limit, errors
  of the port and of the post, the end of the loop with the operation still
  outstanding.
- **TcpClient**: the object with its three variants. A call of `OnRun` is the
  steps in `todo`; the system, the server and resets come between them.
  **Connection** composes it with `TcpIocpServer`: what a client can rely on
  from `connect` to the end of its connection.
- **WorkerThread**: `Thread` with its owner, over **Semaphore**, which
  implements **CountingSemaphore**. Every wait of `Close` and every wakeup of a
  thread is a step of the class with its condition variable.
- **TaskServer** implements **TaskQueue**. **Log** extends it: a line is a task,
  `EchoReal` is two steps (the test of `_logFile`, then the writing), and `main`
  opens the file, ends, and runs the destructor with its late line.
- **MsgChannel**: one direction of a connection from `SendData` to `OnNetMsg`,
  on the Linux path. Units carry their position in the whole stream, so that
  any loss, exchange or copy shows; `dataLength` is read from the units at the
  front, whatever they are. It implements **MsgFifo**.
- **MsgStream**: the writers and readers as operators on sequences of bytes,
  and the handler of `CMD_LOGOUT`, which reads a request and writes its answer.
  A value of any type is the bytes that `memcpy` moves; only lengths, counts and
  commands are numbers.
  **MCMsgChannel** takes from it the lengths of messages for the channel, and
  checks it over bounded inputs in initial states of its own.
- **LoginEcho**: `MyClient` against `MyServer` with the numbers of
  `-checkMsgID`, over two queues of whole messages, which is what `MsgChannel`
  shows of the buffers. The server runs with `-sendback`.
- **ClientProgram**: `main`, the command thread and the `WorkThread`s with the
  barrier and the counter `nConnect`.
- The theorems are in **IocpServerProofs**, **SelectServerProofs**,
  **EpollServerProofs**, **TcpServerProofs**, **LogProofs** (with its
  `TaskServer`), **MsgChannelProofs** (with `MsgStream`), **ThreadProofs** (`WorkerThread`,
  `Semaphore` and the threads of `ClientProgram`) and **ConnectionProofs**
  (what a client and the server exchange: `Connection` and `LoginEcho`).
  `ClientProgram` and `LoginEcho` prefix the names of their specifications
  (`ProgramSpec`, `EchoSpec`) because the last two modules extend them next to
  another component.

Composition: `WorkerThread` runs over `Semaphore` itself, and `SemIsCounting`
shows that the class is a counting semaphore when a thread and its owner use it.
`Connection` joins `TcpClient` and `TcpIocpServer` on the connections they share
(`link`). `Log` extends `TaskServer`, and the queue is checked through the log.
`MCMsgChannel` joins the framing with the messages `MsgStream` builds.
`LoginEcho` uses the promise of `MsgFifo`. `TcpServer` repeats of `Thread` what
its threads share with their owner, `_isRun` and the permits; that waiting and
waking are a counting semaphore, and what happens to a thread inside `Exit`, are
in `WorkerThread`.

## What the runs show

| run | shows |
|---|---|
| IocpServerFaults | two clients that send, close, are reset or expire, whose messages are answered; a wait that fails, a stop: operations describe the data that is in the buffers, flags cover operations, no byte and no reply is lost or doubled, and only `CheckTime` ever loses a client. A behaviour ends where the worker would read a freed client |
| IocpServerProgress | the same under fairness: every message is handled, every reply taken, and a client whose peer closes is deleted |
| IocpServerUseAfterFree | *violated*: see the next section |
| SelectServer | what `select` is asked about is what the worker has, what it reports is still true when it is used, every message is handled and answered |
| EpollServer | registrations match `_clients`, no event outlives its client, messages are handled and answered, clients that close are deleted |
| TcpServer | the counter against the limit and against the objects, one owner per client, no stale map entry, accepted clients are joined, over two starts, with and without failing waits, whatever the accept thread does between a counter and its object and an old thread after its wakeup |
| WorkerThread | the Close of a first thread that does not call `Exit` waits for it; whoever waits has someone to wake it; Close returns; the semaphore counts, whatever wakes up spuriously or overtakes |
| Log | lines from before the destructor are in the file when it is closed, nothing is written to a closed file, and the task server is a queue: once, in order, and all of what was there when Close began |
| MsgChannel | framing: stream intact, refinement of the FIFO with its progress; fields that are written are read back; the answer to `CMD_LOGOUT` is never wrong |
| LoginEcho | numbers stay continuous when messages and answers are dropped; nobody stops |
| ClientProgram | the barrier holds, exact `nConnect`, all clients deleted, exit ends the program |
| Connection | for each variant of the client: no unit lost between its buffers and the server, a lost connection is noticed, and every connection that waits is answered |

Every module of a component has a type invariant. The one of `IocpServer` is
checked by its run and proved, those of `TcpServer`, `Log`, `ClientProgram` and
`Connection` are proved; of the others, what the proofs need is in their
inductive invariants.

### Where the code does not do what it says

`IocpServerUseAfterFree` is the entry of `findings`: with a RECV and a SEND
outstanding, the first completion with 0 bytes deletes the client under the
other operation.

The properties below do not hold either. Those without further words in the
second column are defined in their module with a comment that says so; adding
the name to the `.cfg` gives the counterexample. Those with a word on an
exception are checked with it, and the counterexample appears when it is taken
out.

| property | module | what happens |
|---|---|---|
| `ResetNoticed` | IocpServer | a first RECV that fails in `OnClientJoin` leaves its flag set, and the client is never polled again |
| `NoneSkipped` | SelectServer | `CheckTime` deletes the last client, `DoNetEvents` dereferences `_clients.begin()` |
| `AtMostMaxClient` | TcpServer | `OnNetLeave` decrements before the client is deleted: at the limit another is accepted in between, and more than `_nMaxClient` exist, by one for each worker at most (`LimitRespected`) |
| `NoneAfterClose` | TcpServer | nothing failed, but the accept thread of the first start clears the `_isRun` of the second: Close deletes the workers without waiting, and a client that the second thread holds is left over |
| `CountsCleared` | TcpServer | `ClearClients` raises no event: the counters survive Close, and with them part of the limit is used up |
| `FewestChosen` | TcpServer | sizes are read without the lock: a worker with more clients is chosen |
| `IsRunTellsRunning` | WorkerThread | an old thread clears `_isRun` of the new one |
| `NoUseAfterDispose` | WorkerThread | the object is deleted between the wakeup and the last statement of the thread |
| `CloseWaited` | WorkerThread | after `Exit`, Close does not wait for `onDestory`; `FirstCloseWaits` is the same for threads that do not call it |
| `EveryTaskRuns` | TaskServer | a task added after the last loop is lost, as the last line of the log |
| `ReplyComplete` | MCMsgChannel | arrays that fit into the buffers of the server do not all fit into the 128 bytes of its answer, and are left out without a word |
| `TrueMeansRuns` | Connection | `TcpEpollClient` closes in its loop over the events and returns true |
| `NothingOutstanding` | Connection | `Close` of `TcpIocpClient` destroys the port and the client with a RECV outstanding |
| `HandledBeforeClose` | Connection | `TcpIocpClient` has read a message, a SEND completes without data in the same loop, and the message is never handled |
| `NoAcceptLeft` | Connection | `TcpIocpServer::OnRun` returns while the AcceptEx still uses its locals |
| `TakenAnswered` | Connection | a connection taken by that AcceptEx is forgotten: neither served nor closed |
| `PopKeepsRest`, with `Backward = TRUE` | MsgChannel | `pop` uses memcpy on overlapping ranges |
| `RoundTrip` beyond the first empty string | MCMsgChannel | `ReadString` of an empty string leaves its length to be read as the next field |
| `LinesKept`, `NoWriteAfterClose` without `~reopens` | Log | a second `setLogPath` closes the file under the thread that writes |
| `NoOrphan` without `~open[c]` | IocpServer | `CheckTime` only closes the socket of a client whose flag is set. If the flag stands for a first post that failed, or the completion was queued before with data, no further completion comes and the client is never deleted |
| `AcceptedJoins`, `OwnedOnce` without `~failing` | TcpServer | a worker that failed looks idle, is given the new clients and never takes them |
| `AcceptedJoins`, `OwnedOnce` without `rushed` | TcpServer | as for `NoneAfterClose`: the client is never joined, or is in a queue of a worker that `ClearClients` empties without having deleted it |
| `CloseReturns` without `InExit` | WorkerThread | `Exit` waits for the mutex of the Close that waits for the thread |
| `LossNoticed` without its exception | Connection | a wait of `TcpIocpClient` that reports an error has taken the completion that told of the loss |
| `Answered` without `"post"` | Connection | an AcceptEx that could not be posted is never posted again |
| `ConnectsCounted` without `~waitErrors` | ClientProgram | a failed wait counts as a lost connection each time |
| `ClientsDeleted` without `~earlyExit` | ClientProgram | exit during start-up closes clients that were never created |

### Bounds

Two clients, or connections on two socket numbers, are enough for a number to be
handed on while another client is served. `TcpServer` has a third connection, so
that leaving, joining and accepting overlap, two workers and two starts. Its
limit is two clients, and it has three socket numbers, so that it is the counter
that keeps a third client out, or does not. A new socket gets the lowest free
number (`LowestFirst`, as on Linux); a failing wait is looked at in one start
(`MaxFailingRuns`). The module has at most two starts, because it knows of one
earlier accept thread; in a third there may be two that have not ended. In the IOCP runs a message has 2 units and the
receive buffer 3, so that a message arrives in parts and the buffer is full with
a part of the next one; a reply of 2 units for a send buffer of 3 lets a second
one be refused, or be pushed behind a SEND that completes with half of the
first. `IocpServerFaults` has two messages, `IocpServerProgress` one, and so
that the counterexample is short `IocpServerUseAfterFree` has only peers that
close. In `SelectServer` and `EpollServer` the peers send two messages
altogether and the send buffer holds one reply. `MsgChannel` has four messages,
of 4 bytes (only a header) and of 7, which fills the receive buffer exactly,
over a send buffer of 8 and a system that holds 4; `RoundTrip` takes up to three
fields of nine kinds and streams that all, some or none of them fit into, and
`ReplyTruthful` arrays that are empty, short, as long as the buffers and longer.
`WorkerThread` has three starts: with three threads the permit of one can serve
the Close of another. `Log` has five lines, which leaves one for any thread
between each two of main. `LoginEcho` has six messages against buffers of two,
one and two, `ClientProgram` three threads with a client each, so that two wait
at the barrier while one leaves it. `Connection` has one object of each variant
that connects twice to a server whose limit is one, with messages and buffers of
two units that can be moved one at a time; a second connection meets the
remains of the first.

`MaxMsgs`, `MaxRuns`, `MaxFailingRuns`, `MaxStarts`, `MaxInits`, `MaxPushed`, `MaxSent`,
`WireSize`, `Tasks` and the number of connections are the only bounds on
behaviours, besides the one on `nConnect` in `PollError`; all appear in guards of
the environment or are named in the module. Symmetry is used in
`IocpServerUseAfterFree` only, which has one invariant and no liveness.
`CHECK_DEADLOCK FALSE` stands where the server or the program may have stopped,
or the peers may have nothing more to do.

### Fairness

Weak fairness of every thread: they are loops without blocking calls longer than
a timeout, and the operating system schedules them. The IOCP runs and
`Connection` assume that the system completes an operation that it can complete,
and `Connection` that the owner of a client calls `OnRun` again and again, as
`WorkThread` does. The select and epoll runs have strong fairness of the wait,
which says that it is not interrupted by a signal for ever, and of its reporting
a socket as writable that is asked about again and again: the peer reads. It is
strong because the question is asked anew every turn. Nothing is assumed of new
connections, peers, faults, heartbeat expiry or the user.

Liveness properties name their exceptions: `Served` and `Disconnects` of
`IocpServer` leave out a client that was reset or that `CheckTime` closed, and
behaviours that end at a freed client; `CloseReturns` a thread inside `Exit`;
`LossNoticed` an IOCP client whose wait failed; `Answered` executions where a
post failed or the accept thread was told to stop, for the reasons in the table;
`AcceptedJoins` executions with a wait that failed or a start whose Close did not
wait.
`Served` of `SelectServer` and `EpollServer` leaves out messages of a peer that
has closed or was reset and executions in which the worker ends.

### Assumptions

- A completion whose error `Iocp::wait` does not know (for example
  `ERROR_OPERATION_ABORTED`) ends the worker and is the fault `iocp`; the errors
  it knows arrive as completions with 0 bytes.
- A SEND may complete with a part of what was posted, as `send` may take a part.
- `memcpy` copies forward (`Backward = FALSE`).
- `_isRun` is read from memory each time, although it is a plain `bool` and the
  accesses race.
- `NoDangling` looks at a worker that runs: after `ClearClients` (`pc = "done"`)
  operations of deleted clients may be outstanding, and nothing waits for them.
- The last loop of `TaskServer` and an `addTask` at the same time is modelled as
  one of the two orders; it is a data race on a `std::list`.
- A value, an array or a string in a byte stream is shorter than 2 GiB: a size is
  converted to an `int` (`AsInt`), a negative one always has room, and what is
  copied then lies outside of the buffer.
- A worker that was deleted is not touched any more: where the code would, the
  model stops the thread (`Exists` in `TcpServer`).
- Socket numbers stay below 65535, the capacity of `FDSet` on Linux.
- A wait of epoll has room for all ready sockets; the rest would be reported by
  the next one.

## What is proved

For every value of the constants that satisfies the `ASSUME`s of the modules,
so for any number of clients, connections, sockets, threads and messages and for
buffers of any size:

- `TypeCorrect` (IocpServer): both buffers stay within their capacities and each
  posted operation describes a part of a buffer. `TypeOK` is inductive as it
  stands; the one argument that is not bookkeeping is that `DoMsg` takes whole
  messages only, a fact on integer division (`WholePart`, `DoMsgSizes`).
- `FlagsCorrect`: an outstanding operation has its flag set. `FlagsCoverIo` only
  speaks of live clients and is not inductive; `AllFlagsCoverIo` says it of all,
  using that nothing clears a flag but the handler of the completion that ends
  the operation.
- `NoDanglingHolds`: a server that sends nothing (`~SendBack`) never deletes a
  client under an operation. `SafeInv` adds what makes it inductive: no client
  has data to send or a SEND; one that has not joined has no RECV; the queue of
  the port holds completions of RECVs of joined clients, and `AllFlagsCoverIo`.
  A client is then deleted either with its flag clear, hence without an
  operation, or by the completion of its only one. With replies it is
  false: `IocpServerUseAfterFree`. No run checks it, since every run answers.
- `RegionsHold`, `BytesInHold`, `BytesOutHold`, `NoOrphanHolds` (IocpServer,
  under every fault and with replies): where an operation puts or finds its data
  is still where the program looks for it, nothing is lost or doubled in either
  direction, and a client that is in no queue of the worker is deleted or was
  closed by `CheckTime`. They rest on `TypeOK` and `AllFlagsCoverIo`: while an
  operation is outstanding its flag is set, and with the flag set nothing else
  moves the end of the receive buffer or the front of the send buffer.
- `RegistrationsHold`, `EventsLiveHold` (EpollServer) and `SetsStayCurrent`,
  `ReportsStayTrue` (SelectServer). Both invariants (`EpollInv`, `SelectInv`) say
  that live connections have different sockets, that each client of the map is
  alive and under its own socket, and that a buffered one is in no map. To this
  epoll adds that the pointers it keeps are the entries of the map, and that the
  events that are left are of live clients of the map, one for each; select
  adds that the cached set is the set of the map unless `_clients_change` is
  set, between the turns too, where the runs only look at it before `select`.
- `StreamIntactHolds`, `FifoSafety` (MsgChannel, if memcpy copies forward): the
  stream is intact and the framing implements `MsgFifo` as far as safety goes.
  `ChannelInv` says that the messages end at increasing positions and that the
  receive buffer, the system and the send buffer follow each other from the end
  of the last handled message (`InOrder`). That the front of the receive buffer
  is always the start of a message, so that `dataLength` reads its length, is
  `FrontIsNext`; what a step does to the stream are lemmas about sequences.
- `FieldsAlwaysReturn`, `AlwaysTruthful` (MsgStream), and as their instances the
  two invariants of the run, `RoundTripHolds` and `ReplyTruthfulHolds`. The first
  is for every list of fields, of any length, values and sizes (`IsField`: an
  array has whole elements and is shorter than 2 GiB, which is what keeps
  `canWrite(int)` from taking its size for a negative number, `IntIsLess`), and every stream that has room for the length and
  whose size a `uint16_t` holds. Writing keeps that the fields taken so far stand
  one after the other in the bytes (`LaidOut`, `WrittenLaidOut`), which `finsh`
  does not disturb (`Finished`); reading keeps that the reader is where the next
  field stands, or has met an empty string (`FieldsFound`). That a field takes
  all its bytes or none, and is found where it stands, are `FieldWritten` and
  `FieldFound`. `AlwaysTruthful` is for every request with room for both names:
  `MessageWritten` says where its fields stand, and `MessageRead` that an array
  is read from there or, with all that follow it, not at all, since the count in
  front of the reader remains too large for the buffers after it. What the
  handler reads is a request that the 128 bytes of the answer have room for, so
  the same two lemmas serve for the way back. Without that room it is false: an
  array left out in front of others that fit would be read as the wrong one.
  `FieldsReturn` is a recursion over the list: its two recursive functions get
  their equations in `WrittenEquation` and `ReadingEquation`, by `SetInduction`,
  the least element theorem of the library as induction over a set.
- `LimitHolds`, `CountsAreExact`, `MapStaysSound`, `EachOwnedOnce` (TcpServer,
  for any number of workers, connections and sockets, and for one or two
  starts). `OwnInv` is the conjunction of what each needs. `SocksInv` and
  `QueueInv`: no two live clients have the same socket, and what is in a queue
  was accepted and is in the queues of one worker, once. `WorkerInv`: an entry of
  a map is a living client under its own socket, apart from the one that is being
  erased and those of a worker that has just cleared its clients; in the loop of
  the joins exactly the clients before the cursor are in the map; the client that
  leaves exists until it is deleted, between the counters too. `AccInv`: the
  client in the hands of the accept thread is in no queue. `MainInv` and
  `AcceptInv`: which threads have ended when, how many permits there are, and
  that without failures a Close that waited leaves an accept thread that has
  ended its loop, in the first start always. `OwnedOnce` needs that no client is
  lost then (`KeptInv`), which is where the order of the two Closes counts.
  `CountInv` relates the counters to cardinalities, as at least the clients there
  are but those that left the counter and are not deleted yet (`UncountedBound`:
  one for each worker in that place), and exactly as many until a worker drops its
  clients (`NoneDropped`), and the limit to the accept thread, which alone
  increments.
- `LinesAreKept`, `NeverWritesToClosed`, `LogIsQueue` (Log, for any set of
  lines). `QueueInv` says that what has run, what is left of the list and the
  buffer are together what was added, position by position; in the loop after
  the end the thread walks over the buffer itself, and the count of what is left
  of the list is negative there. `CloseInv` says that the thread ends only when
  what was there at Close has run, and `FileInv` that with one `setLogPath` the
  open file holds what has run, line by line. `LogIsQueue` maps the three places
  of a task to `TaskQueue`, step by step.
- `BarrierHolds`, `ConnectsAreCounted`, `ClientsAreDeleted` (ClientProgram, for
  any number of threads and clients). `NobodySendsEarly` is not inductive,
  since threads leave the count while others wait: `BarrierInv` says that
  `readyCount` is the number of threads between their increment and their
  decrement, and that a thread that sends, or may, has seen all others started,
  which none undoes. A thread reads `readyCount >= NThread` only when all are
  in that set; a thread that was told to stop passes without, but does not send.
  `ClientsInv` gives the states of the clients at each place of a thread, and
  `CountInv` has the exact `nConnect` until clients are closed, when the code
  no longer counts.
- `BytesAreKept`, `ConnectionTypes` (Connection, for all three variants, under
  every fault). `BytesKept` depends on that no operation completes twice and
  that what it moved still has its place: `Operations` says that an outstanding
  operation and a completion at the port exclude each other and both have their
  flag set, so that there are at most two completions (`QueueShort`), and `Room`
  that the bytes of a SEND are still in the send buffer and those of a RECV have
  room behind the received ones. The equation itself is an invariant of every
  client that has its `Client`, reset or not. The bytes at the port are a fold;
  as the queue is that short, its recursive function can be given explicitly
  (`SumOfTwo`) and induction is not needed.
- `LossIsReal` (Connection): unless a wait or a post fails, `OnRun` returns
  false only for a connection that the server refused or left or that was reset
  (`FalseMeansLost`, which no run lists), so `client.cpp` never counts a lasting
  connection as lost. `LossInv` follows it from the report back to its cause: a
  completion without bytes is at the port only when the connection is over, and
  one that is over stays so, whatever the accept thread does with a connection
  it has taken (`ServerKeepsOver`) or the client with its next socket.
- `NumbersHold` (LoginEcho): neither program ever finds a gap in the numbers,
  although full buffers drop messages: a number is used up only when the message
  was accepted, so what is under way in either direction runs without a gap from
  the number the receiver expects to the next one of the sender (`NumbersInv`).
- `WaitersAreCounted`, `WakeupsAreNotLost` (Semaphore), for any finite set of
  threads, and `ImplementsCountingSafety`: the class is a counting semaphore, as
  far as safety goes. `SemCountsSafely` says it of the semaphore as a `Thread`
  and its owner use it, which is the safety of `SemIsCounting`.
- `CloserAlwaysHasWaker`, `FirstCloseAlwaysWaits` (WorkerThread), for any number
  of starts. `ThreadInv` needs that threads are started one after the other, that
  the permit of the newest thread is there until somebody closes it
  (`PermitKept`), and of a first thread that does not call `Exit` that it alone
  makes a permit and clears `_isRun` before Close does (`FirstThread`). What a
  step of the semaphore does to the permits is `SemSteps`.

The theorems assume nothing but the `ASSUME`s of the modules, with the
exceptions named above: `~SendBack` for `NoDanglingHolds`, `~Backward` for the
two of `MsgChannel`, and a finite set of threads for those of `Semaphore`. TLC
checked each inductive invariant on an instance before it was proved.

Only model-checked: the liveness properties, and with them the progress part of
`ImplementsFifo` and `SemIsCounting`, which are out of reach of the prover. Every
other property of a passing run is a theorem. The library's induction theorems
over data take an operator as a parameter, which no prover here instantiates;
where a proof needs induction it is one over a set of numbers (`SetInduction`).

## Not modelled, and the plan

Left out for good: the HTTP classes and `TcpServerMgr.hpp`, which do not fit the
current `Client` and `Buffer` and are used by no program; the parsing of the
command line, time, wrappers of system calls and message layouts. Of the server
program the heartbeat message, whose answer nobody numbers, and the loop that
reads commands in `main` are left out, hence `partly`.

Planned, in this order:

1. A composition of the worker with `Thread`: Close during `DoNetEvents`,
   `ClearClients` with operations outstanding.
2. Type correctness of the remaining components as theorems.
3. The heartbeat message of both programs over `LoginEcho`.
