---------------------------- MODULE TcpIocpServer ----------------------------
(***************************************************************************)
(* The accept thread of TcpIocpServer.hpp: it keeps one AcceptEx posted to *)
(* its completion port, gives each accepted connection to the workers or,  *)
(* at the limit, closes it, and posts the next one.  What the workers do   *)
(* with a connection is IocpServer's subject, here a client leaves at any  *)
(* time, and how they share the connections TcpServer's.                   *)
(***************************************************************************)
EXTENDS Integers, FiniteSets

CONSTANTS
  Conns,      \* connections the peers may make
  MaxClient   \* _nMaxClient

VARIABLES
  faults,     \* "wait": the port may report an error, "post": AcceptEx may fail
  link,       \* what has become of every connection
  accept,     \* the AcceptEx: "none", "posted", "done" (its completion is at the port)
  taken,      \* the connection of its socket, if it is done; a set
  serving,    \* connections that have a Client in the server
  isRun,      \* Thread::_isRun of the accept thread
  pc,         \* where OnRun is: "post", "wait", "accept", "ended"
  listening   \* the listening socket is open

vars == <<faults, link, accept, taken, serving, isRun, pc, listening>>

States == {"none", "queued", "taken", "served", "refused", "left", "reset"}

Init ==
  /\ accept = "none" /\ taken = {} /\ serving = {}
  /\ isRun = TRUE /\ pc = "post" /\ listening = TRUE

\* The counter of TcpServer.  A client that leaves it is deleted a moment later,
\* which is a step of its own there.
ClientAccept == Cardinality(serving)

-----------------------------------------------------------------------------
\* postAccept: a new socket and AcceptEx with the local buffer of OnRun.
PostAccept ==
  /\ pc = "post"
  /\ accept' = "posted" /\ pc' = "wait"
  /\ UNCHANGED <<faults, link, taken, serving, isRun, listening>>

\* It fails, also because there was no socket; nobody looks at the result.
PostAcceptFails ==
  /\ pc = "post" /\ "post" \in faults
  /\ pc' = "wait"
  /\ UNCHANGED <<faults, link, accept, taken, serving, isRun, listening>>

\* The system: a queued connection gets the socket.
AcceptDone(k) ==
  /\ accept = "posted" /\ listening /\ link[k] = "queued"
  /\ accept' = "done" /\ taken' = {k}
  /\ link' = [link EXCEPT ![k] = "taken"]
  /\ UNCHANGED <<faults, serving, isRun, pc, listening>>

Wait_SkipsReset ==
  /\ pc = "wait" /\ isRun /\ accept = "done"
  /\ accept' = "none" /\ pc' = (IF \A k \in taken : link[k] = "reset" THEN "wait" ELSE "accept")
  /\ UNCHANGED <<faults, link, taken, serving, isRun, listening>>

\* wait() returns 1, also when the connection has been reset meanwhile.
Wait ==
  /\ pc = "wait" /\ isRun /\ accept = "done"
  /\ accept' = "none" /\ pc' = "accept"
  /\ UNCHANGED <<faults, link, taken, serving, isRun, listening>>

WaitFails ==
  /\ pc = "wait" /\ isRun /\ "wait" \in faults
  /\ isRun' = FALSE /\ pc' = "ended"
  /\ UNCHANGED <<faults, link, accept, taken, serving, listening>>

\* What becomes of the connections of S, except for those that were reset.
Become(S, state) == [k \in Conns |-> IF k \in S /\ link[k] # "reset" THEN state ELSE link[k]]

\* IocpAccept
HasRoom == ClientAccept < MaxClient

Accepted ==
  /\ pc = "accept" /\ HasRoom
  /\ serving' = serving \cup taken /\ taken' = {}
  /\ link' = Become(taken, "served")
  /\ pc' = "post"
  /\ UNCHANGED <<faults, accept, isRun, listening>>

Refused ==
  /\ pc = "accept" /\ ~HasRoom
  /\ link' = Become(taken, "refused") /\ taken' = {}
  /\ pc' = "post"
  /\ UNCHANGED <<faults, accept, serving, isRun, listening>>

\* OnClientLeave in a worker, for whatever reason.
Leave(k) ==
  /\ k \in serving
  /\ serving' = serving \ {k} /\ link' = Become({k}, "left")
  /\ UNCHANGED <<faults, accept, taken, isRun, pc, listening>>

\* TcpServer::Close: the accept thread is closed and when it has ended the
\* workers and the listening socket go.
CloseAccept ==
  /\ isRun /\ isRun' = FALSE
  /\ UNCHANGED <<faults, link, accept, taken, serving, pc, listening>>

Ends ==
  /\ pc = "wait" /\ ~isRun
  /\ pc' = "ended"
  /\ UNCHANGED <<faults, link, accept, taken, serving, isRun, listening>>

CloseListening ==
  /\ pc = "ended" /\ listening /\ serving = {}
  /\ listening' = FALSE /\ accept' = "none"
  /\ link' = Become({k \in Conns : link[k] = "queued"}, "reset")
  /\ UNCHANGED <<faults, taken, serving, isRun, pc>>

-----------------------------------------------------------------------------
Acceptor ==
  \/ PostAccept \/ PostAcceptFails \/ Wait \/ WaitFails \/ Accepted \/ Refused \/ Ends
  \/ \E k \in Conns : AcceptDone(k)

Outside == CloseAccept \/ CloseListening \/ \E k \in Conns : Leave(k)

Next == Acceptor \/ Outside
=============================================================================
