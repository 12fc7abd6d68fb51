------------------------------ MODULE Connection ------------------------------
(***************************************************************************)
(* TcpClient objects against the accept thread of TcpIocpServer: what a    *)
(* client can rely on from connect() to the end of the connection.         *)
(***************************************************************************)
EXTENDS TcpClient

CONSTANTS MaxClient   \* _nMaxClient of the server

ASSUME MaxClientAssumption == MaxClient \in Nat

VARIABLES accept, taken, serving, isRun, pc, listening

Server == INSTANCE TcpIocpServer

serverVars == <<accept, taken, serving, isRun, pc, listening>>
allVars == <<vars, serverVars>>

TypeOK ==
  /\ variant \in Variants /\ faults \in FaultSets
  /\ \A c \in Clients :
       /\ client[c].sendBuff \in 0..SendSize /\ client[c].recvBuff \in 0..RecvSize
       /\ client[c].posted \subseteq {"recv", "send"}
       /\ client[c].inits \in 0..MaxInits
       /\ net[c].io \subseteq client[c].posted /\ net[c].cq \in Seq(Completions)
  /\ link \in [Conns -> Server!States]
  /\ accept \in {"none", "posted", "done"} /\ taken \subseteq Conns /\ serving \subseteq Conns
  /\ pc \in {"post", "wait", "accept", "ended"} /\ {isRun, listening} \subseteq BOOLEAN

AllInit == Init /\ Server!Init

ClientStep ==
  /\ \E c \in Clients : (Owner(c) /\ (Connect(c) => listening)) \/ OnRun(c) \/ System(c) \/ Peer(c)
  /\ UNCHANGED serverVars

ServerStep == Server!Next /\ UNCHANGED <<variant, client, net>>

AllNext == ClientStep \/ ServerStep

Spec == AllInit /\ [][AllNext]_allVars

\* The owner calls OnRun again and again, the system completes what it can,
\* and the accept thread runs; everything else may happen or not.
Turn(c) ==
  Poll(c) \/ Recv(c) \/ Send(c) \/ CallFails(c) \/ Post(c) \/ Event(c) \/ EventLost(c) \/ NoEvent(c)

Accepting ==
  \/ Server!PostAccept \/ Server!Wait \/ Server!Accepted \/ Server!Refused \/ Server!Ends
  \/ \E k \in Conns : Server!AcceptDone(k)

Fairness ==
  /\ \A c \in Clients : /\ WF_allVars(Turn(c) /\ UNCHANGED serverVars)
                        /\ WF_allVars(System(c) /\ UNCHANGED serverVars)
  /\ WF_allVars(Accepting /\ UNCHANGED <<variant, client, net>>)

FairSpec == Spec /\ Fairness

-----------------------------------------------------------------------------
(* Properties                                                              *)

\* The bytes of completions of c that OnRun has not seen yet.
AtPort(c, op) ==
  FoldSeq(LAMBDA e, n : n + (IF e.op = op THEN e.bytes ELSE 0), 0, net[c].cq)

\* As long as a connection lasts no unit is lost or doubled between the
\* buffers of the client and the server, whichever variant moves them: what
\* SendData took is in the buffer or was taken by the system, and what the
\* server sent is under way, in the buffer or handled.
BytesKept ==
  \A c \in Clients : client[c].pClient /\ ~IsReset(c) =>
    /\ client[c].pushed = client[c].sendBuff - AtPort(c, "send") + net[c].up
    /\ net[c].sent * MsgLen =
         net[c].down + AtPort(c, "recv") + client[c].recvBuff + client[c].handled * MsgLen

\* When OnRun has returned false, which client.cpp:243 takes for a lost
\* connection, the connection had been refused, left or reset by the other
\* side and the client is closed; without a failing wait or post.
FalseMeansLost ==
  faults = {} => \A c \in Clients :
    client[c].lost => ~client[c].pClient /\ (AtEof(c) \/ IsReset(c))

\* A client that is refused, left or reset notices and stops to run, except
\* that an IOCP client whose failing wait took a completion may not.
LossNoticed ==
  \A c \in Clients :
    (IsRun(c) /\ (AtEof(c) \/ IsReset(c)) /\ ~(variant = "iocp" /\ "wait" \in faults)) ~> ~IsRun(c)

\* Every connection that waits at the listening socket is answered, also at
\* the limit and after resets, until the accept thread ends or a post fails.
Answered ==
  \A k \in Conns :
    (link[k] = "queued" /\ "post" \notin faults) ~> (link[k] \notin {"queued", "taken"} \/ ~isRun)

\* OnRun returns true only if the connection is still there.  Does not hold:
\* TcpEpollClient closes in its loop over the events and returns true.
TrueMeansRuns ==
  [][\A c \in Clients : client[c].todo # {} /\ client'[c].todo = {} /\ ~client'[c].lost =>
       client'[c].pClient]_allVars

\* No Client is deleted with an operation outstanding.  Does not hold: Close
\* of TcpIocpClient destroys the port and waits for nothing.
NothingOutstanding ==
  [][\A c \in Clients : client[c].pClient /\ ~client'[c].pClient => net[c].io = {}]_allVars

\* OnRun handles the messages it has received before it closes.  Does not
\* hold: TcpIocpClient reads one, a SEND completes without data in the same
\* loop, and DoMsg is only called when nothing is left at the port.
HandledBeforeClose ==
  [][\A c \in Clients : client'[c].lost /\ ~client[c].lost => client[c].recvBuff < MsgLen]_allVars

\* OnRun does not return with an AcceptEx that still uses its locals.  Does
\* not hold.
NoAcceptLeft == pc = "ended" => accept # "posted" \/ ~listening

\* A connection taken by an AcceptEx is answered.  Does not hold: its socket
\* is forgotten when the accept thread ends.
TakenAnswered == \A k \in Conns : link[k] = "taken" ~> link[k] # "taken"
=============================================================================
