------------------------------ MODULE LoginEcho ------------------------------
(***************************************************************************)
(* The conversation of the two programs: MyClient of client.cpp sends      *)
(* Login messages with consecutive numbers, MyServer of server.cpp checks  *)
(* the numbers and answers with LoginR messages that it numbers itself,    *)
(* and drops an answer when the send buffer is full.  Both ends run with   *)
(* -checkMsgID and the server with -sendback.                              *)
(*                                                                         *)
(* A direction of the connection is a send buffer and the messages on      *)
(* their way, a queue of whole messages, which is what MsgChannel shows of *)
(* the buffers.                                                            *)
(***************************************************************************)
EXTENDS Naturals, Sequences

CONSTANTS
  NMsg,          \* nMsg: messages a client may send between two refills
  ClientBuff,    \* messages that fit in the send buffer of the client
  ServerBuff,    \* replies that fit in the send buffer of the server
  WireSize,      \* bound: messages on their way in one direction
  MaxMsgs        \* bound: messages the client sends

ASSUME BuffAssumption ==
  /\ NMsg \in Nat /\ MaxMsgs \in Nat
  /\ {ClientBuff, ServerBuff, WireSize} \subseteq Nat \ {0}

VARIABLES
  bChekSendBack,  \* wait for the answer to the last message?  Set by the command line
  nSendMsgID, nRecvMsgID, nSendCount, bSend,  \* members of MyClient
  srvSendMsgID, srvRecvMsgID,                 \* the same two of the server's Client
  reqBuff, reqWire,   \* numbers of the Login messages in the send buffer and on their way
  repBuff, repWire    \* numbers of the LoginR messages

cliVars == <<nSendMsgID, nRecvMsgID, nSendCount, bSend>>
srvVars == <<srvSendMsgID, srvRecvMsgID>>
echoVars == <<bChekSendBack, cliVars, srvVars, reqBuff, reqWire, repBuff, repWire>>

EchoTypeOK ==
  /\ {nSendMsgID, nRecvMsgID, srvSendMsgID, srvRecvMsgID} \subseteq 1..(MaxMsgs + 1)
  /\ nSendCount \in 0..NMsg /\ {bSend, bChekSendBack} \subseteq BOOLEAN
  /\ reqBuff \in Seq(1..MaxMsgs) /\ Len(reqBuff) <= ClientBuff
  /\ repBuff \in Seq(1..MaxMsgs) /\ Len(repBuff) <= ServerBuff
  /\ reqWire \in Seq(1..MaxMsgs) /\ Len(reqWire) <= WireSize
  /\ repWire \in Seq(1..MaxMsgs) /\ Len(repWire) <= WireSize

EchoInit ==
  /\ bChekSendBack \in BOOLEAN
  /\ nSendMsgID = 1 /\ nRecvMsgID = 1 /\ nSendCount = 0 /\ bSend = FALSE
  /\ srvSendMsgID = 1 /\ srvRecvMsgID = 1
  /\ reqBuff = <<>> /\ reqWire = <<>> /\ repBuff = <<>> /\ repWire = <<>>

-----------------------------------------------------------------------------
(* The client                                                              *)

\* SendTest; a message that the send buffer refuses changes nothing.
SendTest ==
  /\ nSendCount > 0 /\ ~bSend /\ nSendMsgID <= MaxMsgs
  /\ Len(reqBuff) < ClientBuff
  /\ reqBuff' = Append(reqBuff, nSendMsgID)
  /\ nSendMsgID' = nSendMsgID + 1 /\ nSendCount' = nSendCount - 1
  /\ bSend' = bChekSendBack
  /\ UNCHANGED <<bChekSendBack, nRecvMsgID, srvVars, reqWire, repBuff, repWire>>

\* checkSend, when nSendSleep milliseconds have passed.
CheckSend ==
  /\ nSendCount' = NMsg
  /\ UNCHANGED <<bChekSendBack, nSendMsgID, nRecvMsgID, bSend, srvVars, reqBuff, reqWire, repBuff, repWire>>

ClientWrites ==
  /\ reqBuff # <<>> /\ Len(reqWire) < WireSize
  /\ reqWire' = Append(reqWire, Head(reqBuff)) /\ reqBuff' = Tail(reqBuff)
  /\ UNCHANGED <<bChekSendBack, cliVars, srvVars, repBuff, repWire>>

OnLoginResult_KeepsWaiting ==
  /\ repWire # <<>>
  /\ nRecvMsgID' = nRecvMsgID + 1
  /\ repWire' = Tail(repWire)
  /\ UNCHANGED <<bChekSendBack, nSendMsgID, nSendCount, bSend, srvVars, reqBuff, reqWire, repBuff>>

\* MyClient::OnNetMsg with CMD_LOGIN_RESULT.
OnLoginResult ==
  /\ repWire # <<>>
  /\ bSend' = FALSE
  /\ nRecvMsgID' = nRecvMsgID + 1
  /\ repWire' = Tail(repWire)
  /\ UNCHANGED <<bChekSendBack, nSendMsgID, nSendCount, srvVars, reqBuff, reqWire, repBuff>>

-----------------------------------------------------------------------------
(* The server                                                              *)

OnLogin_CountsDropped ==
  /\ reqWire # <<>>
  /\ reqWire' = Tail(reqWire)
  /\ srvRecvMsgID' = srvRecvMsgID + 1
  /\ repBuff' = IF Len(repBuff) < ServerBuff THEN Append(repBuff, srvSendMsgID) ELSE repBuff
  /\ srvSendMsgID' = srvSendMsgID + 1
  /\ UNCHANGED <<bChekSendBack, cliVars, reqBuff, repWire>>

\* MyServer::OnNetMsg with CMD_LOGIN.
OnLogin ==
  /\ reqWire # <<>>
  /\ reqWire' = Tail(reqWire)
  /\ srvRecvMsgID' = srvRecvMsgID + 1
  /\ IF Len(repBuff) < ServerBuff
     THEN repBuff' = Append(repBuff, srvSendMsgID) /\ srvSendMsgID' = srvSendMsgID + 1
     ELSE UNCHANGED <<repBuff, srvSendMsgID>>
  /\ UNCHANGED <<bChekSendBack, cliVars, reqBuff, repWire>>

ServerWrites ==
  /\ repBuff # <<>> /\ Len(repWire) < WireSize
  /\ repWire' = Append(repWire, Head(repBuff)) /\ repBuff' = Tail(repBuff)
  /\ UNCHANGED <<bChekSendBack, cliVars, srvVars, reqBuff, reqWire>>

-----------------------------------------------------------------------------
EchoNext == SendTest \/ CheckSend \/ ClientWrites \/ OnLoginResult \/ OnLogin \/ ServerWrites

EchoSpec == EchoInit /\ [][EchoNext]_echoVars

\* Both programs poll and the time passes.
EchoFairness ==
  /\ WF_echoVars(SendTest) /\ WF_echoVars(CheckSend) /\ WF_echoVars(ClientWrites)
  /\ WF_echoVars(OnLoginResult) /\ WF_echoVars(OnLogin) /\ WF_echoVars(ServerWrites)
EchoFairSpec == EchoSpec /\ EchoFairness

-----------------------------------------------------------------------------
(* Properties                                                              *)

\* The number in every message is the one its receiver will expect when it
\* takes it: neither program ever logs its msgID error (server.cpp:46 and
\* client.cpp:62), also when answers or messages were refused by a full
\* send buffer.
NumbersContinuous ==
  LET req == reqWire \o reqBuff
      rep == repWire \o repBuff
  IN /\ \A i \in 1..Len(req) : req[i] = srvRecvMsgID + i - 1
     /\ nSendMsgID = srvRecvMsgID + Len(req)
     /\ \A i \in 1..Len(rep) : rep[i] = nRecvMsgID + i - 1
     /\ srvSendMsgID = nRecvMsgID + Len(rep)

\* A client never stops: every number is sent some time, although answers
\* are dropped and the client may wait for them.
KeepsSending == \A n \in 1..MaxMsgs : <>(nSendMsgID > n)
=============================================================================
