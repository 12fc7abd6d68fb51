SPECIFICATION FairSpec
CONSTANTS
  c1 = c1
  c2 = c2
  Clients = {c1, c2}
  MsgLen = 2
  RecvSize = 3
  ReplyLen = 2
  SendSize = 3
  MaxMsgs = 1
  SendBack = TRUE
  Faults = {"close", "reset", "expire", "iocp", "stop"}
PROPERTY Served
PROPERTY Disconnects
CHECK_DEADLOCK FALSE
