SPECIFICATION Spec
CONSTANTS
  c1 = c1
  c2 = c2
  Clients = {c1, c2}
  MsgLen = 2
  RecvSize = 3
  ReplyLen = 2
  SendSize = 3
  MaxMsgs = 2
  SendBack = TRUE
  Faults = {"close", "reset", "expire", "iocp", "stop"}
INVARIANT TypeOK
INVARIANT PostedRegion
INVARIANT FlagsCoverIo
INVARIANT BytesIn
INVARIANT BytesOut
INVARIANT NoOrphan
CHECK_DEADLOCK FALSE
