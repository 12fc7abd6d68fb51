SPECIFICATION FairSpec
CONSTANTS
  Clients = {c1}
  Variants = {"select", "epoll", "iocp"}
  FaultSets = {{}, {"wait", "post"}}
  MsgLen = 2
  RecvSize = 2
  SendSize = 2
  MaxInits = 2
  MaxPushed = 2
  MaxSent = 1
  MaxClient = 1
CHECK_DEADLOCK FALSE
INVARIANT BytesKept
PROPERTY LossNoticed
PROPERTY Answered
