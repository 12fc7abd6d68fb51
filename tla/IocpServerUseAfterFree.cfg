SPECIFICATION Spec
CONSTANTS
  c1 = c1
  c2 = c2
  Clients = {c1, c2}
  MsgLen = 2
  RecvSize = 3
  ReplyLen = 1
  SendSize = 2
  MaxMsgs = 2
  SendBack = TRUE
  Faults = {"close"}
SYMMETRY ClientSymmetry
INVARIANT NoDangling
CHECK_DEADLOCK FALSE
