SPECIFICATION FairSpec
CONSTANTS
  k1 = k1
  k2 = k2
  Conns = {k1, k2}
  Socks = {1, 2}
  MaxMsgs = 2
  SendSize = 1
  Faults = {"close", "reset", "expire", "select", "stop"}
  NoConn = NoConn
INVARIANT SetsCurrent
INVARIANT NoStaleReport
PROPERTY Served
CHECK_DEADLOCK FALSE
