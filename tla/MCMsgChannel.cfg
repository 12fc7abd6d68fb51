SPECIFICATION MCSpec
CONSTANTS
  Lengths <- StreamLengths
  MaxMsgs = 4
  SendSize = 8
  WireSize = 4
  RecvSize = 7
  HeaderLen = 4
  LenUnits = 2
  Backward = FALSE
INVARIANT StreamIntact
INVARIANT RoundTrip
INVARIANT ReplyTruthful
PROPERTY ImplementsFifo
CHECK_DEADLOCK FALSE
