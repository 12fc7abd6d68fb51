SPECIFICATION EchoFairSpec
CONSTANTS
  NMsg = 3
  ClientBuff = 2
  ServerBuff = 1
  WireSize = 2
  MaxMsgs = 6
INVARIANT NumbersContinuous
PROPERTY KeepsSending
