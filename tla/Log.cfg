SPECIFICATION LogFairSpec
CONSTANTS
  a = a
  b = b
  c = c
  d = d
  e = e
  Tasks = {a, b, c, d, e}
INVARIANT LinesKept
INVARIANT NoWriteAfterClose
PROPERTY ImplementsQueue
CHECK_DEADLOCK FALSE
