SPECIFICATION ProgramFairSpec
CONSTANTS
  NThread = 3
  NClient = 1
  Losses = TRUE
INVARIANT ConnectsCounted
INVARIANT ClientsDeleted
INVARIANT NobodySendsEarly
PROPERTY ExitEnds
CHECK_DEADLOCK FALSE
