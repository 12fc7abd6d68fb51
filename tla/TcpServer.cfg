SPECIFICATION FairSpec
CONSTANTS
  k1 = k1
  k2 = k2
  k3 = k3
  Conns = {k1, k2, k3}
  Socks = {1, 2, 3}
  LowestFirst = TRUE
  N = 2
  MaxClient = 2
  MaxRuns = 2
  MaxFailingRuns = 1
  Failures = {TRUE, FALSE}
  NoConn = NoConn
INVARIANT LimitRespected
INVARIANT CountsExact
INVARIANT MapSound
INVARIANT OwnedOnce
PROPERTY AcceptedJoins
CHECK_DEADLOCK FALSE
