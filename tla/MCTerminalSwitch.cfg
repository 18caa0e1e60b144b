CONSTANTS
  Hosts = {a, b}
  MaxConns = 3
  MaxPooled = 1
  MaxReconnect = 1
  MaxMoves = 2
  None = None
SPECIFICATION MCFairSpec
INVARIANT ShownIsActive
CHECK_DEADLOCK FALSE
