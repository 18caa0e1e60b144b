CONSTANTS
  Hosts = {a, b}
  MaxFlows = 2
  Pings = {p1}
  Unlocks = {u1, u2}
  Stops = {s1}
  MaxOthers = 2
  None = None
SPECIFICATION FairSpec
INVARIANTS NonceOnce SharesVerify NoOrphanShare
PROPERTY PromiseKept
CHECK_DEADLOCK FALSE
