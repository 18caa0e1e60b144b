CONSTANTS
  Sessions = {s1}
  Handlers = {h1, h2}
  FlushInterval = 2
  StaleAfter = 5
  MaxDelay = 1
  Second = 2
  MaxTime = 7
  MaxRequests = 4
SPECIFICATION Spec
SYMMETRY HandlerSymmetry
INVARIANTS NoTouchLost AtMostOneInterval CleanShutdownKeepsAll
PROPERTY StaleCleanupSparesFlushed
CHECK_DEADLOCK FALSE
