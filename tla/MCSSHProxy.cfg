CONSTANTS
  MaxConns = 1
  MaxOthers = 1
  MaxChunks = 2
  MaxStalls = 1
SPECIFICATION HSpec
INVARIANTS TypeOK SlotsExact OneWriter NoPanic LimitKept
PROPERTIES ProxyReleased OutputComplete
CHECK_DEADLOCK FALSE
