CONSTANTS
  MaxStarts = 1
  MaxSubmits = 2
  MaxMoves = 1
  None = None
SPECIFICATION Spec
INVARIANTS SuccessIsReal PeerLearns CancelSticks
CHECK_DEADLOCK FALSE
