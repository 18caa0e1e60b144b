CONSTANTS
  a = a
  b = b
  c = c
  d = d
  e = e
  Ids <- MCIds
  Existing <- MCExisting
  Tagged = {a, c}
  Tags = {x}
  MaxTags = 2
  MaxMoves = 2
  MaxUpdates = 1
  MaxFaults = 2
  None = None
SPECIFICATION HSpec
INVARIANTS FilterShowsSome 
PROPERTIES DropKeepsList CreateReported
CHECK_DEADLOCK FALSE
