CONSTANTS
  Watchers = {w1, w2}
  Starts = {p1}
  NoOne = NoOne
  MaxIds = 2
  MaxTmux = 2
  MaxFaults = 1
SPECIFICATION Spec
PROPERTIES NoEndOfSurvivor EndReported StartRevives
CHECK_DEADLOCK FALSE
