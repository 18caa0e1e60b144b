CONSTANTS
  Tabs = {t1, t2}
  Hosts = {h1}
  AllowUserCreation = {TRUE, FALSE}
  Discoverable = {TRUE, FALSE}
  MaxForms = 4
  MaxFaults = 2
  None = None
SPECIFICATION HSpec
SYMMETRY TabSymmetry
INVARIANTS RegisteredUsable OneTokenPerCode PasskeyRemains
CHECK_DEADLOCK FALSE
