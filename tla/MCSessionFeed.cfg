CONSTANTS
  Sessions = {s1}
  Users = {u1}
  Page = "dashboard"
  Cap = 1
  MaxEdits = 1
  MaxFaults = 1
SPECIFICATION Spec
PROPERTY PingsConverge
CHECK_DEADLOCK FALSE
