CONSTANTS
  Clients = {c1, c2}
  Users = {u1, u2}
  NoUser = NoUser
  Cap = 1
  MaxUpdates = 3
  MaxLost = 1
  Updates <- MCUpdates
SPECIFICATION HSpec
INVARIANTS TypeOK NoPanic RegistryExact NoSilentGap
PROPERTIES NoLeak EventualDelivery
CHECK_DEADLOCK FALSE
