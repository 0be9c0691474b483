SPECIFICATION Spec
CONSTANTS
  c1 = c1
  c2 = c2
  s1 = s1
  s2 = s2
  Clients <- MCClients
  Ids <- MCIds
  None = None
  MaxConnections = 1
  EarlyStop = FALSE
  SlowDial = FALSE
INVARIANT NoPanic
CHECK_DEADLOCK FALSE
