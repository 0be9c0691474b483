SPECIFICATION Spec
CONSTANTS
  c1 = c1
  c2 = c2
  c3 = c3
  Conns = {c1, c2, c3}
  MaxConnections = 2
  AcceptErrors = TRUE
INVARIANT ActiveExact
INVARIANT LimitKept
INVARIANT StoppedAtRest
PROPERTY StopReleases
CHECK_DEADLOCK FALSE
