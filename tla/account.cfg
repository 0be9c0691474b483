SPECIFICATION Spec
CONSTANTS
  b1 = b1
  b2 = b2
  Browsers = {b1, b2}
  Asks <- MCAsks
  Slots = {c1, c2}
  Secrets = {s1, s2}
  NoSecret = none
  Tokens = {1, 2, 3}
  NoToken = 0
  MaxPassword = 1
INVARIANT NotLockedOut
INVARIANT OldSessionsEnd
INVARIANT OwnSessionKept
SYMMETRY MCSymmetry
CHECK_DEADLOCK FALSE
