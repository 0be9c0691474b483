SPECIFICATION Spec
CONSTANTS
  r1 = r1
  r2 = r2
  p1 = p1
  p2 = p2
  a = a
  b = b
  Rules = {r1, r2}
  Ports = {p1, p2}
  RuleSets <- MCRuleSets
  None = None
  External = TRUE
  FwFails = TRUE
  WritesFail = TRUE
  Crashes = TRUE
INVARIANT OnlyApplied
INVARIANT LastAnswerKept
PROPERTY PortsHandedOver
PROPERTY Uninterrupted
