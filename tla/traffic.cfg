SPECIFICATION Spec
CONSTANTS
  None = None
  r = r
  Rules = {r}
  Protocol <- OneProtocol
  Versions = {1, 2}
  UserLimits = {0, 1}
  RuleLimit = 2
  MaxCarried <- TwoBytes
  MaxEdits = 2
  Crashes = TRUE
  Resurrect = FALSE
INVARIANTS NeverOvercharged BilledOnce UserBillExact
PROPERTY WithdrawnStops
