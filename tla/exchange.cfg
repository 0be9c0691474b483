SPECIFICATION Spec
CONSTANTS
  None = None
  k1 = k1
  k2 = k2
  n1 = n1
  n2 = n2
  MaxTests = 2
  Outcomes <- MCOutcomes
  Batch = 1
  Tokens = {k1, k2}
  NodeIds = {n1, n2}
  s1 = s1
  s2 = s2
  Slots = {s1, s2}
  MaxFaults = 1
  WritesFail = FALSE
INVARIANTS TokenOnce KnownId
PROPERTIES TestsAsPromised ResultsArrive Registers
