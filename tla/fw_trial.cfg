SPECIFICATION Spec
CONSTANTS
  p1 = p1
  Ports = {p1}
  PortSets <- MCPortSets
  SSH = ssh
  Hosts <- MCHosts
  Failing = {}
  Window = 2
  Tries = 2
  JumpCap = 3
  EditsWhen = "outside"
  Crashes = TRUE
  RescueWhen = "down"
INVARIANT TrialGuarded
INVARIANT RolledBackOpen
INVARIANT StatusTruthful
PROPERTY TrialEnds
PROPERTY RolledBackStays
PROPERTY RescueOpens
