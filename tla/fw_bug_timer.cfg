SPECIFICATION Spec
CONSTANTS
  p1 = p1
  Ports = {p1}
  PortSets <- MCPortSets
  SSH = ssh
  Hosts = {{"v4", "v6"}}
  Failing = {}
  Window = 2
  Tries = 2
  JumpCap = 3
  EditsWhen = "any"
  Crashes = FALSE
  RescueWhen = "never"
PROPERTY TrialEnds
