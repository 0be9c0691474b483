SPECIFICATION Spec
CONSTANTS
  p1 = p1
  Ports = {p1}
  PortSets <- MCPortSets
  SSH = ssh
  Hosts = {{"v4", "v6"}}
  Failing = {"v4", "v6"}
  Window = 1
  Tries = 1
  JumpCap = 2
  EditsWhen = "never"
  Crashes = TRUE
  RescueWhen = "down"
INVARIANT RollbackOnlyPending
INVARIANT SshKept
