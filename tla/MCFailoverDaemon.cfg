SPECIFICATION FairSpec
CONSTANTS
  a = a
  b = b
  Spots <- One
  Hybrid = FALSE
  UpChecks = 2
  DownChecks = 2
  Settings <- SpotFails
  MaxObjs = 1
  MaxFaults = 0
  MaxFlaps = 1
PROPERTIES
  ProxiesToLiveDaemon
CHECK_DEADLOCK FALSE
