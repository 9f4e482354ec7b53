SPECIFICATION FairSpec
CONSTANTS
  a = a
  b = b
  Spots <- Two
  Hybrid = TRUE
  UpChecks = 2
  DownChecks = 1
  Settings <- All
  MaxObjs = 2
  MaxFaults = 1
  MaxFlaps = 2
INVARIANTS
  ModesAgree
PROPERTIES
  MaintenanceIsLastResort
  ProxiesToReachable
  RecoversFromMaintenance
CHECK_DEADLOCK FALSE
