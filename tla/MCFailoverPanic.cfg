SPECIFICATION Spec
CONSTANTS
  a = a
  b = b
  Spots <- One
  Hybrid = TRUE
  UpChecks = 2
  DownChecks = 2
  Settings <- GcpFails
  MaxObjs = 1
  MaxFaults = 0
  MaxFlaps = 1
INVARIANTS
  NeverPanics
CHECK_DEADLOCK FALSE
