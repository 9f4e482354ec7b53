SPECIFICATION FairSpec
CONSTANTS
  i1 = i1
  i2 = i2
  i3 = i3
  t1 = t1
  t2 = t2
  NoTenant = NoTenant
  Ids <- Pair
  Tenants <- Two
  Size = 1
  Quarantine = 1
  MinWarm = 1
  Ttl = 1
  DeleteFails = TRUE
  SlowClaims = FALSE
  MaxFaults = 1
  MaxRestarts = 1
INVARIANTS
  OneTask
PROPERTIES
  SweptInTheEnd
  Refills
CHECK_DEADLOCK FALSE
