SPECIFICATION Spec
CONSTANTS
  i1 = i1
  i2 = i2
  i3 = i3
  t1 = t1
  t2 = t2
  NoTenant = NoTenant
  Ids <- Three
  Tenants <- Two
  Size = 2
  Quarantine = 1
  MinWarm = 2
  Ttl = 1
  DeleteFails = FALSE
  SlowClaims = FALSE
  MaxFaults = 1
  MaxRestarts = 0
SYMMETRY Sym
INVARIANTS
  UniqueAddresses
  AddressesAccounted
  NoOrphans
CHECK_DEADLOCK FALSE
