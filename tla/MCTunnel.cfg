SPECIFICATION FairSpec
CONSTANTS
  a = a
  b = b
  Spots <- Two
  Preferred <- Last
  MaxGen = 3
  Faults = {"alias", "response", "bind"}
  Prompt = TRUE
INVARIANTS
  DistinctAddresses
  LiveTunnelServes
  NoStrayListener
  LiveTunnelKeepsBackend
PROPERTIES
  TunnelIsRouted
CHECK_DEADLOCK FALSE
