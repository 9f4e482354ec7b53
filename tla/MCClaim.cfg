SPECIFICATION Spec
CONSTANTS
  r1 = r1
  r2 = r2
  r3 = r3
  d1 = d1
  d2 = d2
  Runs = {r1, r2, r3}
  Daemons = {d1, d2}
  Home <- TwoDaemons
  StaleAfter = 2
  Windows = {2, 3}
  PageSize = 10
  Provider = "github"
  FaultSets <- BestAndWorst
  MaxClock = 3
  MaxAsks = 3
  MaxEvents = 1
  MaxThread = 5
INVARIANTS
  FirstClaimWins
  SomebodyWins
PROPERTIES
  RefusedForCause
CHECK_DEADLOCK FALSE
