SPECIFICATION Spec
CONSTANTS
  r1 = r1
  r2 = r2
  r3 = r3
  d1 = d1
  d2 = d2
  Runs = {r1, r2, r3}
  Daemons = {d1, d2}
  Home <- TwoDaemons
  StaleAfter = 2
  Windows = {2}
  PageSize = 10
  Provider = "gitlab"
  FaultSets <- BestAndWorst
  MaxClock = 2
  MaxAsks = 3
  MaxEvents = 0
  MaxThread = 5
PROPERTIES
  RefusedForCause
CHECK_DEADLOCK FALSE
