CONSTANTS
  Issues = {i1}
  Rows = {r1}
  Ticks = {t1, t2}
  Scopes = {1, 2}
  Routed = {1}
  TooDeep = {}
  MaxAge = 2
  Timeout = 2
  Grace = 1
  Budget = 0
  Faults = {"forge"}
  Humans = {"scope"}
  MaxCrashes = 1
  NoRow = NoRow
SPECIFICATION FairSpec
PROPERTIES
  ActiveRowsEnd
INVARIANTS
  WarnedOnce
