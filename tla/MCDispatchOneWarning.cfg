CONSTANTS
  Issues = {i1}
  Rows = {r1}
  Ticks = {t1}
  Scopes = {1, 2}
  Routed = {1}
  TooDeep = {}
  MaxAge = 2
  Timeout = 2
  Grace = 1
  Budget = 0
  Faults = {"forge"}
  Humans = {"scope"}
  MaxCrashes = 0
  NoRow = NoRow
SPECIFICATION Spec
INVARIANTS
  OneWarningEver
