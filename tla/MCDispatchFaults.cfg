CONSTANTS
  Issues = {i1}
  Rows = {r1}
  Ticks = {t1, t2}
  Scopes = {1}
  Routed = {1}
  TooDeep = {}
  MaxAge = 2
  Timeout = 2
  Grace = 1
  Budget = 0
  Faults = {"cancel", "provision", "store", "forge", "lease"}
  Humans = {"scope", "rerun"}
  MaxCrashes = 1
  NoRow = NoRow
SPECIFICATION Spec
SYMMETRY Symmetry
PROPERTIES
  TerminalIsFinal
  KeepsPromise
