CONSTANTS
  Issues = {i1}
  Rows = {r1, r2}
  Ticks = {t1, t2}
  Scopes = {1}
  Routed = {1}
  TooDeep = {}
  MaxAge = 2
  Timeout = 2
  Grace = 1
  Budget = 0
  Faults = {"cancel", "provision"}
  Humans = {"scope", "rerun", "gate", "close"}
  MaxCrashes = 0
  NoRow = NoRow
SPECIFICATION Spec
SYMMETRY Symmetry
INVARIANTS
  TypeOK
  OneActivePerIssue
  ReportedOnce
  ActiveRowsAreOwned
  OneActingRun
  EndedRowsLoseCredentials
  NoStrandedLabel
PROPERTIES
  LaunchesOnlyActiveRows
  RerunsAreAskedFor
