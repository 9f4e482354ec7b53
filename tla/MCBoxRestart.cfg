SPECIFICATION Spec
CONSTANTS
  MaxEvents = 1
  Ops = {}
  Overtakes = FALSE
  Waf = FALSE
PROPERTIES
  SleepersWakeAfterRestart
CHECK_DEADLOCK FALSE
