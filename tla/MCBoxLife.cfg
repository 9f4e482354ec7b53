SPECIFICATION Spec
CONSTANTS
  MaxEvents = 2
  Ops = {"start", "stop", "delete", "create", "ttl", "toggle", "policy", "publish", "poweroff"}
  Overtakes = FALSE
  Waf = FALSE
INVARIANTS
  AsleepMeansWakeable
PROPERTIES
  EdgeConverges
  SleepersWake
  WakeModeEnds
  CondemnedGoes
CHECK_DEADLOCK FALSE
