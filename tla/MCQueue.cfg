SPECIFICATION FairSpec
CONSTANTS
  s1 = s1
  s2 = s2
  w1 = w1
  w2 = w2
  Subs = {s1, s2}
  Workers = {w1, w2}
  Skills = {"a", "b"}
  SkillOf <- MCSkillOf
  Filter <- MCFilter
  Window = 2
  Stores = {TRUE, FALSE}
  MaxLeases = 7
  MaxFaults = 3
  MaxRestarts = 1
CHECK_DEADLOCK FALSE
INVARIANTS
  NothingLost
  NotRunAgain
  NewestLeaseWins
PROPERTIES
  AllCompleted
