CONSTANTS
  Others = {m1, m2}
  Steady = 4
  dampReqNVal = 3
  dampReqRVal = 2
  dampedMaxPercentage = 20
  MaxChains = 2
SPECIFICATION FairSpec
INVARIANTS
  TypeOK
  TimersFollow
  NobodyOverlooked
PROPERTIES
  DampedWithinLimit
  DampedIsReleased
CHECK_DEADLOCK FALSE
