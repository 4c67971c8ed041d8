CONSTANTS
  Periodic = {p, q}
  Admin = {admin}
  MaxTargets = 3
  MaxFailures = 2
  MaxReadies = 2
SPECIFICATION TimerFairSpec
INVARIANTS
  OneChain
PROPERTIES
  HealsAgain
  HealsCease
CHECK_DEADLOCK FALSE
