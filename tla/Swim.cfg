CONSTANTS
  Observers = {n1, n2}
  Leavers = {n1, n2}
  MaxClock = 3
  MaxFaults = 3
SPECIFICATION FairSpec
INVARIANTS
  NoneAheadOfSubject
PROPERTIES
  Convergence
  GoneIsUnpingable
  DeadIsForgotten
CHECK_DEADLOCK FALSE
