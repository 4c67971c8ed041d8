CONSTANTS
  Observers = {n1, n2}
  Leavers = {}
  MaxClock = 3
  MaxFaults = 3
SPECIFICATION FairSpec
PROPERTY FaultyIsReaped
CHECK_DEADLOCK FALSE
