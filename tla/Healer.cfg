CONSTANTS
  SideA = {a, c}
  SideB = {b}
  Newcomers = {b}
  Leavers = {c}
  Local = a
  DeadHosts = {dead}
  maxNumberOfFailures = 1
  MaxSplits = 1
SPECIFICATION FairSpec
PROPERTIES
  HealSpares
  EverybodyMeets
