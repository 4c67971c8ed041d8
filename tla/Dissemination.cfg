CONSTANTS
  Nodes = {n1, n2}
  Addresses = {x}
  MaxVersion = 2
  MaxPiggyback = 1
  MaxJobs = 1
  MaxPings = 2
  MaxNews = 2
  MaxLost = 1
SPECIFICATION FairSpec
INVARIANTS
  TypeOK
  PendingIsCurrent
PROPERTIES
  Converges
  DiesOut
CHECK_DEADLOCK FALSE
