CONSTANTS
  Nodes = {1, 2, 3}
  Keys = {2, 3}
  Requests = {r1}
  EnforceConsistency = TRUE
  EnforceKeyConsistency = TRUE
  MaxInflight = 1
  MaxRetries = 1
  MaxChanges = 2
  MaxDestroyed = 1
SPECIFICATION FairSpec
INVARIANTS
  TypeOK
  InflightCounted
  HandledOncePerTry
  OneOwnerPerRing
PROPERTIES
  EveryRequestAnswered
CHECK_DEADLOCK FALSE
