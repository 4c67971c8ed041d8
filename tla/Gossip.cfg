CONSTANTS
  Local = local
  Members = {local, m1, m2, m3}
  pingReqSize = 3
  MaxChurn = 1
  MaxStarts = 2
SPECIFICATION GossipFairSpec
INVARIANTS
  OneProbe
  LoopAlive
PROPERTIES
  EveryMemberProbed
  FallsSilent
CHECK_DEADLOCK FALSE
