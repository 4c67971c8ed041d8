CONSTANTS
  Hosts = {h1, h2}
  Preferred = {h1}
  MaxJoins = 2
  JoinSize = 2
  Parallelism = 1
  MaxRetries = 1
  MaxInflight = 1
  MaxLate = 1
  PreHooks = {hook}
  PostHooks = {}
  MaxPings = 1
  MaxReloads = 0
SPECIFICATION FairSpec
INVARIANTS
  TypeOK
  JoinedEnough
  AnsweredOnce
  QuietOnceDestroyed
PROPERTIES
  JoinEndsIfHostsSuffice
  EvictionEnds
CHECK_DEADLOCK FALSE
