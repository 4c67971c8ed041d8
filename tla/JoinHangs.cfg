CONSTANTS
  Hosts = {h1, h2}
  Preferred = {h1}
  MaxJoins = 2
  JoinSize = 2
  Parallelism = 1
  MaxRetries = 1
  MaxInflight = 1
  MaxLate = 1
  PreHooks = {hook}
  PostHooks = {hook}
  MaxPings = 1
  MaxReloads = 1
SPECIFICATION ReloadSpec
PROPERTY JoinEnds
CHECK_DEADLOCK FALSE
