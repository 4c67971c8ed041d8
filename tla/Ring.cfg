CONSTANTS
  Servers = {1, 2, 3, 4}
  replicaPoints = 3
  MaxBatch = 2
  Hashes <- MCHashes
  HashFunctions <- MCHashFunctions
SPECIFICATION Spec
INVARIANTS
  TreeHoldsServers
  LookupsFollowCircle
PROPERTIES
  OthersKeepTheirOrder
