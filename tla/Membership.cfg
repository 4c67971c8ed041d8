CONSTANTS
  Local = n0
  Others = {n1}
  MaxClock = 3
  MaxBatch = 2
SPECIFICATION FairSpec
INVARIANTS
  TimersFollowMembers
  DisseminatesBeliefs
PROPERTIES
  ImplementsView
  ScheduledMovesOn
