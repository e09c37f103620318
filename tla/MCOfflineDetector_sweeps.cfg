SPECIFICATION FairSpec
CONSTANTS
  None = None
  a1 = a1
  o1 = o1
  Self = o1
  Timeout = 1
  Fleet <- OneAsset
  MaxTime = 4
  MaxFailures = 0
  MaxRestarts = 0
  Replays = FALSE
INVARIANT TransitionsChain
INVARIANT OfflineMeansSilent
PROPERTY StreamSettles
CHECK_DEADLOCK FALSE
