SPECIFICATION Spec
CONSTANTS
  None = None
  a1 = a1
  o1 = o1
  Self = o1
  Timeout = 1
  Fleet <- TwoAssets
  MaxTime = 2
  MaxFailures = 1
  MaxRestarts = 1
  Replays = TRUE
INVARIANT OnlineMeansBeating
CHECK_DEADLOCK FALSE
