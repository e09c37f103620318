SPECIFICATION FairSpec
CONSTANTS
  None = None
  c1 = c1
  c2 = c2
  m1 = m1
  Missions = {m1}
  Collectors = {c1}
  Registered = {c1}
  Bodies <- MixedBodies
  MaxSubmissions = 1
  MaxAttempts = 3
  MaxCrashes = 1
  MayFail = TRUE
  LateArrival = TRUE
INVARIANT TypeOK
PROPERTY EveryRequestAnswered
PROPERTY EverySubmissionEnds
CHECK_DEADLOCK FALSE
