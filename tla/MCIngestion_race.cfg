SPECIFICATION Spec
CONSTANTS
  None = None
  c1 = c1
  c2 = c2
  m1 = m1
  Missions = {m1}
  Collectors = {c1, c2}
  Registered = {c1, c2}
  Bodies <- RacingBodies
  MaxSubmissions = 2
  MaxAttempts = 1
  MaxCrashes = 0
  MayFail = FALSE
  LateArrival = TRUE
PROPERTY MissionNeverRegresses
CHECK_DEADLOCK FALSE
