SPECIFICATION Spec
CONSTANTS
  None = None
  c1 = c1
  c2 = c2
  m1 = m1
  Missions = {m1}
  Collectors = {c1}
  Registered = {c1}
  Bodies <- ReporterBodies
  MaxSubmissions = 2
  MaxAttempts = 2
  MaxCrashes = 1
  MayFail = TRUE
  LateArrival = FALSE
INVARIANT ProjectionBacked
INVARIANT LifecycleTimestamps
INVARIANT AcceptedSticks
INVARIANT RetryNeverConflicts
PROPERTY MissionNeverRegresses
PROPERTY StoredTransitionsLegal
PROPERTY InventoryNeverGoesBack
CHECK_DEADLOCK FALSE
