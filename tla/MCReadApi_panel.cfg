SPECIFICATION Spec
CONSTANTS
  None = None
  Blank = Blank
  Placeholder = Placeholder
  c1 = c1
  c2 = c2
  k1 = k1
  k2 = k2
  OfflineTimeout = 1
  WarningAge = 0
  FailuresWarning = 1
  WarningAt <- MCWarningAt
  CriticalAt <- MCCriticalAt
  Registry <- MCRegistry
  Backend = "OBLN01"
  Reports <- MCReports
  MissionLists <- MCMissionLists
  Requests <- MCRequests
  Configs <- MCConfigs
  MaxBytes = 2
  RecentLimit = 1
  MaxTime = 2
  MaxEvents = 2
  MaxOutages = 1
  MaxMeanwhile = 2
INVARIANT DockerCountsShown
CHECK_DEADLOCK FALSE
