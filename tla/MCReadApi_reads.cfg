SPECIFICATION FairSpec
CONSTANTS
  None = None
  Blank = Blank
  Placeholder = Placeholder
  c1 = c1
  c2 = c2
  k1 = k1
  k2 = k2
  OfflineTimeout = 1
  WarningAge = 0
  FailuresWarning = 1
  WarningAt <- MCWarningAt
  CriticalAt <- MCCriticalAt
  Registry <- MCRegistry
  Backend = "OBLN01"
  Reports <- MCReports
  MissionLists <- MCMissionLists
  Requests <- MCRequests
  Configs <- MCConfigs
  MaxBytes = 2
  RecentLimit = 1
  MaxTime = 2
  MaxEvents = 2
  MaxOutages = 1
  MaxMeanwhile = 2
INVARIANT OfflineIsSilent
INVARIANT AbsenceIsReal
INVARIANT HostSectionNotOlder
INVARIANT MissingIsNotPenalised
INVARIANT RecentNotOlder
INVARIANT RecentKeepsNotable
INVARIANT BodyWithinLimit
INVARIANT KeysNameOneIdentity
PROPERTY EveryReadAnswered
CHECK_DEADLOCK FALSE
