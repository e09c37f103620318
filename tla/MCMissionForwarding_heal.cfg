SPECIFICATION FairSpec
CONSTANTS
  None = None
  m1 = m1
  m2 = m2
  Missions = {m1}
  MaxLosses = 2
  MaxRestarts = 2
PROPERTY RestartHeals
PROPERTY Tracks
CHECK_DEADLOCK FALSE
