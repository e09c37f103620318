SPECIFICATION Spec
CONSTANTS
  None = None
  m1 = m1
  m2 = m2
  Missions = {m1, m2}
  MaxLosses = 2
  MaxRestarts = 2
INVARIANT NeverAhead
INVARIANT ResyncAccepted
INVARIANT EveryUpdateLegal
CHECK_DEADLOCK FALSE
