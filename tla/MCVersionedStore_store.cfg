SPECIFICATION Spec
CONSTANTS
    Keys = {k1, k2}
    MaxTime = 2
    MaxWrites = 3
    MaxReads = 1
    MaxSetbacks = 1
PROPERTY Implements
INVARIANT AcknowledgedIsKept
