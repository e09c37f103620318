SPECIFICATION FairSpec
CONSTANTS
    None = None
    Facts <- MCFacts
    HeartbeatInterval = 2
    TelemetryInterval = 3
    InventoryInterval = 5
    Slow = 1
    RestartDelay = 1
    MaxFaults = 2
    MaxChanges = 2
INVARIANT HeartbeatGap
INVARIANT NamesIdentifyDisks
INVARIANT NewestUpgradeReported
PROPERTY QuietWhenStable
PROPERTY InventoryCatchesUp
