SPECIFICATION FairSpec
CHECK_DEADLOCK FALSE
CONSTANTS
    None = None
    Statements <- MCStatements
    Releases <- MCReleases
    Seeds <- MCSeeds
    HostOf <- MCHostOf
    MaxFaults = 3
    MaxDeploys = 1
    MaxEdits = 1
INVARIANT LedgerHonest
INVARIANT ReadyIsComplete
INVARIANT HostsRegistered
PROPERTY EditsOutliveStarts
PROPERTY RestartCompletes
