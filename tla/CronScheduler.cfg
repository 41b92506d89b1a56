SPECIFICATION FairSpec
CONSTANTS
    e1 = e1
    e2 = e2
    Execs = {e1, e2}
    TickJobs = {im}
    OneShotJobs = {os}
    RecurringJobs = {rc}
    LockTtl = 1
    MaxEdits = 1
    MaxTriggers = 1
    MaxFaults = 1
    MaxStops = 1
CHECK_DEADLOCK FALSE
INVARIANTS UpgradeExclusive OverlapNeedsGap LockHasRunner
PROPERTY OneShotSettles
