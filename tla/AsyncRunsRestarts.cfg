SPECIFICATION FairSpec
CONSTANTS
    r1 = r1
    r2 = r2
    CronRuns = {r1}
    BgRuns = {r2}
    Jobs = {j1}
    MaxAttempts = 1
    MaxFaults = 1
    MaxStops = 1
    NoRun = NoRun
CHECK_DEADLOCK FALSE
INVARIANTS QueuedHasOwner DuplicateNeedsFault
PROPERTY PendingSettles
