SPECIFICATION Spec
CONSTANTS
    r1 = r1
    r2 = r2
    CronRuns = {r1, r2}
    BgRuns = {}
    Jobs = {j1}
    MaxAttempts = 2
    MaxFaults = 2
    MaxStops = 0
    NoRun = NoRun
CHECK_DEADLOCK FALSE
SYMMETRY RunSymmetry
INVARIANTS SuccessHasOutput DeliveredWasSent
PROPERTIES SupersededByNewer ImplementsOutbox
