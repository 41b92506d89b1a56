SPECIFICATION Spec
CONSTANTS
    q1 = q1
    q2 = q2
    Reqs = {q1}
    Ops = {"token"}
    MaxRefreshes = 1
    MaxFailures = 0
    MaxRestarts = 0
    Rotates = FALSE
CHECK_DEADLOCK FALSE
INVARIANT FreshTokenKept
