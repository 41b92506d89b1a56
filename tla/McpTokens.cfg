SPECIFICATION Spec
CONSTANTS
    q1 = q1
    q2 = q2
    Reqs = {q1, q2}
    Ops = {"token", "addOauth", "addPlain", "remove", "headers"}
    MaxRefreshes = 2
    MaxFailures = 1
    MaxRestarts = 1
    Rotates = TRUE
CHECK_DEADLOCK FALSE
SYMMETRY ReqSymmetry
INVARIANTS LastMutationWins RefreshStaysScheduled
PROPERTY StaleResultDiscarded
