SPECIFICATION MCSpec
CONSTANTS
    p1 = p1
    c1 = c1
    q1 = q1
    Providers = {p1}
    Chats = {c1}
    Reqs = {q1}
    MaxConns = 2
    MaxFaults = 1
    MaxEdits = 1
    MaxRetries = 1
CHECK_DEADLOCK FALSE
INVARIANTS SyncFollowsSandbox ConvergedWhenQuiet
PROPERTIES Recovers AffectedTold ShutdownEnds RequestsAnswered
