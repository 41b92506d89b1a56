SPECIFICATION FairSpec
CONSTANTS
    Callers = {"t1"}
    MaxStrikes = 2
    MaxAttempts = 2
    MaxTokens = 1
    MaxEvents = 1
CHECK_DEADLOCK FALSE
PROPERTY SetTokenReturns
