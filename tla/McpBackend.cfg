SPECIFICATION FairSpec
CONSTANTS
    Callers = {"t1"}
    MaxStrikes = 2
    MaxAttempts = 2
    MaxTokens = 1
    MaxEvents = 3
CHECK_DEADLOCK FALSE
PROPERTIES AuthDeathSticks GivesUpAfterStrikes UnreachableRecovers
