SPECIFICATION FairSpec
CONSTANTS
  Workers <- MCWorkers
  Handlers <- MCHandlers
  MaxMessages = 2
  MaxTurns = 2
  MaxEvents = 2
INVARIANTS LockedExclusive ShutdownReachesTurn ReplySurvivesClick GateCoversHandoff
PROPERTY GateReleases
CHECK_DEADLOCK FALSE
