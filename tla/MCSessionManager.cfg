SPECIFICATION DelaySpec
CONSTANTS
  MaxSessions = 3
  StrategyIds = {s1}
  NoStrategy = none
  CleanupFrequency = 3
  MaxElapsed = 2
INVARIANTS
  ManagerTypeOK
  ZombiesTracked
  ClosedSoonDestroyed
PROPERTY
  ImplementsSessionLife
