SPECIFICATION FairSpec
CONSTANTS
  MaxSessions = 2
  StrategyIds = {s1}
  NoStrategy = none
  CompIds = {client}
  NoCompId = empty
  CleanupFrequency = 1
  MaxElapsed = 1
  MaxSeqNum = 2
  MaxBatch = 2
PROPERTIES
  HandlersReturn
  ImplementsSessionLife
