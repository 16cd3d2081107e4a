SPECIFICATION Spec
CONSTANTS
  MaxSessions = 2
  StrategyIds = {s1, s2}
  NoStrategy = none
  CompIds = {client}
  NoCompId = empty
  CleanupFrequency = 1
  MaxElapsed = 1
  MaxSeqNum = 3
  MaxBatch = 2
PROPERTY
  OrderUpdatesRouted
