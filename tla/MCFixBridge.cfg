SPECIFICATION Spec
CONSTANTS
  MaxSessions = 2
  StrategyIds = {s1, s2}
  NoStrategy = none
  CompIds = {client}
  NoCompId = empty
  CleanupFrequency = 1
  MaxElapsed = 1
  MaxSeqNum = 3
  MaxBatch = 2
SYMMETRY StrategySymmetry
INVARIANTS
  TypeOK
  FrameAlive
  DispatchOnlyLive
  LiveSessionsKnown
  ClientViewSound
PROPERTIES
  RoutesMoveByOwner
  NewSessionsStartClean
  DestroyedChangeNothing
  LateRequestIsLast
  ImplementsSessionSafety
