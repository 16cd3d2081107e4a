SPECIFICATION CallsSpec
CONSTANTS
  MaxSessions = 3
  StrategyIds = {s1, s2, s3, s4}
  NoStrategy = none
INVARIANTS
  RoutesTypeOK
  MapsAgree
PROPERTY
  ImplementsOwnership
