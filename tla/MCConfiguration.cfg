SPECIFICATION Spec
CONSTANTS
  a = a
  b = b
  c = c
  trade = trade
  statistic = statistic
  bid = bid
  EmptyText = empty
  TextList = texts
  EmptyList = nothing
  MixedList = mixed
  Table = table
  Other = other
  IdModulus = 4
  Documents <- MCDocuments
  Texts <- MCTexts
  Numbers <- MCNumbers
  StatisticsTypes <- MCStatisticsTypes
  MDEntryTypes <- MCMDEntryTypes
  Accounts <- MCAccounts
  Matches <- MCMatches
INVARIANTS
  ConfigTypeOK
  UsersIdentified
  SharedOnlyByOverlap
  StartsIffValid
PROPERTY
  LaterChecksPass
CHECK_DEADLOCK FALSE
