SPECIFICATION Spec
CONSTANTS
  a = a
  b = b
  c = c
  trade = trade
  statistic = statistic
  bid = bid
  EmptyText = empty
  TextList = texts
  EmptyList = nothing
  MixedList = mixed
  Table = table
  Other = other
  IdModulus = 4
  Documents <- MCDocuments
  Texts <- MCTexts
  Numbers <- MCNumbers
  StatisticsTypes <- MCStatisticsTypes
  MDEntryTypes <- MCMDEntryTypes
  Accounts <- MCAccounts
  Matches <- MCMatches
INVARIANT
  UnknownKeysFail
CHECK_DEADLOCK FALSE
