SPECIFICATION Spec
CONSTANTS
  alice = alice
  bob = bob
  trade = trade
  quote = quote
  own = own
  other = other
  NanosPerMilli = 3
  Tolerance = 4
  MaxTime = 9
  MaxRequests = 1
  MaxAnswers = 3
  Users <- MCUsers
  Usernames <- MCUsernames
  Components <- MCComponents
  Secrets <- MCSecrets
  Skews <- MCSkews
INVARIANTS
  LogonTypeOK
  GenuineGetIn
  OnlyTimelyGetIn
  RetriesAgree
CHECK_DEADLOCK FALSE
