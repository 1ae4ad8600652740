SPECIFICATION FairSpec
CONSTANTS
  s0 = s0  s1 = s1  s2 = s2  a = a  b = b
  Sales = {s0, s1, s2}
  Emails = {a, b}
  normalizeEmail <- LowerCase
  StartsAt <- From0
  EndsAt <- Until2
  InitialRemaining <- OneLeft
  InitialRows <- NoRows
  Stages <- Staircase
  JumpSeconds = 2
  Now = 1
  Suites <- CommandLines
  Profile <- Stock
  Leftover = s0
  NoSale = NoSale
  Prefetch = 2
  MaxRequests = 2
  MaxLate = 1
  MaxPolls = 1
INVARIANTS TypeOK VerifyNeverFalseAlarm FreshSaleIsClean SuiteLeavesNoRows TrackerFollowsExecutor
PROPERTIES SuiteEnds
CHECK_DEADLOCK FALSE
