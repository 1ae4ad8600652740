SPECIFICATION FairSpec
CONSTANTS
  s1 = s1  s2 = s2  a = a  A = A  b = b
  r1 = r1  r2 = r2  r3 = r3  w1 = w1  w2 = w2
  Sales <- OneSale
  Listed <- OneSale
  WarmedAtStart <- OneSale
  Emails <- Spellings
  normalizeEmail <- LowerCase
  StartsAt <- OpensAt1
  EndsAt <- ClosesAt2
  InitialRemaining <- TwoUnits
  InitialRows <- NoRows
  Requests = {r1, r2}
  Workers = {w1}
  Prefetch = 2
  MaxAttempts = 3
  Faults = {"worker", "postgres", "broker"}
  MaxFaults = 2
  MaxClock = 2
PROPERTIES SuccessIsRecorded
CHECK_DEADLOCK FALSE
