SPECIFICATION Spec
CONSTANTS
  s1 = s1  s2 = s2  a = a  A = A  b = b
  r1 = r1  r2 = r2  r3 = r3  w1 = w1  w2 = w2
  Sales <- OneSale
  Listed <- OneSale
  WarmedAtStart <- OneSale
  Emails <- Spellings
  normalizeEmail <- LowerCase
  StartsAt <- OpensAt1
  EndsAt <- ClosesAt2
  InitialRemaining <- OneUnit
  InitialRows <- NoRows
  Requests = {r1, r2, r3}
  Workers = {w1, w2}
  Prefetch = 2
  MaxAttempts = 2
  Faults = {"broker", "lost_publish", "worker", "postgres", "api", "cancel"}
  MaxFaults = 2
  MaxClock = 2
SYMMETRY Symmetry
INVARIANTS TypeOK GateAgreesWithLedger BatchNeverAborts
PROPERTIES ReservedIsNeverRefused PromiseKept
CHECK_DEADLOCK FALSE
