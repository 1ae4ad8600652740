SPECIFICATION FairSpec
CONSTANTS
  m1 = m1  m2 = m2  m3 = m3  m4 = m4
  Messages = {m1, m2, m3, m4}
  Prefetch = 3
  BatchSize = 2
  MaxAttempts = 2
  MaxRestarts = 1
INVARIANTS TypeOK AckedIsWritten HeldInOrder PendingHasWakeup StopFinishesBatches
PROPERTIES ImplementsWorker EverySettles
CHECK_DEADLOCK FALSE
