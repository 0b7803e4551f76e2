\* Concurrent inserts, the daily job, lost answers and failures.
SPECIFICATION FairSpec
CONSTANTS
  Events = {e1, e2, e3}
  Genesis = genesis
  InsertAttempts = 2
  MaxClock = 3
INVARIANTS
  TypeOK
  LinearChain
  SealedInOnePeriod
  CheckpointsChain
  SealedUnlessLate
PROPERTY
  EventuallySealed
CHECK_DEADLOCK FALSE
