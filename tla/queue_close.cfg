\* Three events, and two calls of flush or close beside the thread.
SPECIFICATION FairSpec
CONSTANTS
  Events = {e1, e2, e3}
  Closers = {k1, k2}
  Attempts = 2
INVARIANTS
  TypeOK
  NothingVanishes
  CloseDrains
  FlushLeavesOne
PROPERTY
  EventsAreReported
CHECK_DEADLOCK FALSE
