\* Two checkouts, their payments and ends, and a webhook that may fail once.
CONSTANTS
  Memberships = 2
  MaxFailures = 1
SPECIFICATION FairSpec
CHECK_DEADLOCK FALSE
INVARIANTS PlanIsPaidFor
PROPERTIES EventsSettle
