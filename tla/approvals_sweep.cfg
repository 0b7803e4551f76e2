\* Expected to be violated: FirstDecisionStands.
SPECIFICATION Spec
CONSTANTS
  Calls = {c1}
  Deciders = {d1}
  Sweepers = {s1}
  InsertAttempts = 1
  MaxPollErrors = 2
PROPERTY
  FirstDecisionStands
CHECK_DEADLOCK FALSE
