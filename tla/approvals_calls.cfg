\* The rows a retried insert leaves behind, one decision and one sweep: what
\* the call does, what Slack shows, and that everything ends.
SPECIFICATION FairSpec
CONSTANTS
  Calls = {c1}
  Deciders = {d1}
  Sweepers = {s1}
  InsertAttempts = 2
  MaxPollErrors = 2
INVARIANTS
  RunsOnlyIfApproved
  SlackTellsTheTruth
PROPERTIES
  ImplementsGate
  PendingIsResolved
  CallsReturn
CHECK_DEADLOCK FALSE
