\* One event that is sent twice, whose rows are inserted twice, and whose jobs run twice.
SPECIFICATION FairSpec
CONSTANTS
  Events = {e1}
  Outcomes = {e1}
  NoRow = norow
  SendAttempts = 2
  InsertAttempts = 2
  MaxTries = 2
INVARIANTS
  TypeOK
  LoggedOncePerRow
  DoneIsRecorded
  AcceptedIsPending
PROPERTIES
  ErrorIsFinal
  SettlesUnlessInterrupted
CHECK_DEADLOCK FALSE
