\* One row, two decisions and two overlapping sweeps racing for it.
SPECIFICATION Spec
CONSTANTS
  Calls = {c1}
  Deciders = {d1, d2}
  Sweepers = {s1, s2}
  InsertAttempts = 1
  MaxPollErrors = 2
SYMMETRY Symmetry
INVARIANTS
  TypeOK
  OneDecisionLands
  StatusExplained
PROPERTIES
  DeniedStaysDenied
CHECK_DEADLOCK FALSE
