\* Somebody joins a workspace between the survey and the purge.
CONSTANTS
  Workspaces = {w}
  Others = {a}
  Me = me
  MaxMoves = 2
SPECIFICATION Spec
CHECK_DEADLOCK FALSE
PROPERTIES ErasesOnlyOnesOwn
