\* Two workspaces, a save of the page, one of somebody else, one proposal.
SPECIFICATION Spec
CONSTANTS
  Workspaces = {a, b}
  Rules = {r}
  Saves = {s}
  MaxRev = 1
  MaxTurns = 1
SYMMETRY Symmetry
INVARIANTS
  SavedIsShown
  EditorIsOfWorkspace
PROPERTIES
  RefetchKeepsTyping
CHECK_DEADLOCK FALSE
