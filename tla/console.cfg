\* The pages of the dashboard, one at a time, on two of everything.
SPECIFICATION ConsoleSpec
CONSTANTS
  Users = {o, a, m}
  Creator = o
  Admins = {a}
  Pages = {o, a}
  Calls = {x, y}
  Approvals = {x, y}
  Outcomes = {"approved"}
  MaxSent = 1
  Questions = 2
  Texts = 1
  InsertAttempts = 2
  MaxRestarts = 1
  MaxReviews = 2
  EventKinds = {x, y}
  PageSize = 2
  Recent = 1
  MaxEvents = 3
  Criteria = {1, 2, 3}
  Family <- TwoFamilies
  Live = {1, 3}
  OtherPlans = {"starter"}
  MaxMoves = 2
  Names = {"", "n"}
  Passwords = {x, y}
  Items <- ThreeItems
  Matches <- ThreeQueries
  Sizes <- TwoSizes
  MaxDrafted = 3
SYMMETRY Symmetry
CONSTRAINT MishapsAreFew
INVARIANTS
  PartTypeOK
  OneOwnerUnlessTroubled
  OwnChangesAreShown
  PagesTellTheTruth
PROPERTIES
  StepsDoAsAsked
CHECK_DEADLOCK FALSE
