\* A deactivation overtakes the activation of the newer membership.
CONSTANTS
  Memberships = 2
  MaxFailures = 0
SPECIFICATION Spec
CHECK_DEADLOCK FALSE
PROPERTIES StaleDeactivationIsNoOp
