\* A step approved through the guarded endpoint.
SPECIFICATION Spec
CONSTANTS
  Calls = {c1}
  Agent = Agent
  Gates = {"open", "profile", "explicit", "denied"}
  MaxSteps = 2
  MaxTries = 2
  MaxLog = 9
  Unguarded = FALSE
  Racing = FALSE
INVARIANTS ApprovalSuffices
CHECK_DEADLOCK FALSE
