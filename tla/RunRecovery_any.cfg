\* Every endpoint, two calls at a time besides the agent.
SPECIFICATION Spec
CONSTANTS
  Calls = {c1, c2}
  Agent = Agent
  Gates = {"profile", "explicit"}
  MaxSteps = 2
  MaxTries = 1
  MaxLog = 4
  Unguarded = TRUE
  Racing = FALSE
SYMMETRY Symmetry
INVARIANTS ExecutionsApproved
CHECK_DEADLOCK FALSE
