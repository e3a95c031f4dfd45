\* An approval and a rejection of the same pending step, the second in a thread.
SPECIFICATION Spec
CONSTANTS
  Calls = {c1, c2}
  Agent = Agent
  Gates = {"open", "profile", "explicit", "denied"}
  MaxSteps = 2
  MaxTries = 2
  MaxLog = 9
  Unguarded = FALSE
  Racing = TRUE
INVARIANTS DecidedOnce
CHECK_DEADLOCK FALSE
