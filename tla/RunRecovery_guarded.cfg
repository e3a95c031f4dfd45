\* The guarded endpoints, losses included, under fairness.
SPECIFICATION FairSpec
CONSTANTS
  Calls = {c1, c2}
  Agent = Agent
  Gates = {"open", "profile", "explicit", "denied"}
  MaxSteps = 2
  MaxTries = 2
  MaxLog = 9
  Unguarded = FALSE
  Racing = FALSE
INVARIANTS TypeOK AwaitingHasPending
PROPERTIES SkipsCompleted RejectionEnds Settles Lifecycle
CHECK_DEADLOCK FALSE
