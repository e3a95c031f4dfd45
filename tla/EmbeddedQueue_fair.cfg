\* Two jobs for one slot, patient retries, the v2 endpoints only, under fairness.
SPECIFICATION FairSpec
CONSTANTS
  Jobs = {j1, j2}
  Threads = {c1}
  MaxAttempts = 2
  MaxConcurrency = 1
  LegacyRetries = FALSE
  HastyRetries = FALSE
  DatabaseErrors = FALSE
  Idle = Idle
  NoRow = NoRow
INVARIANTS WithinConcurrency ShutdownStops
PROPERTIES CancelledNeverCompletes Lifecycle QueuedIsServed
CHECK_DEADLOCK FALSE
