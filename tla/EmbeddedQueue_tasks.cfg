\* One job, two handlers in threads, retries at any moment, writes that fail.
SPECIFICATION Spec
CONSTANTS
  Jobs = {j1}
  Threads = {c1, c2}
  MaxAttempts = 2
  MaxConcurrency = 1
  LegacyRetries = TRUE
  HastyRetries = TRUE
  DatabaseErrors = TRUE
  Idle = Idle
  NoRow = NoRow
SYMMETRY Symmetry
INVARIANTS TypeOK OneTaskPerJob SlotsBacked
PROPERTY CancelSticks
CHECK_DEADLOCK FALSE
