\* docs/QUEUE.md: a requeued job is scheduled or remains queued.
SPECIFICATION Spec
CONSTANTS
  Jobs = {j1}
  Threads = {c1}
  MaxAttempts = 2
  MaxConcurrency = 1
  LegacyRetries = FALSE
  HastyRetries = TRUE
  DatabaseErrors = FALSE
  Idle = Idle
  NoRow = NoRow
SYMMETRY Symmetry
PROPERTY RetrySticks
CHECK_DEADLOCK FALSE
