\* A worker with one task, which a finished one occupies until the next poll,
\* and one with two, which can claim the job again while an earlier claim of
\* it still runs; under fairness.
SPECIFICATION FairSpec
CONSTANTS
  w1 = w1
  w2 = w2
  Jobs = {j1}
  Workers = {w1, w2}
  MaxAttempts = 2
  MaxConcurrency <- OneAndTwo
  MaxClaims = 1
  Stalls = TRUE
  NoWorker = NoWorker
  EmbeddedSlot = EmbeddedSlot
  NoJob = NoJob
INVARIANT ClaimBacked
PROPERTIES QueuedIsServed DeadWorkerLosesClaim
CHECK_DEADLOCK FALSE
