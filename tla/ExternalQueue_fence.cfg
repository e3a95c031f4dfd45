\* Two workers with one task each and two jobs: every interleaving, no fairness.
SPECIFICATION Spec
CONSTANTS
  w1 = w1
  w2 = w2
  Jobs = {j1, j2}
  Workers = {w1, w2}
  MaxAttempts = 2
  MaxConcurrency <- OneTaskEach
  MaxClaims = 2
  Stalls = TRUE
  NoWorker = NoWorker
  EmbeddedSlot = EmbeddedSlot
  NoJob = NoJob
SYMMETRY Symmetry
INVARIANTS TypeOK ResultOfLatestClaim
PROPERTIES ResultsFromHolder CancelSticks Lifecycle
CHECK_DEADLOCK FALSE
