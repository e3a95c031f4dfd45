\* One auto-fix loop after the other, while a tool edits the same file.
SPECIFICATION Spec
CONSTANTS
    c1 = c1
    t1 = t1
    a = a
    b = b
    Clients = {c1, t1}
    Loops = {c1}
    Blocks = {a, b}
    Edits <- MCEdits
    Start <- MCStart
    MaxFileSize = 2
    Plans <- MCPlans
    MaxAttempts <- MCMaxAttempts
    Signatures = {"s1"}
    DryRuns = {TRUE, FALSE}
INVARIANTS
    TypeOK
    AttemptsDiffer
    AttemptsAreInTheFile
PROPERTIES
    LoopEnds
