\* Two flows over the runs of one store, clean-ups and restarts.
SPECIFICATION Spec
CONSTANTS
    r1 = r1
    r2 = r2
    c1 = c1
    c2 = c2
    k1 = k1
    Bad = Bad
    Runs <- MCRuns
    Clients = {c1, c2}
    Agents = {c1}
    Operators = {c2}
    Setting <- MCSetting
    Keys = {k1}
    Plans <- MCPlans
    Retentions <- MCRetentions
    MaxSteps = 1
    MaxTime = 1
SYMMETRY Symmetry
INVARIANTS
    TypeOK
    NoOrphans
    ViewCoversStatus
    ProfileStable
PROPERTIES
    NewestKept
    UsesNeverLost
