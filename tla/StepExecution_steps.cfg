\* Steps of one run and the routes of a planner, in two environments.
SPECIFICATION Spec
CONSTANTS
    r1 = r1
    p1 = p1
    Callers <- MCCallers
    Runs <- MCRuns
    Order <- MCOrder
    Keys <- MCKeys
    Tools <- MCTools
    Environments <- MCEnvironments
    MaxRetries = 1
    Cooldown = 2
    StepRetries = 1
INVARIANTS
    TypeOK
    EffectsOnce
    ExplainedAsEnforced
    FailedMeansExhausted
PROPERTIES
    ProviderComesBack
