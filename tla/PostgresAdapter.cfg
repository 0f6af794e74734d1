SPECIFICATION FairSpec
CONSTANTS
    failureThreshold = 2
    resetTimeout = 1
    halfOpenMaxAttempts = 2
    MaxCount = 3
    Requests = {r1, r2}
    Kinds = {"throws", "swallows", "nested", "createMemory"}
    maxRetries = 3
INVARIANTS
    BoundedLoadWhileOpen
PROPERTIES
    ClosesOnOutcome
    ShedsLoadWhenDown
    RecoversWithService
