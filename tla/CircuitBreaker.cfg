SPECIFICATION FairSpec
CONSTANTS
    failureThreshold = 2
    resetTimeout = 2
    halfOpenMaxAttempts = 2
    MaxCount = 4
    Callers = {c1, c2, c3}
INVARIANTS
    IInv
PROPERTIES
    ImplementsContract
    RecoversWithService
