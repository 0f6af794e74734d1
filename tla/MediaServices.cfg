SPECIFICATION FairSpec
CONSTANTS
    c1 = c1
    c2 = c2
    c3 = c3
    u1 = u1
    u2 = u2
    u3 = u3
    Callers = {c1, c2, c3}
    Worker = Worker
    Urls = {u1, u2, u3}
    Asked <- MCAsked
    YouTube = {u3}
    Direct = {u1}
    Captioned = {u2}
    None = None
    MaxFaults = 1
    MaxCrashes = 1
CHECK_DEADLOCK FALSE
INVARIANTS
    IInv
    HalfOnlyAfterTrouble
    EndsForAReason
PROPERTY
    ImplementsWorkQueues
    CallersSettle
