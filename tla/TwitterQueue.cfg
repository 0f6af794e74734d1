SPECIFICATION QueueFairSpec
CONSTANTS
    Requests = {a, b, s, t}
    Searches = {s, t}
    None = None
INVARIANTS
    InOrder
    SendsOneByOne
PROPERTY
    ImplementsWorkQueue
    EveryRequestSettles
CHECK_DEADLOCK FALSE
