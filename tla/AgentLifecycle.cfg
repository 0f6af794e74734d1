SPECIFICATION FairSpec
CONSTANTS
    None = None
    a = a
    b = b
    shared = shared
    own = own
    Agents = {a, b}
    Runtimes = {r1, r2, r3}
    Items = {shared, own}
    knowledgeOf <- Knowledge
    chunks <- Chunks
    Unstoppable = {b}
    BootOrder <- BothAgents
    MaxCrashes = 1
    Faulty = TRUE
INVARIANTS
    StoredInOrder
    RegisteredKnows
    FragmentsResolve
    RegisteredIsLive
PROPERTIES
    ServerComesUp
    StartsEnd
