SPECIFICATION FairSpec
CONSTANTS
    Objects = {1, 2}
    Casts = {1, 2}
    Mentions = {1, 2}
    Own = {}
    NoCast = NoCast
    Parent <- MCParent
    NoObject = 0
    PageSize <- MCPageSize
    MaxChunks = 2
    MaxFaults = 1
    MaxCrashes = 1
CHECK_DEADLOCK FALSE
INVARIANTS
    IInv
    AnsweredTwiceOnlyByAstray
    SilentOnlyAfterTrouble
PROPERTIES
    LoopsGoOn
