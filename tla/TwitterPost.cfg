SPECIFICATION FairSpec
CONSTANTS
    t1 = t1
    t2 = t2
    l1 = l1
    Others = {t1, t2}
    Own = {o1}
    Loops = {l1}
    NoTweet = NoTweet
    parent <- Answering
    Plans <- Choices
    MaxFaults = 1
    MaxCrashes = 1
INVARIANTS
    IInv
PROPERTIES
    AnsweredOnce
    ReactsAgainOnlyAfterLoss
    RoundsGoOn
    ShownIsStored
