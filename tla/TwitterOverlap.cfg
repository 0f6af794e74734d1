SPECIFICATION Spec
CONSTANTS
    Polls = {p1, p2}
    MaxTweet = 3
    Mentions = {1, 2, 3}
    TargetTweets = {{1}, {2}}
    OwnTweets = {2}
    parent <- LastReplies
    PageSize = 2
    MaxCrashes = 1
    Faulty = TRUE
SYMMETRY PollSymmetry
INVARIANTS
    AnsweredIsStored
    StoredIsDecided
    OneReplyPerPoll
PROPERTY
    NoReplyAfterRestart
