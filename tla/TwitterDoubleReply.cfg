SPECIFICATION Spec
CONSTANTS
    Polls = {p1, p2}
    MaxTweet = 1
    Mentions = {1}
    TargetTweets = {}
    OwnTweets = {}
    parent <- Chain
    PageSize = 2
    MaxCrashes = 0
    Faulty = FALSE
INVARIANT
    OneReplyPerTweet
