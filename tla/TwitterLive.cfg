SPECIFICATION FairSpec
CONSTANTS
    Polls = {p1, p2}
    MaxTweet = 3
    Mentions = {1, 2, 3}
    TargetTweets = {}
    OwnTweets = {2}
    parent <- Chain
    PageSize = 2
    MaxCrashes = 0
    Faulty = FALSE
PROPERTY
    MentionsGetDecision
