SPECIFICATION FairSpec
CONSTANTS
    user = user
    mate = mate
    Mates = {mate}
    Posts <- MCPosts
    NoInterest = NoInterest
    StrictRooms = TRUE
    NamesGiven = {"MUTE_ROOM"}
    MaxKept = 2
    RecentCount = 2
    MaxMessages = 3
    MaxAtOnce = 2
    MaxFaults = 1
CHECK_DEADLOCK FALSE
INVARIANTS
    TypeOK
    InterestIsEarned
PROPERTIES
    DiesForAReason
    LeaderAnswersTeam
