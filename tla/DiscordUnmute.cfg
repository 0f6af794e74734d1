SPECIFICATION FairSpec
CONSTANTS
    user = user
    mate = mate
    Mates = {mate}
    Posts <- MCPosts
    NoInterest = NoInterest
    StrictRooms = FALSE
    NamesGiven = {"MUTE_ROOM", "UNMUTE_ROOM"}
    MaxKept = 2
    RecentCount = 2
    MaxMessages = 2
    MaxAtOnce = 2
    MaxFaults = 0
CHECK_DEADLOCK FALSE
PROPERTY
    UndoneWhenAsked
