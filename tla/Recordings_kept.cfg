SPECIFICATION FairSpec
CONSTANTS
    MaxParts = 3
    MaxKills = 2
    StringRank <- LongerFirst
INVARIANTS
    TypeOK
    NotLost
    CombinedInOrder
    CombinedComplete
PROPERTIES
    CleanEnds
CHECK_DEADLOCK FALSE
