SPECIFICATION FairSpec
CONSTANTS
    MaxFragment = 3
    WindowMax = 2
    Servers <- CachedOrRolled
    UrlsMax = 2
    PacketLossMax = 1
    Rounds = 2
    OlderMax = 1
    MayStall = TRUE
INVARIANTS
    TypeOK
    WrittenInOrder
    PollComplete
    NoSendOnClosed
PROPERTIES
    ReadReturns
