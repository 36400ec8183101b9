SPECIFICATION Spec
CONSTANTS
    MaxFragment = 4
    WindowMax = 3
    Servers <- LongCached
    UrlsMax = 2
    PacketLossMax = 1
    Rounds = 1
    OlderMax = 1
    MayStall = FALSE
INVARIANTS
    CheckpointReached
