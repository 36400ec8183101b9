SPECIFICATION FairSpec
CONSTANTS
    WriteChat = FALSE
    AllowQualityUpgrade = TRUE
    CommentBufMax = 3
    ListenErrors = {"EOF"}
    HbErrors = {"NoResponse"}
    FetchResults = {"expected", "unexpected"}
    ReadErrors = {"EOF", "Canceled"}
    MayHang = TRUE
INVARIANTS
    TypeOK
    OneDownloader
    FailureNotSwallowed
    FinishedHonest
PROPERTIES
    DrainedAtEnd
    SessionEnds
    PlaylistHandedOver
    NoLeak
    SessionPromise
