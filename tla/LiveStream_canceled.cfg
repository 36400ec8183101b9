SPECIFICATION FairSpec
CONSTANTS
    WriteChat = FALSE
    AllowQualityUpgrade = FALSE
    CommentBufMax = 3
    ListenErrors = {"EOF"}
    HbErrors = {}
    FetchResults = {"expected", "unexpected", "error"}
    ReadErrors = {}
    MayHang = FALSE
INVARIANTS
    CanceledByCaller
