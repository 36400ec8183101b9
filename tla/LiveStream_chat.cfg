SPECIFICATION Spec
CONSTANTS
    WriteChat = TRUE
    AllowQualityUpgrade = FALSE
    CommentBufMax = 2
    ListenErrors = {"EOF"}
    HbErrors = {}
    FetchResults = {"expected"}
    ReadErrors = {"EOF"}
    MayHang = FALSE
INVARIANTS
    NoWriteAfterClose
    ChatComplete
CHECK_DEADLOCK FALSE
