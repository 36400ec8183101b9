SPECIFICATION FairSpec
CONSTANTS
    WriteChat = FALSE
    AllowQualityUpgrade = FALSE
    CommentBufMax = 3
    ListenErrors = {}
    HbErrors = {}
    FetchResults = {"expected", "unexpected", "error"}
    ReadErrors = {"Canceled"}
    MayHang = FALSE
PROPERTIES
    StopAtFirstError
