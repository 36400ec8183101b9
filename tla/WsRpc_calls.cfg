SPECIFICATION FairSpec
CONSTANTS
    MaxCalls = 2
    MsgBufMax = 2
    HlsTries = 2
INVARIANTS
    TypeOK
    NoStaleReply
PROPERTIES
    CallsEnd
