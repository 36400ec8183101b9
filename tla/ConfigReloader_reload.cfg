SPECIFICATION System
CONSTANTS
    MaxConfigs = 4
    MayHang = TRUE
    MaxWrites = 4
    Broken = {2}
INVARIANTS
    TypeOK
    OneHandler
    NoForeignContext
    GracefulReturn
    FatalExplained
PROPERTIES
    ReloadEnds
    LastConfigHandled
