SPECIFICATION FairSpec
CONSTANTS
    MaxConfigs = 3
    MaxLogins = 2
    MaxKills = 1
    MaxFailures = 1
INVARIANTS
    TypeOK
    FatalExplained
    CookiesKept
PROPERTIES
    FileCatchesUp
CHECK_DEADLOCK FALSE
