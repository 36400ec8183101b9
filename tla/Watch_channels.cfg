SPECIFICATION FairSpec
CONSTANTS
    c1 = c1
    c2 = c2
    Channels = {c1, c2}
    WaitForLive <- FirstWaits
    Tries = 2
    Delays = 2
    MaxGenerations = 2
    Notified = {"downloading", "finished", "error", "canceled"}
INVARIANTS
    TypeOK
    PanicExplained
    OneLateSleep
PROPERTIES
    LifeCycle
    WatchStops
