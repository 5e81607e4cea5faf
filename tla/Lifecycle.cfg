SPECIFICATION FairSpec
CONSTANTS
    d1 = d1
    d2 = d2
    shell = shell
    NoPID = NoPID
    NoFile = NoFile
    Process = {d1, d2, shell}
    Stranger = {shell}
    PID = {1, 2}
    Number <- Reused
INVARIANTS
    LifeTypeOK
    StoreExclusive
    SequentialOneDaemon
    SequentialLockKept
PROPERTIES
    ListenerReturns
    StopsWhenTold
    RestartTakesLock
CHECK_DEADLOCK FALSE
