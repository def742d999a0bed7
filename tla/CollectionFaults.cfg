SPECIFICATION FairSpec

CONSTANTS
    Platforms = {p1}
    Procs = {w1, w2}
    WorkerIds = {w1, w2}
    WorkerId <- OwnIds
    NoOwner = NoOwner
    NoProc = NoProc
    MaxClaims = 2
    Concurrency = 1
    LiveScan = TRUE
    Stalls = FALSE
    HeartbeatFaults = TRUE

PROPERTIES
    OtherProcessIsFenced
    EventuallyTerminal

CHECK_DEADLOCK FALSE
