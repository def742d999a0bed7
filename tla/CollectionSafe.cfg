SPECIFICATION Spec

CONSTANTS
    p1 = p1
    p2 = p2
    w1 = w1
    w2 = w2
    Platforms = {p1, p2}
    Procs = {w1, w2}
    WorkerIds = {w1, w2}
    WorkerId <- OwnIds
    NoOwner = NoOwner
    NoProc = NoProc
    MaxClaims = 3
    Concurrency = 2
    LiveScan = FALSE
    Stalls = FALSE
    HeartbeatFaults = FALSE

SYMMETRY PlatformSymmetry

INVARIANTS
    TypeOK
    CheckpointBacked
    CompletedHasAllData
PROPERTIES
    CheckpointMonotone
    SupersededIsSilent
    TerminalIsFinal

CHECK_DEADLOCK FALSE
