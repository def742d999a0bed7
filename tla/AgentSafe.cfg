SPECIFICATION Spec
CONSTANTS
    w1 = w1
    w2 = w2
    c1 = c1
    c2 = c2
    NoOwner = NoOwner
    NoProc = NoProc
    Procs = {w1, w2}
    WorkerIds = {w1, w2}
    WorkerId <- OwnId
    Clients = {c1}
    Plans <- OneOfEach
    Preapproved = FALSE
    DefaultScope = 3
    NullsFirst = FALSE
    Patient = TRUE
    Decisions = {"approve", "reject", "cancel"}
    Requests = {"cancel", "resume"}
    Faults = {"crash", "raise"}
    MaxClaims = 4
    FaultyClaims = 2
    MaxApprovals = 2
    MaxRequests = 2
CHECK_DEADLOCK FALSE
INVARIANT TypeOK
INVARIANT CompletedRanEverything
INVARIANT NoLostDecision
