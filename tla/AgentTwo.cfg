SPECIFICATION FairSpec
CONSTANTS
    w1 = w1
    w2 = w2
    c1 = c1
    c2 = c2
    NoOwner = NoOwner
    NoProc = NoProc
    Procs = {w1}
    WorkerIds = {w1, w2}
    WorkerId <- AloneId
    Clients = {c1}
    Plans <- Mixed
    Preapproved = FALSE
    DefaultScope = 3
    NullsFirst = FALSE
    Patient = TRUE
    Decisions = {"approve", "edit", "reject"}
    Requests = {}
    Faults = {"crash"}
    MaxClaims = 6
    FaultyClaims = 1
    MaxApprovals = 4
    MaxRequests = 4
CHECK_DEADLOCK FALSE
PROPERTY AnswersOwnInterrupt
PROPERTY EventuallyTerminal
