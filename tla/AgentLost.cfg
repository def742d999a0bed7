SPECIFICATION Spec
CONSTANTS
    w1 = w1
    w2 = w2
    c1 = c1
    c2 = c2
    NoOwner = NoOwner
    NoProc = NoProc
    Procs = {w1}
    WorkerIds = {w1, w2}
    WorkerId <- AloneId
    Clients = {c1}
    Plans <- OneGated
    Preapproved = FALSE
    DefaultScope = 3
    NullsFirst = FALSE
    Patient = FALSE
    Decisions = {"approve"}
    Requests = {}
    Faults = {}
    MaxClaims = 3
    FaultyClaims = 0
    MaxApprovals = 2
    MaxRequests = 2
CHECK_DEADLOCK FALSE
INVARIANT NoLostDecision
