SPECIFICATION Spec
CONSTANTS
    w1 = w1
    w2 = w2
    c1 = c1
    c2 = c2
    NoOwner = NoOwner
    NoProc = NoProc
    Procs = {w1}
    WorkerIds = {w1, w2}
    WorkerId <- AloneId
    Clients = {c1, c2}
    Plans <- OneNode
    Preapproved = FALSE
    DefaultScope = 3
    NullsFirst = FALSE
    Patient = TRUE
    Decisions = {"approve", "reject"}
    Requests = {"repeat"}
    Faults = {"overrun", "abandon", "stop"}
    MaxClaims = 3
    FaultyClaims = 0
    MaxApprovals = 1
    MaxRequests = 2
CHECK_DEADLOCK FALSE
INVARIANT GatedCallsAreAuthorized
INVARIANT OneCallPerApproval
PROPERTY DecisionIsFinal
SYMMETRY Operators
