SPECIFICATION WorkspaceSpec
CONSTANTS
    scheduler = scheduler
    Actors = {a1, a2}
    Things = {x1, x2}
    Platforms = {weibo}
    Slots = {a1, a2}
    ProcessOf <- MCProcessOf
    Interval = 2
    Lookback = 5
    MaxInstant = 2
    MaxExecutions = 2
    MaxMonitorCuts = 1
    Raisers = {a1, a2}
    AlertOperators = {a1, a2}
    MaxTriggers = 3
    Events = {event}
    Subscriptions = {x1, x2}
    Dispatchers = {a1, a2}
    BatchLimit = 1
    MaxAttempts = 2
    Cases = {x1, x2}
    NoCase = NoCase
    Accounts = {account}
    Refreshers = {a1, a2}
    EntityIds = {e1, e2, e3, e4, e5}
    NoEntity = NoEntity
    ForeignKeys = TRUE
    k1 = k1
    k2 = k2
    k3 = k3
    StepKeys = {k1, k2, k3}
    PlanBodies <- MCPlanBodies
    StepActions = {"start", "succeed", "fail", "skip"}
    Declarers = {a1, a2}
    Versions = {1, 2, 3}
    Editors = {a1, a2}
    StartCalls = {ca, cb}
    Preapproved = {ca}
    ToolCalls = {a1, a2, t3}
    MaxConcurrency = 2
    MaxRetries = 1
    Idempotent = TRUE
    Cacheable = TRUE
    Logins = {a1, a2}
SYMMETRY Interchangeable
CHECK_DEADLOCK FALSE
INVARIANTS
    WorkspaceTypeOK NothingIsMissed TriggerIsSeen DeliveredIsTold OneEntityPerAccount LoneRefreshIsExact
    OneDefinitionInForce PlanIsNotStuck HandlersAreContained OneLoginAtATime
