SPECIFICATION ServicesSpec
CONSTANTS
    refreshCase = refreshCase
    signals = signals
    image = image
    clip = clip
    Jobs = {}
    FollowUp <- MCFollowUp
    NoJob = NoJob
    JobWorkers = {j1, j2}
    JobWorkerId <- MCJobWorkerId
    JobNobody = JobNobody
    JobTries = 2
    Assets = {}
    StagesOf <- MCStagesOf
    CreatedAt <- MCCreatedAt
    ListLimit = 1
    MediaWorkers = {m1}
    MediaTries = 2
    MaxMediaCuts = 2
    Platforms = {weibo}
    Slots = {s1}
    ProcessOf <- MCProcessOf
    Interval = 2
    Lookback = 5
    MaxInstant = 3
    MaxExecutions = 4
    MaxMonitorCuts = 0
    Clients = {p1}
    Decisions <- DecisionKinds
    MaxVersion = 0
    Logins = {}
CHECK_DEADLOCK FALSE
PROPERTY IntervalGoesOn
