SPECIFICATION ServicesSpec
CONSTANTS
    refreshCase = refreshCase
    signals = signals
    image = image
    clip = clip
    Jobs = {refreshCase, signals}
    FollowUp <- MCFollowUp
    NoJob = NoJob
    JobWorkers = {j1, j2}
    JobWorkerId <- MCJobWorkerId
    JobNobody = JobNobody
    JobTries = 2
    Assets = {image,clip}
    StagesOf <- MCStagesOf
    CreatedAt <- MCCreatedAt
    ListLimit = 1
    MediaWorkers = {m1}
    MediaTries = 2
    MaxMediaCuts = 1
    Platforms = {weibo, zhihu}
    Slots = {s1}
    ProcessOf <- MCProcessOf
    Interval = 2
    Lookback = 5
    MaxInstant = 1
    MaxExecutions = 2
    MaxMonitorCuts = 1
    Clients = {p1, p2}
    Decisions <- DecisionKinds
    MaxVersion = 5
    Logins = {l1}
CHECK_DEADLOCK FALSE
INVARIANTS
    ServicesTypeOK FollowUpIsEarned FinishedIsWhole NoMediaJobIsStuck
    FindingMatchesItem OneDecisionPerVersion
PROPERTIES
    JobsAreLeased WorkEnds LoginsLeaveNoCookies
