SPECIFICATION Spec
CONSTANTS
  Plans <- TreePlans
  ExpertPlan <- ExpertReads
  Limit = 3
  ReadOnlyModes = {TRUE, FALSE}
  Faults = {}
  MaxRuns = 3
  MaxClaims <- CoordinatorTwice
  MaxSteers = 2
  MaxFailures = 0
INVARIANTS
  ConsumedIsHeard
CHECK_DEADLOCK FALSE
