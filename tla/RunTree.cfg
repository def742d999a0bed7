SPECIFICATION Spec
CONSTANTS
  Plans <- TreePlans
  ExpertPlan <- ExpertReads
  Limit = 3
  ReadOnlyModes = {TRUE, FALSE}
  Faults = {"crash", "overrun", "timeout", "raise", "cancel"}
  MaxRuns = 3
  MaxClaims <- CoordinatorTwice
  MaxSteers = 1
  MaxFailures = 1
INVARIANTS
  TypeOK ReadOnlyWithinLimit FoldedOnce OneExpertPerCall QuietMeansEnded
CHECK_DEADLOCK FALSE
