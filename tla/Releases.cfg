SPECIFICATION Spec
CONSTANTS
  Versions = {"1", "2"}
  Targets = {"n"}
  Clicks = {"c1"}
  MaxJobs = 2
  MaxEvents = 3
INVARIANTS OneDistribution
PROPERTIES DistributionSettles
CHECK_DEADLOCK FALSE
