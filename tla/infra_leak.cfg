CONSTANTS
  Count <- OneServerCount
  A = 2
  Placement <- OneServerSpread
  MaxRetries = 2
  Faults = {"launch"}
  Az = {"a", "b", "x"}
  InRegion = {"a", "b"}
  MaxHosts = 2
SPECIFICATION Spec
INVARIANTS
  FailedLaunchCleansUp
