CONSTANTS
  Count <- TwoServerCount
  A = 2
  Placement <- TwoServerSpread
  MaxRetries = 2
  Faults = {"create", "launch", "describe", "routing", "terminate", "delete",
            "boot", "no_ip", "run"}
  Az = {"a", "b", "x"}
  InRegion = {"a", "b"}
  MaxHosts = 2
SPECIFICATION Spec
INVARIANTS
  TypeOK
  ReadyToRun
  LeavesOnlyFailedBatch
  OkMeansReleased
PROPERTIES
  HostsReleased
  ReturnsUnlessBootFails
