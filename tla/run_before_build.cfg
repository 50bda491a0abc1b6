CONSTANTS
  s1 = s1
  s2 = s2
  c1 = c1
  HostsOf <- TwoServers
  D = 2
  Faults = {}
  MayTimeOut = {}
SYMMETRY ServerSymmetry
SPECIFICATION Spec
INVARIANTS
  BuiltBeforeRun
