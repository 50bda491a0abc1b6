CONSTANTS
  s1 = s1
  s2 = s2
  c1 = c1
  HostsOf <- OneHostEach
  D = 2
  Faults = {"send", "slow", "poll", "build", "copy"}
  MayTimeOut = {"build_russula", "run_russula"}
SPECIFICATION Spec
INVARIANTS
  TypeOK
  StepsInOrder
  BuiltBeforeRun
  UploadAfterNetbench
  NoResultsFromBrokenBuild
  NoUploadCutOff
PROPERTIES
  RunEnds
