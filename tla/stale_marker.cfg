CONSTANTS
  s1 = s1
  s2 = s2
  c1 = c1
  HostsOf <- OneHostEach
  D = 2
  Faults = {}
  MayTimeOut = {}
SPECIFICATION Spec
INVARIANTS
  UploadAfterWorker
