CONSTANTS
  N = 2
  Run <- ServerRun
  Step <- ServerStep
  NextState <- ServerNext
  Initial <- ServerInitial
  Targets <- ServerTargets
  Rank <- ServerRank
  RetryAttempts = 1
  NotifyDone = 1
  MaxBusyPolls = 1
  Mortal = {}
  MayVanish = {}
  CannotListen = {1}
  CannotSpawn = {1}
  InFlight = 0
SPECIFICATION Spec
INVARIANTS
  TypeOK
  Barrier
  ServersUp
  DoneMeansEnded
  OnlyLateFailures
PROPERTIES
  RendezvousSpec
