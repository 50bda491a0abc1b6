CONSTANTS
  N = 1
  Run <- ServerRun
  Step <- ServerStep
  NextState <- ServerNext
  Initial <- ServerInitial
  Targets <- ServerTargets
  Rank <- ServerRank
  RetryAttempts = 1
  NotifyDone = 3
  MaxBusyPolls = 1
  Mortal = {}
  MayVanish = {}
  CannotListen = {}
  CannotSpawn = {}
  InFlight = 0
SPECIFICATION Spec
INVARIANTS
  NoFailureAfterDone
