CONSTANTS
  N = 1
  Run <- ClientRun
  Step <- ClientStep
  NextState <- ClientNext
  Initial <- ClientInitial
  Targets <- ClientTargets
  Rank <- ClientRank
  RetryAttempts = 2
  NotifyDone = 3
  MaxBusyPolls = 2
  Mortal = {0, 1}
  MayVanish = {1}
  CannotListen = {1}
  CannotSpawn = {1}
  InFlight = 5
SPECIFICATION FairSpec
INVARIANTS
  Lockstep
  Backlog
  DoneMeansEnded
PROPERTIES
  CoordinatorCompletes
  EveryoneHalts
