CONSTANTS
  N = 2
  Run <- ClientRun
  Step <- ClientStep
  NextState <- ClientNext
  Initial <- ClientInitial
  Targets <- ClientTargets
  Rank <- ClientRank
  RetryAttempts = 1
  NotifyDone = 1
  MaxBusyPolls = 0
  Mortal = {}
  MayVanish = {}
  CannotListen = {1}
  CannotSpawn = {}
  InFlight = 0
SPECIFICATION Spec
INVARIANTS
  StartTogether
  DoneMeansEnded
  OnlyLateFailures
PROPERTIES
  RendezvousSpec
