CONSTANTS
  Servers = 1
  Clients = 1
  RetryAttempts = 1
  NotifyDone = 1
  MaxBusyPolls = 0
  InFlight = 0
  Mortal = {}
  MayVanish = {}
  CannotListen = {"server", "client"}
  CannotSpawn = {"server", "client"}
SPECIFICATION FairSpec
PROPERTIES
  EveryoneHalts
