CONSTANTS
  Servers = 1
  Clients = 1
  RetryAttempts = 1
  NotifyDone = 1
  MaxBusyPolls = 0
  InFlight = 0
  Mortal = {"orchestrator"}
  MayVanish = {"server", "client"}
  CannotListen = {"client"}
  CannotSpawn = {}
SPECIFICATION Spec
INVARIANTS
  ServersUpForClients
  EndedBeforeCopy
  BacklogStaysSmall
  FailsForAReason
