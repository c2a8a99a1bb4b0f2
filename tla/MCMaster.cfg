SPECIFICATION FairSpec
CONSTANTS
  c1 = c1
  c2 = c2
  Clients <- TwoClients
  Modes = {"target", "proxy"}
  MaxForks = 6
  MaxSignals = 2
  MaxErrors = 1
INVARIANTS
  OneWorker
  RestartExclusive
  ClientsKept
  ResumesAtRequest
  
PROPERTIES
  RestartCompletes
