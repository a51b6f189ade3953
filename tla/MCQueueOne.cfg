\* One worker that dies and returns, two clients resuming and cancelling at once.
SPECIFICATION Spec
CONSTANTS
  w1 = w1  w2 = w2  c1 = c1  c2 = c2  k1 = k1  k2 = k2
  None = None  DriftKey = DriftKey
  Workers <- OneWorker
  Clients <- TwoClients
  MaxJobs = 3
  MaxAsks = 2
  MaxFaults = 1
  PreBuild = 1
  Slow <- BuildOnly
  Asks <- BothAsks
  Offers <- TwoKeys
  Capped = TRUE
  Cap = 2
  Price = 1
SYMMETRY Symmetry
INVARIANTS TypeOK BuiltOnce CostIsLedgered 
PROPERTIES CheckpointKept
