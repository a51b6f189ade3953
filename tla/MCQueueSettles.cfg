\* Two workers that die, or outlast the timeout in a build, twice between them.
SPECIFICATION FairSpec
CONSTANTS
  w1 = w1  w2 = w2  c1 = c1  c2 = c2  k1 = k1  k2 = k2
  None = None  DriftKey = DriftKey
  Workers <- TwoWorkers
  Clients <- OneClient
  MaxJobs = 2
  MaxAsks = 1
  MaxFaults = 2
  PreBuild = 1
  Slow <- AnyStep
  Asks <- BothAsks
  Offers <- SameKey
  Capped = TRUE
  Cap = 1
  Price = 1
INVARIANTS CompletedIsBuilt 
PROPERTIES EveryJobSettles
