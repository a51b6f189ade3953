\* Two workers that never die and never outlast the timeout.
SPECIFICATION Spec
CONSTANTS
  w1 = w1  w2 = w2  c1 = c1  c2 = c2  k1 = k1  k2 = k2
  None = None  DriftKey = DriftKey
  Workers <- TwoWorkers
  Clients <- OneClient
  MaxJobs = 4
  MaxAsks = 1
  MaxFaults = 0
  PreBuild = 2
  Slow <- NoSteps
  Asks <- ResumeOnly
  Offers <- Mixed
  Capped = TRUE
  Cap = 1
  Price = 1
SYMMETRY Symmetry
INVARIANTS OneRunner
PROPERTIES FinishedStays
