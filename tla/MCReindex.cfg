\* One worker, a schedule and a config trigger, one edit, one death.
SPECIFICATION FairReindexSpec
CONSTANTS
  w1 = w1  w2 = w2  nightly = nightly  onChange = onChange  watcher = watcher
  v1 = v1  v2 = v2  kSched = kSched  k1 = k1  k2 = k2  kManual = kManual
  None = None  DriftKey = DriftKey
  Workers <- OneWorker
  Clients <- NoClients
  MaxJobs = 3
  MaxAsks = 0
  MaxFaults = 1
  PreBuild = 0
  Slow <- NoSteps
  Asks <- NoAsks
  Offers <- Offered
  Capped = TRUE
  Cap = 1
  Price = 1
  Triggers <- TwoTriggers
  Kind <- Kinds_
  Versions <- TwoVersions
  First_ = v1
  MaxDay = 2
  MaxEdits = 1
  MaxManual = 1
  AlertCount = 2
  ScheduleKey = kSched
  ConfigKey <- KeyOf
  ManualKey = kManual
CHECK_DEADLOCK FALSE
PROPERTIES SlotIsServed 
