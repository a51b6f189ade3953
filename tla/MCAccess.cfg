\* Two request threads beside one administrator; the clock has three readings.
SPECIFICATION AccessSpec
CONSTANTS
  root = root  k1 = k1  k2 = k2  k3 = k3  t1 = t1  t2 = t2  g1 = g1  g2 = g2  a1 = a1  a2 = a2
  b1 = b1  w1 = w1  w2 = w2
  Noone = Noone
  Root = root
  Tenants <- ThreeKeys
  Threads <- TwoThreads
  Rate = 1
  Burst = 1
  Grants <- OneGrant
  Admins <- OneAdmin
  Kbs <- OneKb
  Workspaces <- TwoWorkspaces
  KbWorkspace <- InFirst
  Preset <- Elsewhere
  Offered <- Issuable
  Content <- GoodAndBad
  TopK = 1
  Threshold = 2
  MaxRequests = 2
  MaxOps = 2
  MaxTime = 2
  Window = 1
  CommitsOnExit = TRUE
SYMMETRY Symmetry
INVARIANTS AdmittedWithinRate 
 
CHECK_DEADLOCK FALSE
