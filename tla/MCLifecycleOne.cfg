\* One operator, every step may be its last, nobody reconciles first.
SPECIFICATION Spec
CONSTANTS
  b1 = b1  b2 = b2  b3 = b3  d1 = d1  i1 = i1  i2 = i2  p1 = p1  p2 = p2
  None = None
  Builds <- MCBuilds
  Docs <- MCDocs
  Identities <- MCIdentities
  Operators <- OneOperator
  MaxCalls = 6
  Discipline <- FreshBuilds
SYMMETRY Symmetry
INVARIANTS TypeOK StandbyIsAnother RecordIdentityAgrees
PROPERTY CompletedSwapAgrees
CHECK_DEADLOCK FALSE
