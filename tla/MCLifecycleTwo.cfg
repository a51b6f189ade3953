\* Two operators interleave their calls on one knowledge base.
SPECIFICATION Spec
CONSTANTS
  b1 = b1  b2 = b2  b3 = b3  d1 = d1  i1 = i1  i2 = i2  p1 = p1  p2 = p2
  None = None
  Builds <- MCBuilds
  Docs <- MCDocs
  Identities <- MCIdentities
  Operators <- TwoOperators
  MaxCalls = 4
  Discipline <- FreshBuildsOnly
SYMMETRY Symmetry
INVARIANTS RecordLagsAlias ServedIsFinished
CHECK_DEADLOCK FALSE
