\* One operator promoting and rolling back under the queries of two providers of one vector size.
SPECIFICATION RetrievalSpec
CONSTANTS
  b1 = b1  b2 = b2  b3 = b3  d1 = d1  i1 = i1  i2 = i2  p1 = p1  p2 = p2  q1 = q1
  None = None
  Builds <- MCBuilds
  Docs <- MCDocs
  Identities <- MCIdentities
  Operators <- OneOperator
  MaxCalls = 3
  Discipline <- FreshBuilds
  Readers <- MCReaders
  MaxQueries = 2
  Space <- OneSize
SYMMETRY BuildSymmetry
INVARIANTS RetrievalTypeOK NoDowntime
CHECK_DEADLOCK FALSE
