\* The two-phase swap implements the atomic one when the callers keep the rules.
SPECIFICATION Spec
CONSTANTS
  b1 = b1  b2 = b2  b3 = b3  d1 = d1  i1 = i1  i2 = i2  p1 = p1  p2 = p2
  None = None
  Builds <- MCBuilds
  Docs <- MCDocs
  Identities <- MCIdentities
  Operators <- OneOperator
  MaxCalls = 6
  Discipline <- AtomicRules
SYMMETRY Symmetry
PROPERTY SwapIsAtomic
CHECK_DEADLOCK FALSE
