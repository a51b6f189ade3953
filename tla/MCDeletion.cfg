\* Two clerks beside one operator: deletions, purges, snapshots, restores.
SPECIFICATION DeletionSpec
CONSTANTS
  b1 = b1  b2 = b2  b3 = b3  d1 = d1  d2 = d2  i1 = i1  p1 = p1  q1 = q1  q2 = q2
  None = None
  Builds <- TwoBuilds
  Docs <- OneDoc
  Identities <- MCIdentities
  Operators <- OneOperator
  MaxCalls = 2
  Discipline <- FreshBuilds
  Clerks <- TwoClerks
  MaxTombstones = 2
  MaxSnapshots = 1
  AwaitRestore = TRUE
SYMMETRY Symmetry
INVARIANTS CleanedStaysClean PurgedStaysPurged ReplaysAreTrue RestoredIsReplayed
CHECK_DEADLOCK FALSE
