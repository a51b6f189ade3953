CONSTANTS
  Collections_ = {"b1", "b2"}
  Questions <- MCQuestions
  Reviews = {"unreviewed", "reviewed_kept"}
  SetOf <- MCSetOf
  IdsOf <- MCIdsOf
  FoundIds <- MCFoundIds
  Answers <- MCAnswers
  Chunks <- MCChunks
  ChunkClasses = {"prose", "table"}
  Tolerance = 25
  Variants <- MCVariants
  VariantAnswers <- MCVariantAnswers
  Callers = {"c1", "c2"}
  Deleters = {"c2"}
  Prints = {"p1", "p2"}
  PrintOf <- MCPrintOf
  Scale = 1
  Threshold = 0
  Margin = 1
  MaxEvals = 2
  MaxRows = 2
  Documents_ <- MCDocuments
  BlockSets <- MCBlockSets
  Roles_ = {"unique", "superseded"}
  Inside <- MCInside
  MaxEvents = 11
  PathOrder <- MCPathOrder
  Suffix <- MCSuffix
  Content <- MCContent
  Fits <- MCFits
  HashOrder <- MCHashOrder
  DatabaseRows = 2
  TableRows = 2
  KBs = {"k1"}
  MaxRuns = 2
  MaxEdits = 1
  Batches <- MCBatches
  DescriptionFiles <- MCFiles
  Declared = {"en"}
  Audited_ = TRUE
  Orders_ <- MCOrders
  RuleOf <- MCRules
  Upserts = 2
  MaxStarts = 2
  Names = {"c1", "c2"}
  Ids = {1, 2}
  Payloads = {"d1", "d2"}
  Metadata_ = {"m1"}
  Procs = {"w1", "w2"}
  Scrolls = {"s1"}
  PageSize = 1
  NamesReused = FALSE
  MaxOps = 4
SPECIFICATION MCSpec
INVARIANTS BaselineHistory RankedWithBaseline NothingLost EachTextOnce RegionsAreDistinct
INVARIANTS SuppressionFollowsRole FamilyIsServed PlanIsOrderFree SegmentIsCovered BuiltIsWhole
INVARIANTS RowsAreRegistered ScrollIsComplete
CHECK_DEADLOCK FALSE
