SPECIFICATION FairSpec
CONSTANTS
  m = m
  n = n
  Nodes <- TwoNodes
  Batches <- TwoBatches
  Overlap = 2
  Severities <- LowAndHigh
  Faults = 1
  Interval = 1
  Cooldown = 1
  Retention = 1
  MaxTime = 2
INVARIANTS
  TypeOK
  AnalyzedWasRead
  AnalyzedOnce
  OneTaskPerNode
  SuppressionJustified
PROPERTIES
  AlertsSpaced
  EveryBatchMarked
  ImplementsLifecycle
