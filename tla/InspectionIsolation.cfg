SPECIFICATION Spec
CONSTANTS
  m = m
  n = n
  Nodes <- TwoNodes
  Batches <- OneEach
  Overlap = 2
  Severities <- OnlyHigh
  Faults = 1
  Interval = 1
  Cooldown = 2
  Retention = 2
  MaxTime = 3
INVARIANT
  FailuresStayLocal
