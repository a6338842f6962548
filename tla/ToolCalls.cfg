SPECIFICATION ToolSpec
CONSTANTS
  k = k
  Keys = {k}
  Cost = 2
  Capacity = 2
  LastInstant = 4
  MaxSteps = 1
  CommandTimeout = 2
  ClientTimeout = 3
  MaxTime = 4
INVARIANTS
  WindowBound
  RefusalJustified
  ClientOutlastsCommand
  SuccessInTime
  OutputComplete
  NothingRunsForNobody
