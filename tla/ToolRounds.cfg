SPECIFICATION Spec
CONSTANTS
  MaxIterations = 3
  MaxAttempts = 1
  MaxCalls = 1
INVARIANT
  ToolsThreeTimes
\* An analysis ends.
CHECK_DEADLOCK FALSE
