SPECIFICATION Spec
CONSTANTS
  MaxIterations = 3
  MaxAttempts = 2
  MaxCalls = 2
INVARIANTS
  ConversationComplete
  CallsAudited
  OutputOnRecord
  VerdictComplete
  CostBounded
PROPERTY
  AlwaysNearerToEnd
\* An analysis ends.
CHECK_DEADLOCK FALSE
