SPECIFICATION Spec
CONSTANTS
  CommandTimeout = 1
  ClientTimeout = 2
  MaxTime = 2
INVARIANT
  KillsAllChildren
\* The violation is found before the request ends.
CHECK_DEADLOCK FALSE
