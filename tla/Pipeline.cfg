SPECIFICATION FairSpec
CONSTANTS
  a = a
  Messages = {a}
  Lines <- OneText
  PatternSets = {{}}
  MaxLines = 2
  TailN = 1
  TTL = 2
  MaxTime = 0
  MaxCrashes = 1
  MaxBatches = 2
  MaxReports = 2
INVARIANTS
  LineFate
  ReadOnce
PROPERTY
  EveryLineArrives
