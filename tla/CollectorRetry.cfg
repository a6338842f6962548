SPECIFICATION Spec
CONSTANTS
  a = a
  b = b
  Messages <- MCMessages
  Lines <- PlainLines
  PatternSets <- NoPatterns
  MaxLines = 2
  TailN = 2
  TTL = 2
  MaxTime = 1
  MaxCrashes = 0
INVARIANT
  FailedPushIsRetried
