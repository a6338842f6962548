SPECIFICATION Spec
CONSTANTS
  a = a
  b = b
  Messages <- MCMessages
  Lines <- MixedLines
  PatternSets <- PatternsOnB
  MaxLines = 2
  TailN = 1
  TTL = 2
  MaxTime = 5
  MaxCrashes = 1
INVARIANTS
  TypeOK
  LossNeedsFailure
  NoSpuriousResend
  SuppressionBounded
PROPERTIES
  ImplementsDelivery
  NoRepeatWithinTTL
\* The read loop blocks for good behind a line the scanner cannot hold.
CHECK_DEADLOCK FALSE
