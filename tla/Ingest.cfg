SPECIFICATION FairSpec
CONSTANTS
  MaxRequests = 3
  MaxCursor = 2
  PushTimeout = 1
  BeatTimeout = 1
  Window = 1
  Skew = 0
INVARIANTS
  TypeOK
  RowFollowsPushes
  CursorsAreStored
  UrlKept
  RefusalNeedsRace
PROPERTY
  NodeGetsUrl
