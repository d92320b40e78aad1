\* Three moments, two of them a window apart; two pictures can wait to be shown.
\* The worker stops when a library call throws.
SPECIFICATION FairSpec
CHECK_DEADLOCK FALSE
CONSTANTS
  Start = 2
  Window = 2
  MaxTime = 4
  MaxQueue = 2
INVARIANTS TypeOK SyncedReal ShownReal WholeUnlessOverlap
PROPERTIES StoredHasRgb CatchesUp
