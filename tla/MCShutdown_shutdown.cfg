CONSTANTS
  PoolSizes = {1, 2}
  MaxStored = 3
SPECIFICATION FairSpec
INVARIANTS
  TypeOK
  FreedUseOnlyMidPass
  OneFrameAfterClose
  LossBounded
PROPERTIES
  EndsAfterClose
CHECK_DEADLOCK FALSE
