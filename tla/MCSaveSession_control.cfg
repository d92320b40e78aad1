SPECIFICATION FairSpec
CONSTANTS
  Limits = {0, 1, 2, 3}
  MaxCount = 6
INVARIANTS
  TypeOK
  CountIsStored
  OneAfterStop
PROPERTIES
  ImplementsRecording
  LimitReached
CHECK_DEADLOCK FALSE
