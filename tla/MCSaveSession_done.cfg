SPECIFICATION Spec
CONSTANTS
  Limits = {0, 1, 2}
  MaxCount = 4
INVARIANTS
  DoneMeansSaved
CHECK_DEADLOCK FALSE
