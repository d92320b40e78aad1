SPECIFICATION Spec
CONSTANTS
  Limits = {0, 1, 2}
  MaxCount = 4
INVARIANTS
  StoredAsAsked
CHECK_DEADLOCK FALSE
