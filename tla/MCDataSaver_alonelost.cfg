SPECIFICATION FairSpec
CONSTANTS
  BUFFLEN = 3
  StopCheckLimit = 2
  Paths = {p1}
  FirstPath = p1
  CloudPaths = {p1}
  Loads <- LostLoads
PROPERTIES
  EveryAloneSaved
CHECK_DEADLOCK FALSE
