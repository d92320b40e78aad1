SPECIFICATION FairSpec
CONSTANTS
  BUFFLEN = 3
  StopCheckLimit = 2
  Paths = {p1, p2}
  FirstPath = p1
  CloudPaths = {p1}
  Loads <- SaverLoads
INVARIANTS
  TypeOK
  InOrderIntact
  EmptinessTestExact
  NoConcurrentSlotAccess
  NamesUniqueInSession
  AloneInOrder
  SplitFramesBounded
PROPERTIES
  RestartNeedsQuiet
  ImplementsFrameStore
  EventuallySaved
  EventuallyReady
CHECK_DEADLOCK FALSE
