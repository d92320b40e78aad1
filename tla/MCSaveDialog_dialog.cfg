\* Two directories to enter, alike.  The writer ends where a point cloud cannot be
\* written, and the user need not go on.
SPECIFICATION Spec
CHECK_DEADLOCK FALSE
SYMMETRY PathSymmetry
CONSTANTS
  Paths = {p1, p2}
  NoPath = none
  Here = here
  Data = data
  MaxFrames = 2
  MaxClicks = 7
INVARIANTS TypeOK SaverDoesWhatIsShown FoundAfterButton DirectoryStartsEmpty SavedSinceStart
