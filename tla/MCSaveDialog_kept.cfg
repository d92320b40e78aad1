\* One directory to enter.  The writer ends where a point cloud cannot be written.
SPECIFICATION Spec
CHECK_DEADLOCK FALSE
CONSTANTS
  Paths = {p1}
  NoPath = none
  Here = here
  Data = data
  MaxFrames = 2
  MaxClicks = 6
PROPERTY KeptUntilStart
