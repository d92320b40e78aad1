\* Every state has a successor.
SPECIFICATION Spec
CONSTANTS
  W = 2
  H = 2
  Inside <- OnPictures
  Outside <- Beyond
  Unscaled <- Smallest
  MouseTracking = {TRUE, FALSE}
INVARIANTS TypeOK AgreesWithLabel SweepsWhatIsDrawn UntrackedIsPoint CutAtPictureEdge
