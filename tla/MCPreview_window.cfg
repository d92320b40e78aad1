\* Three cameras: a module that fits, one that refuses the size, and a camera
\* that is no module and offers another format.  Every state has a successor.
SPECIFICATION Spec
CONSTANTS
  Cameras = {m1, m2, webcam}
  Modules = {m1, m2}
  Fitting = {m1}
  Refusing = {m2}
  NoCamera = none
  MaxChanges = 3
INVARIANTS TypeOK LabelRightFromSecondPress
PROPERTIES OpensWhatIsShown
