\* A title with the hidden stitch preparation; the interrupt may hit anywhere.
CONSTANTS
  Deferred = {"palette"}
  Values = {0}
  p1 = p1
  SafePoints = {p1}
  NoPC = NoPC
  Vertical = TRUE
  Shape = TRUE
  PrepSteps = 2
  ClosedWindows = {}
SPECIFICATION FairSpec
INVARIANTS TypeOK
PROPERTIES StitchGoesLiveComplete HeldFrameStaysOwed PreparationEnds
CHECK_DEADLOCK TRUE
