\* The interrupt may hit anywhere: also between the two stores of an RTI, and
\* between the poll's pending = 0 and nmi_active = 1.
CONSTANTS
  Deferred = {"palette"}
  Values = {0}
  p1 = p1
  p2 = p2
  SafePoints = {p1, p2}
  NoPC = NoPC
  Vertical = FALSE
  Shape = FALSE
  PrepSteps = 1
  ClosedWindows = {}
SPECIFICATION Spec
SYMMETRY PollPointSymmetry
INVARIANT EarlyStartAtIdle
CHECK_DEADLOCK TRUE
