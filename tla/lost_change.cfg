\* The interrupt may hit anywhere: also between nmi_active = 1 and
\* snap_valid = 1 of an early start.
CONSTANTS
  Deferred = {"palette"}
  Values = {0, 1}
  p1 = p1
  SafePoints = {p1}
  NoPC = NoPC
  Vertical = FALSE
  Shape = FALSE
  PrepSteps = 1
  ClosedWindows = {}
SPECIFICATION Spec
INVARIANT NoLostChange
CHECK_DEADLOCK TRUE
