\* A title without the hidden stitch preparation.  The closed windows are the
\* places where an interrupt breaks one of the properties (see README).
CONSTANTS
  Deferred = {"palette"}
  Values = {0, 1}
  p1 = p1
  p2 = p2
  SafePoints = {p1, p2}
  NoPC = NoPC
  Vertical = FALSE
  Shape = FALSE
  PrepSteps = 1
  SlackCap = 3
  ClosedWindows = {"complete", "activate", "start", "copy", "clean", "valid", "published", "early"}
SPECIFICATION RateSpec
SYMMETRY PollPointSymmetry
INVARIANTS StartsWithinVBlanks NoLostChange NoLostMask EarlyStartAtIdle EarlyHasNoCredit
PROPERTY RefinesAtomicFrames
CHECK_DEADLOCK TRUE
