\* Two sets of sprites: values are copied and never compared (see README).
CONSTANTS
  Deferred = {"sprites"}
  v1 = v1
  v2 = v2
  Values = {v1, v2}
  Torn = Torn
  p1 = p1
  SafePoints = {p1}
  NoPC = NoPC
  Vertical = FALSE
  Shape = FALSE
  PrepSteps = 1
  ClosedWindows = {"start", "copy", "clean", "valid"}
SPECIFICATION PagesFairSpec
INVARIANTS PagesTypeOK HardwareShowsFrame SnapshotPageKept
PROPERTY EventuallyShown
CHECK_DEADLOCK TRUE
