\* As staging.cfg, but the interrupt may hit between the staging routine's read
\* of a bitmap byte and its write-back.
CONSTANTS
  Deferred = {}
  Values = {0}
  p1 = p1
  SafePoints = {p1}
  NoPC = NoPC
  Vertical = FALSE
  Shape = FALSE
  PrepSteps = 1
  ClosedWindows = {"complete", "start", "copy", "clean", "valid", "ptrLoRead", "entry", "ptrLoWrite", "ptrHiWrite"}
  a1 = a1
  a2 = a2
  b1 = b1
  NoAddr = NoAddr
  Addrs = {a1, a2}
  t1 = t1
  t2 = t2
  Tiles = {t1, t2}
  ByteOf <- SharedByte
  PageEntries = 2
  Pages = 4
SPECIFICATION StagingSpec
SYMMETRY AddressSymmetry
INVARIANT NoLostWrite
CHECK_DEADLOCK TRUE
