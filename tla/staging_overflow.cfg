\* A queue of two entries for three addresses: it fills up and overflows.
CONSTANTS
  Deferred = {}
  Values = {0}
  p1 = p1
  SafePoints = {p1}
  NoPC = NoPC
  Vertical = FALSE
  Shape = FALSE
  PrepSteps = 1
  ClosedWindows = {"complete", "start", "copy", "clean", "valid", "bitWrite", "ptrLoRead", "entry", "ptrLoWrite", "ptrHiWrite"}
  a1 = a1
  a2 = a2
  a3 = a3
  b1 = b1
  NoAddr = NoAddr
  Addrs = {a1, a2, a3}
  t1 = t1
  t2 = t2
  Tiles = {t1, t2}
  ByteOf <- SharedByte
  PageEntries = 2
  Pages = 1
SPECIFICATION StagingSpec
SYMMETRY AddressSymmetry
PROPERTY AllOrNothing
CHECK_DEADLOCK TRUE
