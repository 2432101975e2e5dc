\* Two addresses in one bitmap byte, a queue of three entries.  The closed windows are the places where an
\* interrupt breaks one of the properties (see README).
CONSTANTS
  Deferred = {}
  Values = {0}
  p1 = p1
  SafePoints = {p1}
  NoPC = NoPC
  Vertical = FALSE
  Shape = FALSE
  PrepSteps = 1
  ClosedWindows = {"complete", "start", "copy", "clean", "valid", "bitWrite", "ptrLoRead", "entry", "ptrLoWrite", "ptrHiWrite"}
  a1 = a1
  a2 = a2
  b1 = b1
  NoAddr = NoAddr
  Addrs = {a1, a2}
  t1 = t1
  t2 = t2
  Tiles = {t1, t2}
  ByteOf <- SharedByte
  PageEntries = 3
  Pages = 1
SPECIFICATION StagingSpec
SYMMETRY AddressSymmetry
INVARIANTS StagingTypeOK NoLostWrite RetireInOrder EntriesWritten
CHECK_DEADLOCK TRUE
