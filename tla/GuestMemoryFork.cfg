CONSTANTS
  f = f
  w1 = w1
  w2 = w2
  Proc = {p1, p2}
  First = p1
  Worker = {w1, w2}
  LastPage = 1
  Ram = {r1, r2, r3}
  Value = {0, 1}
  Zero = 0
  File = {f}
  Disk <- OnDisk
  Cached = {f}
  Segment = {}
  MapKinds <- AllPrograms
  Executed = {1}
  Waits = {1}
  Protected = {}
  BlindWrites = FALSE
  MultiThreaded = FALSE
  NoRam = NoRam
  NoFile = NoFile
  NoWorker = NoWorker
  NoProc = NoProc
SPECIFICATION Spec
SYMMETRY ThreadSymmetry
INVARIANTS
  OneFileImage
PROPERTIES
  ForkKeepsFutex
  ImplementsSpaces
CHECK_DEADLOCK FALSE
