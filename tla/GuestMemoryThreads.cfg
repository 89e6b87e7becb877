CONSTANTS
  f = f
  w1 = w1
  w2 = w2
  Proc = {p1, p2}
  First = p1
  Worker = {w1, w2}
  LastPage = 1
  Ram = {r1, r2, r3}
  Value = {0}
  Zero = 0
  File = {f}
  Disk <- Blank
  Cached = {f}
  Segment = {s}
  MapKinds <- PrivatePrograms
  Executed = {}
  Waits = {}
  Protected = {1}
  BlindWrites = TRUE
  MultiThreaded = TRUE
  NoRam = NoRam
  NoFile = NoFile
  NoWorker = NoWorker
  NoProc = NoProc
SPECIFICATION Spec
SYMMETRY ThreadSymmetry
INVARIANTS
  TypeOK
  NoDangling
  PrivateAlone
CHECK_DEADLOCK FALSE
