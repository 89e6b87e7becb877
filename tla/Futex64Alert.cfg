CONSTANTS
  p = p
  q = q
  a = a
  t1 = t1
  t2 = t2
  t3 = t3
  NoThread = NoThread
  NoAddr = NoAddr
  NoSlot = NoSlot
  Thread = {t1, t2, t3}
  Proc = {p, q}
  ProcOf <- TwoProcesses
  Addr = {a}
  Word = {0}
  ZeroWord = 0
  Cleanups = 4
  Bit = {1}
  GuestWaits <- AlertWaits
  GuestWakes <- AlertWakes
  MaxFutexes = 3
  MaxPendingWakes = 1
  ClearTid <- NoClearTid
  Signalable = {}
  Killable = {}
SPECIFICATION Spec
SYMMETRY PairSymmetry
INVARIANTS
  TypeOK
  SlotOwnership
  NoTableExhaustion
  NoParkOverPending
PROPERTIES
  ImplementsBridge
CHECK_DEADLOCK FALSE
