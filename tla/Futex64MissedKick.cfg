CONSTANTS
  p = p
  q = q
  a = a
  t1 = t1
  t2 = t2
  t3 = t3
  NoThread = NoThread
  NoAddr = NoAddr
  NoSlot = NoSlot
  Thread = {t1, t2}
  Proc = {p}
  ProcOf <- OneProcess
  Addr = {a}
  Word = {0}
  ZeroWord = 0
  Cleanups = 4
  Bit = {1}
  GuestWaits <- PlainWaits
  GuestWakes <- PlainWakes
  MaxFutexes = 2
  MaxPendingWakes = 1
  ClearTid <- NoClearTid
  Signalable = {t1, t2}
  Killable = {t1}
SPECIFICATION FairSpec
PROPERTIES
  TerminatedLeaves
CHECK_DEADLOCK FALSE
