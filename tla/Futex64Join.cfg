CONSTANTS
  p = p
  q = q
  a = a
  t1 = t1
  t2 = t2
  t3 = t3
  NoThread = NoThread
  NoAddr = NoAddr
  NoSlot = NoSlot
  Thread = {t1, t2, t3}
  Proc = {p}
  ProcOf <- OneProcess
  Addr = {a}
  Word = {0, 1}
  ZeroWord = 0
  Cleanups = 1
  Bit = {1}
  GuestWaits <- JoinWaits
  GuestWakes <- JoinWakes
  MaxFutexes = 2
  MaxPendingWakes = 1
  ClearTid <- JoinedClears
  Signalable = {t1}
  Killable = {t1}
SPECIFICATION FairSpec
INVARIANTS
  FutexInv
  NoStaleSleeper
PROPERTIES
  FlaggedReturns
  KickedLeaves
CHECK_DEADLOCK FALSE
