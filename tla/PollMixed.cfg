CONSTANTS
  t1 = t1
  t2 = t2
  t3 = t3
  e = e
  f = f
  a = a
  b = b
  Thread = {t1, t2, t3}
  Event = {e}
  SignalFd = {f}
  Socket = {a, b}
  Limit = 1
  MaxParents = 2
  Timed = {t2}
  Renumbered = {t2}
  InOrder = FALSE
  NoThread = NoThread
  NoCall = NoCall
  Peer <- Pair
  Polls <- MixedPolls
  Calls <- MixedCalls
SPECIFICATION Spec
INVARIANTS
  TypeOK
  NothingMissed
  SlotPerThread
CHECK_DEADLOCK FALSE
