CONSTANTS
  t1 = t1
  t2 = t2
  t3 = t3
  e = e
  f = f
  a = a
  b = b
  Thread = {t1, t2, t3}
  Event = {e}
  SignalFd = {}
  Socket = {a, b}
  Limit = 2
  MaxParents = 2
  Timed = {}
  Renumbered = {}
  InOrder = TRUE
  NoThread = NoThread
  NoCall = NoCall
  Peer <- Pair
  Polls <- LivePolls
  Calls <- LiveCalls
SPECIFICATION FairSpec
PROPERTIES
  PollReturns
  BlockedWakes
CHECK_DEADLOCK FALSE
