CONSTANTS
  t1 = t1
  t2 = t2
  t3 = t3
  c1 = c1
  c2 = c2
  x1 = x1
  x2 = x2
  srv1 = srv1
  srv2 = srv2
  Thread = {t1, t2, t3}
  Client = {c1, c2}
  Accepted = {x1, x2}
  Listener = {srv1}
  NonBlocking = {c2}
  Interrupted = {t1}
  NoSocket = NoSocket
  Connects <- PairConnects
  Accepts <- PairAccepts
  Uses <- PairUses
SPECIFICATION Spec
SYMMETRY Symmetry
PROPERTIES
  ImplementsPairs
INVARIANTS
  TypeOK
  PeersMutual
  HangUpReaches
  HalfClosesAgree
  QueuedOnce
  NoSleepOverQueue
CHECK_DEADLOCK FALSE
