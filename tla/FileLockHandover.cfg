CONSTANTS
  p1 = p1
  p2 = p2
  p3 = p3
  t1 = t1
  t2 = t2
  t3 = t3
  u1 = u1
  d1 = d1
  d2 = d2
  Proc = {p1, p2, p3}
  Thread = {t1, t2, t3, u1}
  ProcOf <- Sharing
  Locker = {t1, t2, t3}
  Desc = {d1}
  Opens <- OneEach
  Range <- Crossing
  Top = 4
  NoDesc = NoDesc
  NoRange = NoRange
SPECIFICATION Spec
SYMMETRY Symmetry
PROPERTIES
  ImplementsRecordLocks
INVARIANTS
  TypeOK
  Exclusive
  LocksHaveDescriptor
  NotAllAsleep
CHECK_DEADLOCK FALSE
