CONSTANTS
  t1 = t1
  t2 = t2
  t3 = t3
  Thread = {t1, t2, t3}
  Started = {t1, t2, t3}
  Waiter = {w1, w2}
  Code = {1}
  Exiters = {t2, t3}
  GroupExiters = {t1, t2}
  Execers = {t3}
  SelfKillers = {t3}
  Killed = TRUE
  Killer = k
  ParentLives = TRUE
  OnlyProcess = FALSE
  NoThread = NoThread
  NoCode = NoCode
SPECIFICATION Spec
SYMMETRY Symmetry
INVARIANTS
  TypeOK
  AloneWhenTerminated
  ReapedOnce
CHECK_DEADLOCK FALSE
