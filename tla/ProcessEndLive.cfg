CONSTANTS
  t1 = t1
  t2 = t2
  t3 = t3
  Thread = {t1, t2, t3}
  Started = {t1, t2}
  Waiter = {w1}
  Code = {0}
  Exiters = {t1, t2, t3}
  GroupExiters = {t1}
  Execers = {}
  SelfKillers = {}
  Killed = TRUE
  Killer = k
  ParentLives = TRUE
  OnlyProcess = FALSE
  NoThread = NoThread
  NoCode = NoCode
SPECIFICATION FairSpec
INVARIANTS
  RemovedNotRunning
PROPERTIES
  KillReturns
  WaitersWake
CHECK_DEADLOCK FALSE
