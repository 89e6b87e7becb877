CONSTANTS
  t1 = t1
  t2 = t2
  t3 = t3
  Thread = {t1, t2}
  Started = {t1, t2}
  Waiter = {}
  Code = {0, 1}
  Exiters = {t1, t2}
  GroupExiters = {}
  Execers = {}
  SelfKillers = {}
  Killed = FALSE
  Killer = k
  ParentLives = FALSE
  OnlyProcess = TRUE
  NoThread = NoThread
  NoCode = NoCode
SPECIFICATION Spec
INVARIANTS
  LastExitEnds
CHECK_DEADLOCK FALSE
