SPECIFICATION FairSpec
CONSTANTS
  t1 = t1
  t2 = t2
  Threads = {t1, t2}
  NWorkers = 1
  Kinds = {"plain"}
  MaxStmts = 3
  MaxOps = 2
  MaxDrops = 0
CHECK_DEADLOCK FALSE
INVARIANTS SessionOrder
PROPERTIES ImplementsLog EventuallyExecuted StopTerminates
