SPECIFICATION Spec
CONSTANTS
  t1 = t1
  t2 = t2
  Threads = {t1}
  NWorkers = 1
  Kinds = {"plain", "prepared"}
  MaxStmts = 2
  MaxOps = 1
  MaxDrops = 1
CHECK_DEADLOCK FALSE
INVARIANTS TransactionAtomic
