SPECIFICATION Spec
CONSTANTS
  t1 = t1
  t2 = t2
  Threads = {t1}
  NWorkers = 2
  Kinds = {"plain", "prepared"}
  MaxStmts = 2
  MaxOps = 2
  MaxDrops = 1
CHECK_DEADLOCK FALSE
INVARIANTS TypeOK OwnedOnce NothingLeftBehind OnceAndWhole
