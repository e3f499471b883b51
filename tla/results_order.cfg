SPECIFICATION FairSpec
CONSTANTS
  NWorkers = 1
  NCallers = 2
  TickTimeout = TRUE
  MaxQueries = 4
CHECK_DEADLOCK FALSE
INVARIANTS TypeOK UnsafeOrder CallbackOnce TickBarrier
PROPERTY CallbackRuns
