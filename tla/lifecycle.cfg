CONSTANTS
  WorkerShutdownTimeout = 4
  HTTPShutdownTimeout = 3
  StopSlack = 1
  StartTimeout = 12
SPECIFICATION FairSpec
INVARIANTS PoolClosesLast DeadlinesKept CleanExit
PROPERTIES StopAdvances StopEnds
CHECK_DEADLOCK FALSE
