SPECIFICATION FairSpec
CONSTANTS
  MaxPid = 4
  PoolSize = 2
  MaxData = 1
  Calls <- Programs
INVARIANTS
  TasksInPlace
  NoFreedVprocInUse
  BlocksOnlyWhenNothingToRun
PROPERTIES
  EveryTaskGoesOn
CHECK_DEADLOCK FALSE
