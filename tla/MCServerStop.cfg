SPECIFICATION ServerSpec
CONSTANTS
  Shards = 2
  MaxConnects = 1
  MaxPackets = 2
INVARIANTS EarlyTasksRun
PROPERTIES StopReturns
CHECK_DEADLOCK FALSE
