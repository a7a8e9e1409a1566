SPECIFICATION Spec
CONSTANTS
  w1 = w1
  w2 = w2
  k1 = k1
  k2 = k2
  Worker = {w1, w2}
  Task = {k1, k2}
  MaxPushes = 2
  NoTask = NoTask
INVARIANTS RunOrCancelled NoStrandedTask
PROPERTIES WorkersReturn
CHECK_DEADLOCK FALSE
