SPECIFICATION Spec
CONSTANTS
  t1 = t1
  t2 = t2
  t3 = t3
  Thread = {t1, t2, t3}
  Id <- SpawnedIds
  MaxDepth = 2
  CounterMax = 3
  NoThread = NoThread
CONSTRAINT UntilTrespass
INVARIANTS MutualExclusion RecursionCounts
PROPERTIES WaiterEnters
