SPECIFICATION Spec
CONSTANTS
  Thread = {t1, t2}
  Block = {b1, b2, b3, b4}
  DataSize = {16, 20, 48}
  MaxCacheBlocks = 2
  RefillCount = 2
SYMMETRY Symmetry
VIEW Read
INVARIANTS EachBlockOnce CacheWithinLimit SameClass
CHECK_DEADLOCK FALSE
