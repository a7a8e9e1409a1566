SPECIFICATION ArenaSpec
CONSTANTS
  t1 = t1
  t2 = t2
  b1 = b1
  b2 = b2
  b3 = b3
  Sender = {t1, t2}
  Buffer = {b1, b2, b3}
  PoolSize = 1
  Capacity = 2
  MaxSize = 3
  MaxPackets = 3
  NoBuffer = NoBuffer
INVARIANTS EachBufferOnce LiveBytesKept FirstPacketIntact
SYMMETRY Symmetry
CHECK_DEADLOCK FALSE
