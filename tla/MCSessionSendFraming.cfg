SPECIFICATION Spec
CONSTANTS
  p1 = p1
  p2 = p2
  p3 = p3
  Packet = {p1, p2, p3}
  NoPacket = NoPacket
  Size <- MCSize
  Worker = {worker}
  Owner = owner
  SocketRoom = 2
  Kinds = {TRUE}
  MaxDisconnects = 1
INVARIANTS PacketsContiguous
CHECK_DEADLOCK FALSE
