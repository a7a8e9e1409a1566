SPECIFICATION Spec
CONSTANTS
  StreamLen = 6
  HeaderSize = 2
  Sizes = {2, 3}
  Values = {0, 2, 3}
  Capacity = 4
INVARIANTS RoomToReceive BufferHoldsRest StreamRestored
PROPERTIES ArrivedIsHandedOver
CHECK_DEADLOCK FALSE
