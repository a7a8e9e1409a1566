SPECIFICATION Spec
CONSTANTS
  StreamLen = 7
  HeaderSize = 2
  Sizes = {2, 4}
  Values = {0, 1, 2, 4}
  Capacity = 5
INVARIANTS FramesArePackets
CHECK_DEADLOCK FALSE
