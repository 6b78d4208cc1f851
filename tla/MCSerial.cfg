SPECIFICATION FairSpec
CONSTANTS
  TTYC_LINE_SIZE = 4
  Task = {"a", "b"}
  ReadSizes = {1, 9}
  MaxOpens = 1
  MaxCrs = 1
  Writer = {"w"}
  Echo = "e"
  Iob = {"1", "2"}
  NULL = "none"
  Lens = {3}
  Echoed = {1}
  TTYC_ECHO_QUEUE = 3
  Depth = 2
  FIFO_SIZE = 2
  MaxWrites = 2
INVARIANTS
  RingHoldsLine SentInOrder
PROPERTY
  SleepersWake
CHECK_DEADLOCK FALSE
