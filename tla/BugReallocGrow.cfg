SPECIFICATION HeapSpec
CONSTANTS
    HeapBase = 2
    HeapBytes = 32
    Request = {0, 3, 6, 12}
INVARIANT RingHoldsTogether
CHECK_DEADLOCK FALSE
