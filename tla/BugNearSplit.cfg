SPECIFICATION Spec
CONSTANTS
    NULL = NULL
    HeapSize = 64
    Size = {3, 12, 20, 44}
INVARIANT FreeFindsBlock
