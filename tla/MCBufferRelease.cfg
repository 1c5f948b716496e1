SPECIFICATION Spec
CONSTANTS
    Buffers = {b1, b2}
    Blocks = {k1, k2, k3}
    NULL = NULL
    CHUNK_SIZE = 3
    HEAP_LIMIT = 6
    MaxRequest = 5
    Releases = TRUE
CHECK_DEADLOCK FALSE
SYMMETRY Symmetry
INVARIANT NoHeapMisuse
