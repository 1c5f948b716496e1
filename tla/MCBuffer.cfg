SPECIFICATION Spec
CONSTANTS
    Buffers = {b1, b2, b3}
    Blocks = {k1, k2, k3, k4}
    NULL = NULL
    CHUNK_SIZE = 3
    HEAP_LIMIT = 6
    MaxRequest = 5
    Releases = FALSE
CHECK_DEADLOCK FALSE
SYMMETRY Symmetry
INVARIANTS NoHeapMisuse StorageOwned TrueMeansAvailable
