SPECIFICATION FilterSpec
CONSTANTS
    CHUNK_SIZE = 2
    PIPE_CAPACITY = 0
    HEAP_LIMIT = 5
    MaxBytes = 6
    InitialCap = 1
    MaxFilters = 3
    MaxReads = 3
CHECK_DEADLOCK FALSE
INVARIANTS SizeIsPending
PROPERTIES FirstInFirstOut FilteredInOrder
