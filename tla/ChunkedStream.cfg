SPECIFICATION DrainSpec
CONSTANTS
    CHUNK_SIZE = 2
    PIPE_CAPACITY = 2
    HEAP_LIMIT = 3
    MaxBytes = 4
    MaxChunks = 3
    Clients = {"careful", "any"}
INVARIANTS SizeIsPending
PROPERTIES FirstInFirstOut ReadReturns Drains
