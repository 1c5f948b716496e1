SPECIFICATION ReadFairSpec
CONSTANTS
    CHUNK_SIZE = 4
    MIN_ROOM = 2
    FIRST_RESERVE = 6
    MaxSize = 13
    HEAP_LIMIT = 16
INVARIANTS RequestIsUseful ReturnIsHonest
PROPERTY CallReturns
