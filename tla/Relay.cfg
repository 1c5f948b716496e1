SPECIFICATION RelaySpec
CONSTANTS
    Pipes = {p1, p2}
    NoPipe = NoPipe
    PIPE_CAPACITY = 3
    CLEAR_CHUNK = 2
    MaxSize = 5
    READ_SIZE = 2
    MaxSupply = 5
CHECK_DEADLOCK FALSE
INVARIANTS OffByUncounted RelaysAll
PROPERTIES ClearEmpties ClearReturns
