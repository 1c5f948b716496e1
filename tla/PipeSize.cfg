SPECIFICATION PipeSpec
CONSTANTS
    Pipes = {p1, p2}
    NoPipe = NoPipe
    PIPE_CAPACITY = 3
    CLEAR_CHUNK = 2
    MaxSize = 5
CHECK_DEADLOCK FALSE
INVARIANT SizeIsExact
