SPECIFICATION Spec
CONSTANTS
    Alphabet = {"a", "b", "C", " ", "\n"}
    Needles <- MCNeedles
    Ints <- MCInts
    INT_MAX = 127
    MaxLen = 4
    WORD = 16
CHECK_DEADLOCK FALSE
INVARIANTS RefInside SearchIsExact CutsAreExact NumbersAreExact
PROPERTY FixedKeeps
