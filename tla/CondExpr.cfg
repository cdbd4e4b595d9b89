CONSTANTS
    Bools = {b1, b2, b3}
    MaxDepth = 2
    MaxBools = 2
    MaxLeft = 5
    MaxRight = 3
SPECIFICATION Spec
INVARIANTS ValidIsDefined NormalizeKeepsMeaning EqualInOrderIsExact
CHECK_DEADLOCK FALSE
