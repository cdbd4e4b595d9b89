CONSTANTS
    Bools = {b1, b2}
    MaxDepth = 2
    MaxBools = 2
    MaxLeft = 4
    MaxRight = 4
SPECIFICATION Spec
INVARIANTS EqualIsEquivalent
CHECK_DEADLOCK FALSE
