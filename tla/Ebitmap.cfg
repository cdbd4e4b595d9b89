CONSTANTS
    Reg = {r1, r2}
    MapSize = 2
    Limit = 8
SPECIFICATION Spec
INVARIANTS RepInvariant QueriesAgree ReadChecksImage
PROPERTY ImplementsSets
SYMMETRY Symmetry
