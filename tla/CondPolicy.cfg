CONSTANTS
    a = a  b = b  c = c  x = x  y = y  z = z
    file = file  dir = dir  p = p  q = q  d1 = d1  d2 = d2
    Bools = {a, b}
    MaxDepth = 2
    MaxBools = 2
    Types = {x, y, z}
    Classes = {file, dir}
    Perms = {p, q}
    Drivers = {d1, d2}
    Rules <- AllRules
    Conds <- AllConds
    DisableDontaudit = FALSE
    MaxSources = 3
    NoOwner = NoOwner
SPECIFICATION Spec
INVARIANTS TypeOK TypeRulesUnambiguous FlagsAgree TypeDecisionPrescribed KernelReadAccepts
           AccessMatchesSource XpermsMatchSource
CHECK_DEADLOCK FALSE
