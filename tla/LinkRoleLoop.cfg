CONSTANTS
    Ids <- MCIds  Kind <- MCKind  ClassOf <- MCClassOf
    Flavors = {plain, tunable, attribute}  Attribute = attribute
    NoId = NoId  NoFlavor = NoFlavor  plain = plain  tunable = tunable
    t0 = t0  tA = tA  tB = tB  tC = tC  tD = tD  tX = tX  tY = tY  tE = tE
    r0 = r0  r1 = r1  ra = ra  rb = rb  rc = rc  flag = flag  c0 = c0  c1 = c1
    p0 = p0  p1 = p1  p2 = p2
    Base <- MCBase
    Loads <- LoopLoads
SPECIFICATION FairSpec
PROPERTY Terminates
CHECK_DEADLOCK FALSE
