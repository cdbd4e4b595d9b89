CONSTANTS
  ProcessClass = 1
  PermMax = 4
  CexprMax = 3
  CondMax = 3
  SidMax = 4
  Policycaps = {0, 1, 2}
  Beyond = 9
  Inputs <- MCInputs
  Damages <- MCDamages
  DamagedInputs <- MCDamagedInputs
SPECIFICATION Spec
CHECK_DEADLOCK FALSE
INVARIANTS ReadBack WriteStable AccessKept DamageRejected
