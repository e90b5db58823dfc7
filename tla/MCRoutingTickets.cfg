CONSTANTS
  Jtis = {j1, j2, j3}
  Requests = {r1, r2}
  TTL = 4
  Tolerance = 1
  SweepInterval = 2
  MaxEntries = 2
  Drift = 1
  Horizon = 9
  None = None
SYMMETRY Symmetry
SPECIFICATION Spec
INVARIANTS
  TypeOK
  OnlySpentAreHeld
PROPERTIES
  SingleUse
CHECK_DEADLOCK FALSE
