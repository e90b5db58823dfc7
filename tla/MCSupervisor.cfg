CONSTANTS
  Children = {runtime, control}
  Signals = {SIGINT, SIGTERM}
  Grace = 3
  GroupKill = TRUE
  None = None
SPECIFICATION Spec
INVARIANTS
  TypeOK
  NoneLeftBehind
  EndsInTime
  OwnCode
PROPERTIES
  FullGrace
  UnitEnds
CHECK_DEADLOCK FALSE
