CONSTANTS
  Installers = {i1, i2}
  Retention = 1
  MaxReleases = 4
  GnuMv = FALSE
  None = None
  Dead = Dead
SPECIFICATION Spec
INVARIANTS
  OneInstaller
  CurrentWhole
  RunningWhole
PROPERTIES
  InstallersSettle
  NodeReturns
CHECK_DEADLOCK FALSE
