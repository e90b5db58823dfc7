CONSTANTS
  u1 = u1
  u2 = u2
  v1 = v1
  v2 = v2
  b0 = b0
  b1 = b1
  b2 = b2
  Updates = {u1, u2}
  Versions = {v1, v2}
  Builds = {b0, b1, b2}
  VersionOf <- OtherVersion
  BuildOf <- Artifacts
  Packaged <- Packages
  Prepares = {p1, p2}
  Applies = {a1}
  Conns = {1, 2}
  GnuMv = FALSE
  Torn = Torn
  None = None
SPECIFICATION Spec
INVARIANTS
  AckedIsInstalled
CHECK_DEADLOCK FALSE
