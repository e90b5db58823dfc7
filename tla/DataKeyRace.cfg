SPECIFICATION Spec
CONSTANTS
  Procs = {p1, p2}
  Keys = {k1, k2}
  Deks = {e1, e2}
  Ids = {n1, n2}
  None = None
  Torn = Torn
  Plain = Plain
SYMMETRY Symmetry
INVARIANT SealedUnderStoredKey
