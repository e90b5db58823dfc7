SPECIFICATION Spec
CONSTANTS
  Pinned = FALSE
  MaxFrames = 2
INVARIANTS TypeOK OneTunnel SessionAgrees
PROPERTY KeepsTrying
