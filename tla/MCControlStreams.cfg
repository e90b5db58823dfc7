CONSTANTS
  Streams = {s1, s2, s3}
  Tunnels = {t1, t2}
  Slots = {c1, c2}
  MaxIds = 2
  None = None
SYMMETRY Symmetry
SPECIFICATION Spec
INVARIANTS
  TypeOK
  ActiveStreamsExact
  ActiveRequestsAccounted
  NoLeak
  RoutingInStep
PROPERTIES
  RightPeer
  CloseOnce
  DataAfterCloseOnlyAnswers
CHECK_DEADLOCK FALSE
