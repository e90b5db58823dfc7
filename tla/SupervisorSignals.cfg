CONSTANTS
  Children = {runtime, control}
  Signals = {SIGINT, SIGTERM}
  Grace = 3
  GroupKill = TRUE
  None = None
SPECIFICATION Safety
INVARIANT SignalDrains
CHECK_DEADLOCK FALSE
