SPECIFICATION MCSpec
CONSTANTS
  Frames = {f1, f2, f3, f4}
  Locks = {a, b}
  MaxQueue = 2
  LeaseTtl = 1
  None = None
INVARIANTS
  NobodyIsStranded
  NoSelfDeadlock
PROPERTIES
  HoldIsKept
  NoOvertaking
  NobodyWaitsForEver
CHECK_DEADLOCK FALSE
