SPECIFICATION MCSpec
CONSTANTS
  a = a
  b = b
  Starts = {a, b}
  Ends = {c}
  None = None
INVARIANTS RegistryIsSound
PROPERTIES
  HeldIsLetGo
  EverySessionEnds
CHECK_DEADLOCK FALSE
